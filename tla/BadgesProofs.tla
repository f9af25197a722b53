---------------------------- MODULE BadgesProofs ----------------------------
(***************************************************************************)
(* Theorems about module Badges, for any badges, people, handlers and      *)
(* number of requests.                                                     *)
(***************************************************************************)
EXTENDS Badges, TLAPS, SequenceTheorems, FiniteSetTheorems

-----------------------------------------------------------------------------
(* The inductive invariant. *)

Rows == UNION {[S -> Badge] : S \in SUBSET Badges}

Request == [pc : PCs, from : Badges \cup {NoOne}, to : Badges \cup {NoOne}, old : Badge,
            writes : Rows, moved : SUBSET Nat, raced : BOOLEAN]

Types ==
    /\ badges \in [Badges -> Badge]
    /\ records \in Seq(Record)
    /\ requests \in [Requests -> Request]
    /\ \A r \in Requests : requests[r].moved \subseteq DOMAIN records
    /\ present \subseteq People
    /\ contested \in BOOLEAN
    /\ resynced \in BOOLEAN

Moving == {"moveCheckOuts", "moveCopies", "movePlayers", "commit"}

\* Both badges were found.
Going == {"updateOld", "updateNew"} \cup Moving

\* The move of the records of a kind is behind the transaction.
Past(pc, kind) ==
    \/ kind = "checkOut" /\ pc \in {"moveCopies", "movePlayers", "commit"}
    \/ kind = "copy" /\ pc \in {"movePlayers", "commit"}
    \/ kind = "player" /\ pc = "commit"

\* What a transaction has written and locked so far.
Stage(req) ==
    /\ req.pc = "insert" => req.from \in Badges
    /\ req.pc \in Going => req.from \in Badges /\ req.to \in Badges
    /\ req.pc \notin Moving => req.moved = {}
    /\ req.pc \notin Moving \cup {"updateNew"} => DOMAIN req.writes = {}
    /\ req.pc = "updateNew" => DOMAIN req.writes = {req.from}
    /\ req.pc \in Moving =>
        /\ DOMAIN req.writes = {req.from, req.to}
        /\ req.writes[req.to] = [req.old EXCEPT !.lost = req.writes[req.to].lost]
    /\ (req.pc = "updateNew" \/ (req.pc \in Moving /\ req.from # req.to)) =>
        req.writes[req.from] = MarkLost(req.old)

\* A badge with no name on it has no owner.
BlankIsFree(badge) == badge.name.who = Blank => badge.email = NoOne

Linked(badge) == badge.user \in {NoOne, badge.email}

LocksExclude ==
    \A r, s \in Requests :
        r # s => DOMAIN requests[r].writes \cap DOMAIN requests[s].writes = {}

LostKept ==
    \A r \in Requests : \A b \in DOMAIN requests[r].writes :
        badges[b].lost => requests[r].writes[b].lost

BlanksAreFree ==
    /\ \A b \in Badges : BlankIsFree(badges[b])
    /\ \A r \in Requests : BlankIsFree(requests[r].old)

AccountsLinked ==
    ~resynced =>
        /\ \A b \in Badges : Linked(badges[b])
        /\ \A r \in Requests : Linked(requests[r].old)

OverlapsMarked ==
    \A r, s \in Requests :
        (/\ Replacing(r)
         /\ requests[s].pc = "insert"
         /\ requests[s].from = requests[r].from) => requests[s].raced

\* Until writers of a badge overlap, a transaction's copy is the committed row ...
Separate ==
    \A r, s \in Requests :
        (Replacing(r) /\ Replacing(s) /\ r # s) => Involved(r) \cap Involved(s) \subseteq {NoOne}

Fresh(req) ==
    /\ (req.pc \in Going \cup {"readNew"} /\ req.from \in Badges) => req.old = badges[req.from]
    /\ req.pc \in Going => badges[req.to].name.who = Blank

\* ... and what it moves are the records of the lost badge.
MovesOwn(req) == \A i \in req.moved : records[i].badge = req.from

MovesAll(req) ==
    \A i \in DOMAIN records :
        (/\ records[i].badge = req.from
         /\ Past(req.pc, records[i].kind)
         /\ ~records[i].raced) => i \in req.moved

Uncontested ==
    ~contested =>
        /\ Separate
        /\ \A r \in Requests : Fresh(requests[r]) /\ MovesOwn(requests[r]) /\ MovesAll(requests[r])

BadgesInv ==
    /\ Types
    /\ \A r \in Requests : Stage(requests[r])
    /\ LocksExclude
    /\ LostKept
    /\ BlanksAreFree
    /\ AccountsLinked
    /\ OverlapsMarked
    /\ Uncontested

\* Nobody is registered on two badges.
OneBadgeEach ==
    \A b, c \in Badges : FirstHolder[b] = FirstHolder[c] /\ b # c => FirstHolder[b] = Blank

Held ==
    ~Disputed =>
        /\ \A p \in present : \E b \in Badges : badges[b].email = p
        /\ \A b \in Badges : badges[b].email \in present \cup {NoOne}
        /\ \A b, c \in Badges : badges[b].email = badges[c].email /\ b # c => badges[b].email = NoOne

-----------------------------------------------------------------------------
(* The parts of the state. *)

LEMMA BadgeTypes ==
    ASSUME BadgesAssumption
    PROVE  /\ NoBadge \in Badge /\ BlankIsFree(NoBadge) /\ Linked(NoBadge)
           /\ Idle \in Request /\ Stage(Idle)
           /\ Idle.pc = "idle" /\ Idle.old = NoBadge /\ Idle.moved = {} /\ DOMAIN Idle.writes = {}
           /\ Idle.from = NoOne /\ Idle.to = NoOne /\ Idle.writes \in Rows /\ Idle.raced = FALSE
<1>1. NoBadge \in Badge /\ BlankIsFree(NoBadge) /\ Linked(NoBadge)
  BY DEF NoBadge, Badge, Name, BlankIsFree, Linked
<1>2. PICK none : none = <<>>
  OBVIOUS
<1>3. DOMAIN none = {} /\ none \in [{} -> Badge]
  BY <1>2
<1>4. none \in Rows
  BY <1>3 DEF Rows
<1>5. /\ Idle.pc = "idle" /\ Idle.from = NoOne /\ Idle.to = NoOne /\ Idle.old = NoBadge
      /\ Idle.writes = none /\ Idle.moved = {} /\ Idle.raced = FALSE
  BY <1>2 DEF Idle
<1>6. Idle \in Request
  <2>1. Idle = [pc |-> "idle", from |-> NoOne, to |-> NoOne, old |-> NoBadge,
                writes |-> none, moved |-> {}, raced |-> FALSE]
    BY <1>2 DEF Idle
  <2>2. QED
    BY <1>1, <1>4, <2>1 DEF Request, PCs
<1>7. Stage(Idle)
  BY <1>3, <1>5 DEF Stage, Moving, Going
<1>8. QED
  BY <1>1, <1>3, <1>4, <1>5, <1>6, <1>7

LEMMA RegisteredType ==
    ASSUME BadgesAssumption, NEW b \in Badges
    PROVE  /\ Registered(b) \in Badge
           /\ Registered(b).name.who = FirstHolder[b]
           /\ Registered(b).email = IF FirstHolder[b] = Blank THEN NoOne ELSE FirstHolder[b]
           /\ Registered(b).lost = FALSE
           /\ BlankIsFree(Registered(b))
<1>1. FirstHolder[b] \in People \cup {Blank}
  BY DEF BadgesAssumption
<1>2. Registered(b) = [NoBadge EXCEPT !.name.who = FirstHolder[b],
                         !.email = IF FirstHolder[b] = Blank THEN NoOne ELSE FirstHolder[b]]
  BY DEF Registered
<1>3. PICK owner : owner = IF FirstHolder[b] = Blank THEN NoOne ELSE FirstHolder[b]
  OBVIOUS
<1>4. owner \in People \cup {NoOne}
  BY <1>1, <1>3
<1>5. Registered(b) = [NoBadge EXCEPT !.name.who = FirstHolder[b], !.email = owner]
  BY <1>2, <1>3
<1>6. /\ Registered(b) \in Badge
      /\ Registered(b).name.who = FirstHolder[b]
      /\ Registered(b).email = owner
      /\ Registered(b).lost = FALSE
  <2>1. PICK name : name = [who |-> FirstHolder[b], marks |-> 0]
    OBVIOUS
  <2>2. Registered(b) = [name |-> name, email |-> owner, user |-> NoOne, lost |-> FALSE]
    BY <1>5, <2>1 DEF NoBadge
  <2>3. name \in Name /\ name.who = FirstHolder[b]
    BY <1>1, <2>1 DEF Name
  <2>4. QED
    BY <1>4, <2>2, <2>3 DEF Badge
<1>7. QED
  BY <1>3, <1>6 DEF BlankIsFree

LEMMA MarkLostType ==
    ASSUME BadgesAssumption, NEW old \in Badge
    PROVE  /\ MarkLost(old) \in Badge
           /\ MarkLost(old).lost
           /\ MarkLost(old).email = NoOne
           /\ MarkLost(old).user = NoOne
           /\ MarkLost(old).name = [old.name EXCEPT !.marks = @ + 1]
           /\ BlankIsFree(MarkLost(old)) /\ Linked(MarkLost(old))
<1>1. PICK name : name = [old.name EXCEPT !.marks = @ + 1]
  OBVIOUS
<1>2. name \in Name
  BY <1>1 DEF Badge, Name
<1>3. MarkLost(old) = [name |-> name, email |-> NoOne, user |-> NoOne, lost |-> TRUE]
  BY <1>1 DEF MarkLost
<1>4. /\ MarkLost(old) \in Badge /\ MarkLost(old).lost /\ MarkLost(old).email = NoOne
      /\ MarkLost(old).user = NoOne /\ MarkLost(old).name = name
  BY <1>2, <1>3 DEF Badge
<1>5. QED
  BY <1>1, <1>4 DEF BlankIsFree, Linked

\* The rows a transaction has written, with one more.
Wrote(writes, before, b, row) ==
    /\ writes \in Rows
    /\ DOMAIN writes = DOMAIN before \cup {b}
    /\ writes[b] = row
    /\ \A c \in DOMAIN before : c # b => writes[c] = before[c]

LEMMA WriteType ==
    ASSUME NEW req \in Request, NEW b \in Badges, NEW row \in Badge
    PROVE  Wrote(Write(req, b, row), req.writes, b, row)
<1>1. PICK S \in SUBSET Badges : req.writes \in [S -> Badge]
  BY DEF Request, Rows
<1>2. Write(req, b, row) \in [S \cup {b} -> Badge]
  BY <1>1 DEF Write
<1>3. S \cup {b} \in SUBSET Badges
  BY <1>1
<1>4. Write(req, b, row) \in Rows
  BY <1>2, <1>3 DEF Rows
<1>5. QED
  BY <1>1, <1>4 DEF Write, Wrote

LEMMA RecordTypes ==
    ASSUME Types
    PROVE  /\ DOMAIN records = 1 .. Len(records) /\ Len(records) \in Nat
           /\ \A i \in DOMAIN records : records[i] \in Record
  BY ElementOfSeq, LenProperties DEF Types

\* A transaction's own view of a row.
LEMMA CurrentType ==
    ASSUME Types, NEW r \in Requests, NEW b \in Badges
    PROVE  Current(r, b) \in Badge
<1>1. requests[r] \in Request /\ badges[b] \in Badge
  BY DEF Types
<1>2. PICK S \in SUBSET Badges : requests[r].writes \in [S -> Badge]
  BY <1>1 DEF Request, Rows
<1>3. QED
  BY <1>1, <1>2 DEF Current

-----------------------------------------------------------------------------
(* Steps that change one handler only. *)

\* What a handler may become, when the tables stay as they are.
Sound(r, q) ==
    /\ Stage(q)
    /\ q.moved \subseteq DOMAIN records
    /\ \A s \in Requests : s # r => DOMAIN q.writes \cap DOMAIN requests[s].writes = {}
    /\ \A b \in DOMAIN q.writes : badges[b].lost => q.writes[b].lost
    /\ BlankIsFree(q.old)
    /\ ~resynced => Linked(q.old)
    /\ q.pc = "insert" =>
         \A s \in Requests : Replacing(s) /\ requests[s].from = q.from => q.raced
    /\ q.pc \notin {"idle", "insert"} =>
         Replacing(r) /\ q.from = requests[r].from /\ q.to = requests[r].to
    /\ ~contested => Fresh(q) /\ MovesOwn(q) /\ MovesAll(q)

LEMMA Advance ==
    ASSUME BadgesInv, NEW r \in Requests, NEW q \in Request, Sound(r, q), Continue(r, q),
           UNCHANGED <<badges, records, present, contested, resynced>>
    PROVE  BadgesInv'
<1>1. /\ requests \in [Requests -> Request]
      /\ requests' = [requests EXCEPT ![r] = q]
  BY DEF BadgesInv, Types, Continue
<1>2. /\ requests' \in [Requests -> Request]
      /\ requests'[r] = q
      /\ \A s \in Requests : s # r => requests'[s] = requests[s]
  BY <1>1
<1>3. Types'
  BY <1>2 DEF BadgesInv, Types, Sound
<1>4. \A s \in Requests : Stage(requests'[s])
  BY <1>2 DEF BadgesInv, Sound
<1>5. LocksExclude'
  BY <1>2 DEF BadgesInv, LocksExclude, Sound
<1>6. LostKept'
  BY <1>2 DEF BadgesInv, LostKept, Sound
<1>7. BlanksAreFree'
  BY <1>2 DEF BadgesInv, BlanksAreFree, Sound
<1>8. AccountsLinked'
  BY <1>2 DEF BadgesInv, AccountsLinked, Sound
<1>9. OverlapsMarked'
  BY <1>2 DEF BadgesInv, OverlapsMarked, Sound, Replacing
<1>10. Uncontested'
  <2>1. SUFFICES ASSUME ~contested PROVE Separate' /\ \A s \in Requests :
            Fresh(requests[s])' /\ MovesOwn(requests[s])' /\ MovesAll(requests[s])'
    BY DEF Uncontested
  <2>2. Separate'
    BY <1>2, <2>1 DEF BadgesInv, Uncontested, Separate, Sound, Replacing, Involved
  <2>3. ASSUME NEW s \in Requests
        PROVE  Fresh(requests[s])' /\ MovesOwn(requests[s])' /\ MovesAll(requests[s])'
    <3>1. Fresh(requests'[s]) /\ MovesOwn(requests'[s]) /\ MovesAll(requests'[s])
      BY <1>2, <2>1, <2>3 DEF BadgesInv, Uncontested, Sound
    <3>2. QED
      BY <3>1 DEF Fresh, MovesOwn, MovesAll
  <2>4. QED
    BY <2>2, <2>3
<1>11. QED
  BY <1>3, <1>4, <1>5, <1>6, <1>7, <1>8, <1>9, <1>10 DEF BadgesInv

\* What a handler holds already.
LEMMA SoundNow ==
    ASSUME BadgesInv, NEW r \in Requests
    PROVE  /\ requests[r] \in Request
           /\ Stage(requests[r])
           /\ requests[r].moved \subseteq DOMAIN records
           /\ \A s \in Requests :
                s # r => DOMAIN requests[r].writes \cap DOMAIN requests[s].writes = {}
           /\ \A b \in DOMAIN requests[r].writes : badges[b].lost => requests[r].writes[b].lost
           /\ BlankIsFree(requests[r].old)
           /\ ~resynced => Linked(requests[r].old)
           /\ ~contested => /\ Fresh(requests[r])
                            /\ MovesOwn(requests[r])
                            /\ MovesAll(requests[r])
  BY DEF BadgesInv, Types, LocksExclude, LostKept, BlanksAreFree, AccountsLinked, Uncontested

LEMMA FinishSound ==
    ASSUME BadgesAssumption, NEW r \in Requests
    PROVE  Sound(r, Idle)
<1>1. Fresh(Idle) /\ MovesOwn(Idle) /\ MovesAll(Idle)
  BY BadgeTypes DEF Fresh, MovesOwn, MovesAll, Going, Moving, Past
<1>2. QED
  BY <1>1, BadgeTypes DEF Sound

LEMMA FinishInv ==
    ASSUME BadgesAssumption, BadgesInv, NEW r \in Requests, Finish(r),
           UNCHANGED <<badges, records, present, contested, resynced>>
    PROVE  BadgesInv'
  BY FinishSound, BadgeTypes, Advance DEF Finish

LEMMA ReadOldInv ==
    ASSUME BadgesAssumption, BadgesInv, NEW r \in Requests, ReadOld(r)
    PROVE  BadgesInv'
<1>1. PICK req : req = requests[r]
  OBVIOUS
<1>2. PICK old : old = IF req.from \in Badges THEN badges[req.from] ELSE req.old
  OBVIOUS
<1>3. PICK q : q = [req EXCEPT !.pc = "readNew", !.old = old]
  OBVIOUS
<1>4. /\ req.pc = "readOld"
      /\ Continue(r, q)
      /\ UNCHANGED <<badges, records, present, contested, resynced>>
  BY <1>1, <1>2, <1>3 DEF ReadOld
<1>5. /\ req \in Request /\ Stage(req)
      /\ BlankIsFree(req.old) /\ (~resynced => Linked(req.old))
      /\ \A s \in Requests : s # r => DOMAIN req.writes \cap DOMAIN requests[s].writes = {}
  BY <1>1, SoundNow
<1>6. old \in Badge /\ BlankIsFree(old) /\ (~resynced => Linked(old))
  BY <1>2, <1>5 DEF BadgesInv, Types, Request, BlanksAreFree, AccountsLinked
<1>7. /\ q \in Request
      /\ q.pc = "readNew" /\ q.from = req.from /\ q.to = req.to /\ q.old = old
      /\ q.writes = req.writes /\ q.moved = req.moved
  BY <1>3, <1>5, <1>6 DEF Request, PCs
<1>8. q.moved = {} /\ DOMAIN q.writes = {}
  BY <1>4, <1>5, <1>7 DEF Stage, Moving, Going
<1>9. Stage(q)
  BY <1>7, <1>8 DEF Stage, Moving, Going
<1>10. Fresh(q) /\ MovesOwn(q) /\ MovesAll(q)
  BY <1>2, <1>7, <1>8 DEF Fresh, MovesOwn, MovesAll, Going, Moving, Past
<1>11. Replacing(r)
  BY <1>1, <1>4 DEF Replacing
<1>12. Sound(r, q)
  BY <1>1, <1>6, <1>7, <1>8, <1>9, <1>10, <1>11 DEF Sound
<1>13. QED
  BY <1>4, <1>7, <1>12, Advance

LEMMA ReadNewInv ==
    ASSUME BadgesAssumption, BadgesInv, NEW r \in Requests, ReadNew(r)
    PROVE  BadgesInv'
<1>1. PICK req : req = requests[r]
  OBVIOUS
<1>2. PICK q : q = [req EXCEPT !.pc = "updateOld"]
  OBVIOUS
<1>3. /\ req.pc = "readNew"
      /\ \/ /\ req.from \in Badges /\ req.to \in Badges /\ Unassigned(badges[req.to])
            /\ Continue(r, q)
         \/ Finish(r)
      /\ UNCHANGED <<badges, records, present, contested, resynced>>
  BY <1>1, <1>2 DEF ReadNew
<1>4. CASE Finish(r)
  BY <1>3, <1>4, FinishInv
<1>5. CASE /\ req.from \in Badges /\ req.to \in Badges /\ Unassigned(badges[req.to])
           /\ Continue(r, q)
  <2>1. /\ req \in Request /\ Stage(req)
        /\ BlankIsFree(req.old) /\ (~resynced => Linked(req.old))
        /\ ~contested => Fresh(req)
    BY <1>1, SoundNow
  <2>2. /\ q \in Request
        /\ q.pc = "updateOld" /\ q.from = req.from /\ q.to = req.to /\ q.old = req.old
        /\ q.writes = req.writes /\ q.moved = req.moved
    BY <1>2, <2>1 DEF Request, PCs
  <2>3. q.moved = {} /\ DOMAIN q.writes = {}
    BY <1>3, <2>1, <2>2 DEF Stage, Moving, Going
  <2>4. Stage(q)
    BY <1>5, <2>2, <2>3 DEF Stage, Moving, Going
  <2>5. ~contested => Fresh(q) /\ MovesOwn(q) /\ MovesAll(q)
    BY <1>3, <1>5, <2>1, <2>2, <2>3
    DEF Fresh, MovesOwn, MovesAll, Going, Moving, Past, Unassigned
  <2>6. Replacing(r)
    BY <1>1, <1>3 DEF Replacing
  <2>7. Sound(r, q)
    BY <1>1, <2>1, <2>2, <2>3, <2>4, <2>5, <2>6 DEF Sound
  <2>8. QED
    BY <1>3, <1>5, <2>2, <2>7, Advance
<1>6. QED
  BY <1>3, <1>4, <1>5

LEMMA UpdateOldInv ==
    ASSUME BadgesAssumption, BadgesInv, NEW r \in Requests, UpdateOld(r)
    PROVE  BadgesInv'
<1>1. PICK req : req = requests[r]
  OBVIOUS
<1>2. PICK row : row = MarkLost(req.old)
  OBVIOUS
<1>3. PICK writes : writes = Write(req, req.from, row)
  OBVIOUS
<1>4. PICK q : q = [req EXCEPT !.pc = "updateNew", !.writes = writes]
  OBVIOUS
<1>5. /\ req.pc = "updateOld"
      /\ ~Locked(req.from, r)
      /\ Continue(r, q)
      /\ UNCHANGED <<badges, records, present, contested, resynced>>
  BY <1>1, <1>2, <1>3, <1>4 DEF UpdateOld
<1>6. /\ req \in Request /\ Stage(req)
      /\ BlankIsFree(req.old) /\ (~resynced => Linked(req.old))
      /\ ~contested => Fresh(req)
  BY <1>1, SoundNow
<1>7. /\ req.from \in Badges /\ req.to \in Badges
      /\ req.moved = {} /\ DOMAIN req.writes = {}
  BY <1>5, <1>6 DEF Stage, Moving, Going
<1>8. row \in Badge /\ row.lost
  BY <1>2, <1>6, MarkLostType DEF Request
<1>9. writes \in Rows /\ DOMAIN writes = {req.from} /\ writes[req.from] = row
  <2>1. Wrote(writes, req.writes, req.from, row)
    BY <1>3, <1>6, <1>7, <1>8, WriteType
  <2>2. QED
    BY <1>7, <2>1 DEF Wrote
<1>10. /\ q \in Request
       /\ q.pc = "updateNew" /\ q.from = req.from /\ q.to = req.to /\ q.old = req.old
       /\ q.writes = writes /\ q.moved = {}
  BY <1>4, <1>6, <1>7, <1>9 DEF Request, PCs
<1>11. Stage(q)
  BY <1>2, <1>7, <1>9, <1>10 DEF Stage, Moving, Going
<1>12. ~contested => Fresh(q) /\ MovesOwn(q) /\ MovesAll(q)
  BY <1>5, <1>6, <1>10 DEF Fresh, MovesOwn, MovesAll, Going, Moving, Past
<1>13. Replacing(r)
  BY <1>1, <1>5 DEF Replacing
<1>14. Sound(r, q)
  BY <1>1, <1>5, <1>6, <1>8, <1>9, <1>10, <1>11, <1>12, <1>13 DEF Sound, Locked
<1>15. QED
  BY <1>5, <1>10, <1>14, Advance

LEMMA UpdateNewInv ==
    ASSUME BadgesAssumption, BadgesInv, NEW r \in Requests, UpdateNew(r)
    PROVE  BadgesInv'
<1>1. PICK req : req = requests[r]
  OBVIOUS
<1>2. PICK lost : lost = Current(r, req.to).lost
  OBVIOUS
<1>3. PICK row : row = [req.old EXCEPT !.lost = lost]
  OBVIOUS
<1>4. PICK writes : writes = Write(req, req.to, row)
  OBVIOUS
<1>5. PICK q : q = [req EXCEPT !.pc = "moveCheckOuts", !.writes = writes]
  OBVIOUS
<1>6. /\ req.pc = "updateNew"
      /\ ~Locked(req.to, r)
      /\ Continue(r, q)
      /\ UNCHANGED <<badges, records, present, contested, resynced>>
  BY <1>1, <1>2, <1>3, <1>4, <1>5 DEF UpdateNew
<1>7. /\ req \in Request /\ Stage(req)
      /\ BlankIsFree(req.old) /\ (~resynced => Linked(req.old))
      /\ ~contested => Fresh(req)
      /\ \A s \in Requests : s # r => DOMAIN req.writes \cap DOMAIN requests[s].writes = {}
      /\ \A b \in DOMAIN req.writes : badges[b].lost => req.writes[b].lost
  BY <1>1, SoundNow
<1>8. /\ req.from \in Badges /\ req.to \in Badges
      /\ req.moved = {} /\ DOMAIN req.writes = {req.from}
      /\ req.writes[req.from] = MarkLost(req.old)
  BY <1>6, <1>7 DEF Stage, Moving, Going
<1>9. lost \in BOOLEAN /\ (badges[req.to].lost => lost)
  <2>1. Current(r, req.to) \in Badge
    BY <1>8, CurrentType DEF BadgesInv
  <2>2. badges[req.to].lost => lost
    BY <1>1, <1>2, <1>7 DEF Current
  <2>3. QED
    BY <1>2, <2>1, <2>2 DEF Badge
<1>10. row \in Badge /\ row.lost = lost
  BY <1>3, <1>7, <1>9 DEF Request, Badge
<1>11. /\ writes \in Rows /\ DOMAIN writes = {req.from, req.to} /\ writes[req.to] = row
       /\ req.from # req.to => writes[req.from] = MarkLost(req.old)
  <2>1. Wrote(writes, req.writes, req.to, row)
    BY <1>4, <1>7, <1>8, <1>10, WriteType
  <2>2. QED
    BY <1>8, <2>1 DEF Wrote
<1>12. /\ q \in Request
       /\ q.pc = "moveCheckOuts" /\ q.from = req.from /\ q.to = req.to /\ q.old = req.old
       /\ q.writes = writes /\ q.moved = {}
  BY <1>5, <1>7, <1>8, <1>11 DEF Request, PCs
<1>13. Stage(q)
  <2>1. q.writes[q.to] = [q.old EXCEPT !.lost = q.writes[q.to].lost]
    BY <1>3, <1>10, <1>11, <1>12
  <2>2. QED
    BY <1>8, <1>11, <1>12, <2>1 DEF Stage, Moving, Going
<1>14. ~contested => Fresh(q) /\ MovesOwn(q) /\ MovesAll(q)
  BY <1>6, <1>7, <1>12 DEF Fresh, MovesOwn, MovesAll, Going, Moving, Past
<1>15. Replacing(r)
  BY <1>1, <1>6 DEF Replacing
<1>16. \A b \in DOMAIN writes : badges[b].lost => writes[b].lost
  BY <1>7, <1>8, <1>9, <1>10, <1>11, MarkLostType DEF Request
<1>17. Sound(r, q)
  BY <1>1, <1>6, <1>7, <1>8, <1>11, <1>12, <1>13, <1>14, <1>15, <1>16 DEF Sound, Locked
<1>18. QED
  BY <1>6, <1>12, <1>17, Advance

LEMMA MoveInv ==
    ASSUME BadgesAssumption, BadgesInv, NEW r \in Requests,
           NEW pc \in Moving, NEW kind \in Kinds, NEW next \in Moving, Move(r, pc, kind, next),
           \A k \in Kinds : Past(next, k) => k = kind \/ Past(pc, k)
    PROVE  BadgesInv'
<1>1. PICK req : req = requests[r]
  OBVIOUS
<1>2. PICK own : own = {i \in DOMAIN records : records[i].kind = kind /\ records[i].badge = req.from}
  OBVIOUS
<1>3. PICK moved : moved = req.moved \cup own
  OBVIOUS
<1>4. PICK q : q = [req EXCEPT !.pc = next, !.moved = moved]
  OBVIOUS
<1>5. /\ req.pc = pc
      /\ Continue(r, q)
      /\ UNCHANGED <<badges, records, present, contested, resynced>>
  BY <1>1, <1>2, <1>3, <1>4 DEF Move
<1>6. /\ req \in Request /\ Stage(req) /\ req.moved \subseteq DOMAIN records
      /\ BlankIsFree(req.old) /\ (~resynced => Linked(req.old))
      /\ ~contested => Fresh(req) /\ MovesOwn(req) /\ MovesAll(req)
      /\ \A s \in Requests : s # r => DOMAIN req.writes \cap DOMAIN requests[s].writes = {}
      /\ \A b \in DOMAIN req.writes : badges[b].lost => req.writes[b].lost
  BY <1>1, SoundNow
<1>7. moved \subseteq DOMAIN records /\ DOMAIN records \subseteq Nat /\ next \in PCs
  BY <1>2, <1>3, <1>6, LenProperties DEF BadgesInv, Types, Moving, PCs
<1>8. /\ q \in Request
      /\ q.pc = next /\ q.from = req.from /\ q.to = req.to /\ q.old = req.old
      /\ q.writes = req.writes /\ q.moved = moved
  BY <1>4, <1>6, <1>7 DEF Request
<1>9. Stage(q)
  BY <1>5, <1>6, <1>8 DEF Stage, Moving, Going
<1>10. ASSUME ~contested PROVE Fresh(q) /\ MovesOwn(q) /\ MovesAll(q)
  <2>1. Fresh(req) /\ MovesOwn(req) /\ MovesAll(req)
    BY <1>6, <1>10
  <2>2. Fresh(q)
    BY <1>5, <1>8, <2>1 DEF Fresh, Going
  <2>3. MovesOwn(q)
    BY <1>2, <1>3, <1>8, <2>1 DEF MovesOwn
  <2>4. \A i \in DOMAIN records : records[i].kind \in Kinds
    BY RecordTypes DEF BadgesInv, Record
  <2>5. MovesAll(q)
    BY <1>2, <1>3, <1>5, <1>8, <2>1, <2>4 DEF MovesAll
  <2>6. QED
    BY <2>2, <2>3, <2>5
<1>11. Replacing(r) /\ next \notin {"idle", "insert"}
  BY <1>1, <1>5 DEF Replacing, Moving
<1>12. Sound(r, q)
  BY <1>1, <1>6, <1>7, <1>8, <1>9, <1>10, <1>11 DEF Sound
<1>13. QED
  BY <1>5, <1>8, <1>12, Advance

LEMMA MovesInv ==
    ASSUME BadgesAssumption, BadgesInv, NEW r \in Requests,
           MoveCheckOuts(r) \/ MoveCopies(r) \/ MovePlayers(r)
    PROVE  BadgesInv'
<1>1. CASE MoveCheckOuts(r)
  <2>1. \A k \in Kinds : Past("moveCopies", k) => k = "checkOut" \/ Past("moveCheckOuts", k)
    BY DEF Past
  <2>2. QED
    BY <1>1, <2>1, MoveInv DEF MoveCheckOuts, Moving, Kinds
<1>2. CASE MoveCopies(r)
  <2>1. \A k \in Kinds : Past("movePlayers", k) => k = "copy" \/ Past("moveCopies", k)
    BY DEF Past
  <2>2. QED
    BY <1>2, <2>1, MoveInv DEF MoveCopies, Moving, Kinds
<1>3. CASE MovePlayers(r)
  <2>1. \A k \in Kinds : Past("commit", k) => k = "player" \/ Past("movePlayers", k)
    BY DEF Past
  <2>2. QED
    BY <1>3, <2>1, MoveInv DEF MovePlayers, Moving, Kinds
<1>4. QED
  BY <1>1, <1>2, <1>3

LEMMA ReadAttendeeInv ==
    ASSUME BadgesAssumption, BadgesInv, NEW r \in Requests, ReadAttendee(r)
    PROVE  BadgesInv'
<1>1. PICK b \in Badges :
        /\ requests[r] = Idle
        /\ Continue(r, [Idle EXCEPT !.pc = "insert", !.from = b, !.old = badges[b],
                          !.raced = \E s \in Requests : Replacing(s) /\ requests[s].from = b])
        /\ UNCHANGED <<badges, records, present, contested, resynced>>
  BY DEF ReadAttendee
<1>2. PICK raced \in BOOLEAN : raced <=> \E s \in Requests : Replacing(s) /\ requests[s].from = b
  OBVIOUS
<1>3. raced = (\E s \in Requests : Replacing(s) /\ requests[s].from = b)
  BY <1>2, Zenon
<1>4. PICK q : q = [Idle EXCEPT !.pc = "insert", !.from = b, !.old = badges[b], !.raced = raced]
  OBVIOUS
<1>5. Continue(r, q)
  BY <1>1, <1>3, <1>4, Zenon
<1>6. badges[b] \in Badge /\ BlankIsFree(badges[b]) /\ (~resynced => Linked(badges[b]))
  BY DEF BadgesInv, Types, BlanksAreFree, AccountsLinked
<1>7. /\ q \in Request
      /\ q.pc = "insert" /\ q.from = b /\ q.old = badges[b] /\ q.raced = raced
      /\ DOMAIN q.writes = {} /\ q.moved = {}
  BY <1>4, <1>6, BadgeTypes DEF Request, PCs
<1>8. Stage(q)
  BY <1>7 DEF Stage, Moving, Going
<1>9. Fresh(q) /\ MovesOwn(q) /\ MovesAll(q)
  BY <1>7 DEF Fresh, MovesOwn, MovesAll, Going, Moving, Past
<1>10. Sound(r, q)
  BY <1>2, <1>6, <1>7, <1>8, <1>9 DEF Sound
<1>11. QED
  BY <1>1, <1>5, <1>7, <1>10, Advance

-----------------------------------------------------------------------------
(* Steps that change the tables, or more handlers than one. *)

\* A handler that has been told that a replacement overlaps its record.
Told(q, before) ==
    /\ q \in Request
    /\ q.pc = before.pc /\ q.from = before.from /\ q.to = before.to /\ q.old = before.old
    /\ q.writes = before.writes /\ q.moved = before.moved
    /\ before.raced => q.raced

LEMMA TellTold ==
    ASSUME NEW before \in Request, NEW told,
           NEW q, q = [before EXCEPT !.raced = @ \/ told]
    PROVE  Told(q, before) /\ (told => q.raced)
<1>1. PICK raced \in BOOLEAN : raced <=> before.raced \/ told
  OBVIOUS
<1>2. before.raced \in BOOLEAN
  BY DEF Request
<1>3. (before.raced \/ told) = raced
  BY <1>1, Zenon
<1>4. q = [before EXCEPT !.raced = raced]
  BY <1>3, Zenon
<1>5. QED
  BY <1>1, <1>2, <1>4 DEF Told, Request

LEMMA ToldStage ==
    ASSUME NEW before \in Request, NEW q, Told(q, before), Stage(before)
    PROVE  Stage(q)
  BY DEF Told, Stage

LEMMA Contested ==
    ASSUME NEW bs, Contest(bs), contested \in BOOLEAN
    PROVE  /\ contested' \in BOOLEAN
           /\ ~contested' => /\ ~contested
                             /\ \A s \in Requests : Replacing(s) => Involved(s) \cap bs = {}
<1>1. contested' = (contested \/ \E s \in Requests : Replacing(s) /\ Involved(s) \cap bs # {})
  BY DEF Contest
<1>2. PICK overlap \in BOOLEAN :
        overlap <=> (contested \/ \E s \in Requests : Replacing(s) /\ Involved(s) \cap bs # {})
  OBVIOUS
<1>3. contested' = overlap
  BY <1>1, <1>2, Zenon
<1>4. QED
  BY <1>2, <1>3

LEMMA ReceiveReplaceInv ==
    ASSUME BadgesAssumption, BadgesInv, NEW r \in Requests, ReceiveReplace(r)
    PROVE  BadgesInv'
<1>1. PICK from \in Badges \cup {NoOne}, to \in Badges \cup {NoOne} :
        /\ requests[r] = Idle
        /\ requests' =
            [s \in Requests |->
                IF s = r THEN [Idle EXCEPT !.pc = "readOld", !.from = from, !.to = to]
                ELSE [requests[s] EXCEPT !.raced =
                        @ \/ (requests[s].pc = "insert" /\ requests[s].from = from)]]
        /\ Contest({from, to} \ {NoOne})
        /\ UNCHANGED <<badges, records, present, resynced>>
  BY DEF ReceiveReplace
<1>2. PICK q : q = [Idle EXCEPT !.pc = "readOld", !.from = from, !.to = to]
  OBVIOUS
<1>3. /\ q \in Request /\ q.pc = "readOld" /\ q.from = from /\ q.to = to
      /\ q.old = NoBadge /\ DOMAIN q.writes = {} /\ q.moved = {}
  <2>1. from \in Badges \cup {NoOne} /\ to \in Badges \cup {NoOne}
    BY <1>1
  <2>2. QED
    BY <1>2, <2>1, BadgeTypes DEF Request, PCs
<1>4. DOMAIN requests' = Requests /\ requests'[r] = q
  BY <1>1, <1>2
<1>5. ASSUME NEW s \in Requests, s # r
      PROVE  /\ Told(requests'[s], requests[s]) /\ Stage(requests'[s])
             /\ requests[s].pc = "insert" /\ requests[s].from = from => requests'[s].raced
  <2>1. PICK told : told = (requests[s].pc = "insert" /\ requests[s].from = from)
    OBVIOUS
  <2>2. requests'[s] = [requests[s] EXCEPT !.raced = @ \/ told]
    <3>1. requests'[s] = [requests[s] EXCEPT !.raced =
                            @ \/ (requests[s].pc = "insert" /\ requests[s].from = from)]
      BY <1>1, <1>5, Zenon
    <3>2. QED
      BY <2>1, <3>1, Zenon
  <2>3. requests[s] \in Request /\ Stage(requests[s])
    BY <1>5, SoundNow
  <2>4. Told(requests'[s], requests[s]) /\ (told => requests'[s].raced)
    BY <2>2, <2>3, TellTold
  <2>5. QED
    BY <2>1, <2>3, <2>4, ToldStage
<1>6. \A s \in Requests : s # r =>
        /\ requests'[s] \in Request
        /\ requests'[s].pc = requests[s].pc /\ requests'[s].from = requests[s].from
        /\ requests'[s].to = requests[s].to /\ requests'[s].old = requests[s].old
        /\ requests'[s].writes = requests[s].writes /\ requests'[s].moved = requests[s].moved
        /\ requests[s].raced => requests'[s].raced
  BY <1>5 DEF Told
<1>7. requests' \in [Requests -> Request]
  <2>1. requests' = [s \in Requests |-> requests'[s]]
    BY <1>1
  <2>2. QED
    BY <1>3, <1>4, <1>6, <2>1
<1>8. /\ contested' \in BOOLEAN
      /\ ~contested' =>
            /\ ~contested
            /\ \A s \in Requests : Replacing(s) => Involved(s) \cap ({from, to} \ {NoOne}) = {}
  BY <1>1, Contested DEF BadgesInv, Types
<1>9. Types'
  BY <1>1, <1>3, <1>4, <1>6, <1>7, <1>8 DEF BadgesInv, Types
<1>10. \A s \in Requests : Stage(requests'[s])
  <2>1. Stage(q)
    BY <1>3 DEF Stage, Moving, Going
  <2>2. QED
    BY <1>4, <1>5, <2>1
<1>11. LocksExclude'
  BY <1>3, <1>4, <1>6 DEF BadgesInv, LocksExclude
<1>12. LostKept'
  BY <1>1, <1>3, <1>4, <1>6 DEF BadgesInv, LostKept
<1>13. BlanksAreFree'
  BY <1>1, <1>3, <1>4, <1>6, BadgeTypes DEF BadgesInv, BlanksAreFree
<1>14. AccountsLinked'
  BY <1>1, <1>3, <1>4, <1>6, BadgeTypes DEF BadgesInv, AccountsLinked
<1>15. OverlapsMarked'
  <2>1. ASSUME NEW s \in Requests, NEW t \in Requests, Replacing(s)', requests'[t].pc = "insert",
               requests'[t].from = requests'[s].from
        PROVE  requests'[t].raced
    <3>1. t # r /\ requests[t].pc = "insert" /\ requests[t].from = requests'[t].from
      BY <1>3, <1>4, <1>6, <2>1
    <3>2. CASE s = r
      BY <1>3, <1>4, <1>5, <2>1, <3>1, <3>2
    <3>3. CASE s # r
      BY <1>6, <2>1, <3>1, <3>3 DEF BadgesInv, OverlapsMarked, Replacing
    <3>4. QED
      BY <3>2, <3>3
  <2>2. QED
    BY <2>1 DEF OverlapsMarked
<1>16. Uncontested'
  <2>1. SUFFICES ASSUME ~contested' PROVE Separate' /\ \A s \in Requests :
            Fresh(requests[s])' /\ MovesOwn(requests[s])' /\ MovesAll(requests[s])'
    BY DEF Uncontested
  <2>2. Separate'
    <3>1. Separate
      BY <1>8, <2>1 DEF BadgesInv, Uncontested
    <3>2. \A s \in Requests : s # r =>
            /\ Replacing(s)' <=> Replacing(s)
            /\ Involved(s)' = Involved(s)
      BY <1>6 DEF Replacing, Involved
    <3>3. Involved(r)' = {from, to}
      BY <1>3, <1>4 DEF Involved
    <3>4. \A s \in Requests : Replacing(s) => Involved(s) \cap ({from, to} \ {NoOne}) = {}
      BY <1>8, <2>1
    <3>5. QED
      BY <3>1, <3>2, <3>3, <3>4 DEF Separate
  <2>3. ASSUME NEW s \in Requests, s # r
        PROVE  Fresh(requests[s])' /\ MovesOwn(requests[s])' /\ MovesAll(requests[s])'
    <3>1. Fresh(requests[s]) /\ MovesOwn(requests[s]) /\ MovesAll(requests[s])
      BY <1>8, <2>1, <2>3 DEF BadgesInv, Uncontested
    <3>2. QED
      BY <1>1, <1>6, <2>3, <3>1 DEF Fresh, MovesOwn, MovesAll
  <2>4. Fresh(requests[r])' /\ MovesOwn(requests[r])' /\ MovesAll(requests[r])'
    BY <1>3, <1>4 DEF Fresh, MovesOwn, MovesAll, Going, Moving, Past
  <2>5. QED
    BY <2>2, <2>3, <2>4
<1>17. QED
  BY <1>9, <1>10, <1>11, <1>12, <1>13, <1>14, <1>15, <1>16 DEF BadgesInv

\* The records of a badge, named again: every other column stays.
Renamed(table, before) ==
    /\ table \in Seq(Record)
    /\ DOMAIN table = DOMAIN before
    /\ \A i \in DOMAIN before : /\ table[i].kind = before[i].kind
                                /\ table[i].badge = before[i].badge
                                /\ table[i].raced = before[i].raced

LEMMA RenameRecords ==
    ASSUME Types, NEW b, NEW name \in Name, NEW table,
           table = [i \in DOMAIN records |->
                      IF records[i].badge = b THEN [records[i] EXCEPT !.of = name] ELSE records[i]]
    PROVE  Renamed(table, records)
<1>1. \A i \in DOMAIN records :
        /\ table[i] \in Record
        /\ table[i].kind = records[i].kind
        /\ table[i].badge = records[i].badge
        /\ table[i].raced = records[i].raced
  <2>1. SUFFICES ASSUME NEW i \in DOMAIN records
                 PROVE  /\ table[i] \in Record
                        /\ table[i].kind = records[i].kind
                        /\ table[i].badge = records[i].badge
                        /\ table[i].raced = records[i].raced
    OBVIOUS
  <2>2. records[i] \in Record
    BY RecordTypes
  <2>3. PICK row : row = [records[i] EXCEPT !.of = name]
    OBVIOUS
  <2>4. /\ row \in Record /\ row.kind = records[i].kind /\ row.badge = records[i].badge
        /\ row.raced = records[i].raced
    BY <2>2, <2>3 DEF Record
  <2>5. table[i] = row \/ table[i] = records[i]
    BY <2>3
  <2>6. QED
    BY <2>2, <2>4, <2>5
<1>2. table = [i \in 1 .. Len(records) |-> table[i]] /\ Len(records) \in Nat
  BY RecordTypes
<1>3. table \in Seq(Record)
  <2>1. \A i \in 1 .. Len(records) : table[i] \in Record
    BY <1>1, RecordTypes
  <2>2. table \in [1 .. Len(records) -> Record]
    BY <1>2, <2>1
  <2>3. QED
    BY <1>2, <2>2
<1>4. QED
  BY <1>1, <1>3 DEF Renamed

LEMMA TransferInv ==
    ASSUME BadgesAssumption, BadgesInv, NEW r \in Requests, Transfer(r)
    PROVE  BadgesInv'
<1>1. PICK b, p, name :
        /\ b \in Badges /\ p \in People \ present
        /\ name = [who |-> p, marks |-> 0]
        /\ requests[r] = Idle
        /\ badges' = [badges EXCEPT ![b].name = name, ![b].email = p, ![b].user = NoOne]
        /\ records' = [i \in DOMAIN records |->
                IF records[i].badge = b THEN [records[i] EXCEPT !.of = name] ELSE records[i]]
        /\ present' = (present \ {badges[b].email}) \cup {p}
        /\ requests' = [s \in Requests |->
                [requests[s] EXCEPT !.raced =
                    @ \/ (requests[s].pc = "insert" /\ requests[s].from = b)]]
        /\ Contest({b})
        /\ UNCHANGED resynced
  BY DEF Transfer
<1>2. name \in Name /\ name.who = p /\ p # Blank
  BY <1>1 DEF Name, BadgesAssumption
<1>3. PICK row : row = [badges[b] EXCEPT !.name = name, !.email = p, !.user = NoOne]
  OBVIOUS
<1>4. badges' = [badges EXCEPT ![b] = row]
  BY <1>1, <1>3
<1>5. /\ badges \in [Badges -> Badge] /\ requests \in [Requests -> Request]
      /\ \A s \in Requests : requests[s].moved \subseteq DOMAIN records
  BY DEF BadgesInv, Types
<1>6. /\ row \in Badge /\ row.name = name /\ row.email = p /\ row.user = NoOne
      /\ row.lost = badges[b].lost
  <2>1. badges[b] \in Badge /\ p \in People
    BY <1>1, <1>5
  <2>2. QED
    BY <1>2, <1>3, <2>1 DEF Badge
<1>7. /\ badges' \in [Badges -> Badge] /\ badges'[b] = row
      /\ \A c \in Badges : c # b => badges'[c] = badges[c]
      /\ \A c \in Badges : badges'[c].lost = badges[c].lost
  <2>1. b \in Badges
    BY <1>1
  <2>2. QED
    BY <2>1, <1>4, <1>5, <1>6
<1>8. /\ records' \in Seq(Record) /\ DOMAIN records' = DOMAIN records
      /\ \A i \in DOMAIN records : /\ records'[i].kind = records[i].kind
                                   /\ records'[i].badge = records[i].badge
                                   /\ records'[i].raced = records[i].raced
  <2>1. Renamed(records', records)
    BY <1>1, <1>2, RenameRecords DEF BadgesInv
  <2>2. QED
    BY <2>1 DEF Renamed
<1>9. ASSUME NEW s \in Requests
      PROVE  Told(requests'[s], requests[s]) /\ Stage(requests'[s])
  <2>1. PICK told : told = (requests[s].pc = "insert" /\ requests[s].from = b)
    OBVIOUS
  <2>2. requests'[s] = [requests[s] EXCEPT !.raced = @ \/ told]
    <3>1. requests'[s] = [requests[s] EXCEPT !.raced =
                            @ \/ (requests[s].pc = "insert" /\ requests[s].from = b)]
      BY <1>1, <1>9, Zenon
    <3>2. QED
      BY <2>1, <3>1, Zenon
  <2>3. requests[s] \in Request /\ Stage(requests[s])
    BY <1>9, SoundNow
  <2>4. Told(requests'[s], requests[s])
    BY <2>2, <2>3, TellTold
  <2>5. QED
    BY <2>3, <2>4, ToldStage
<1>10. \A s \in Requests :
        /\ requests'[s] \in Request
        /\ requests'[s].pc = requests[s].pc /\ requests'[s].from = requests[s].from
        /\ requests'[s].to = requests[s].to /\ requests'[s].old = requests[s].old
        /\ requests'[s].writes = requests[s].writes /\ requests'[s].moved = requests[s].moved
        /\ requests[s].raced => requests'[s].raced
  BY <1>9 DEF Told
<1>11. requests' \in [Requests -> Request]
  <2>1. requests' = [s \in Requests |-> requests'[s]]
    BY <1>1
  <2>2. QED
    BY <1>10, <2>1
<1>12. /\ contested' \in BOOLEAN
       /\ ~contested' => /\ ~contested
                         /\ \A s \in Requests : Replacing(s) => Involved(s) \cap {b} = {}
  BY <1>1, Contested DEF BadgesInv, Types
<1>13. Types'
  <2>1. present' \subseteq People
    BY <1>1 DEF BadgesInv, Types
  <2>2. resynced' \in BOOLEAN
    BY <1>1 DEF BadgesInv, Types
  <2>3. QED
    BY <1>5, <1>7, <1>8, <1>10, <1>11, <1>12, <2>1, <2>2 DEF Types
<1>14. \A s \in Requests : Stage(requests'[s])
  BY <1>9
<1>15. LocksExclude'
  BY <1>10 DEF BadgesInv, LocksExclude
<1>16. LostKept'
  <2>1. \A s \in Requests : DOMAIN requests[s].writes \subseteq Badges
    BY <1>5 DEF Request, Rows
  <2>2. QED
    BY <1>7, <1>10, <2>1 DEF BadgesInv, LostKept
<1>17. BlanksAreFree'
  <2>1. BlankIsFree(row)
    BY <1>2, <1>6 DEF BlankIsFree
  <2>2. QED
    BY <1>7, <1>10, <2>1 DEF BadgesInv, BlanksAreFree
<1>18. AccountsLinked'
  <2>1. Linked(row)
    BY <1>6 DEF Linked
  <2>2. QED
    BY <1>1, <1>7, <1>10, <2>1 DEF BadgesInv, AccountsLinked
<1>19. OverlapsMarked'
  BY <1>10 DEF BadgesInv, OverlapsMarked, Replacing
<1>20. Uncontested'
  <2>1. SUFFICES ASSUME ~contested' PROVE Separate' /\ \A s \in Requests :
            Fresh(requests[s])' /\ MovesOwn(requests[s])' /\ MovesAll(requests[s])'
    BY DEF Uncontested
  <2>2. Separate'
    BY <1>10, <1>12, <2>1 DEF BadgesInv, Uncontested, Separate, Replacing, Involved
  <2>3. ASSUME NEW s \in Requests
        PROVE  Fresh(requests[s])' /\ MovesOwn(requests[s])' /\ MovesAll(requests[s])'
    <3>1. /\ Fresh(requests[s]) /\ MovesOwn(requests[s]) /\ MovesAll(requests[s])
          /\ Stage(requests[s])
      BY <1>12, <2>1, <2>3 DEF BadgesInv, Uncontested
    <3>2. requests[s].pc \in Going \cup {"readNew"} => requests[s].from # b /\ requests[s].to # b
      BY <1>12, <2>1, <2>3 DEF Replacing, Involved, Going, Moving
    <3>3. Fresh(requests[s])'
      BY <1>7, <1>10, <2>3, <3>1, <3>2 DEF Fresh, Stage
    <3>4. MovesOwn(requests[s])' /\ MovesAll(requests[s])'
      BY <1>5, <1>8, <1>10, <2>3, <3>1 DEF MovesOwn, MovesAll
    <3>5. QED
      BY <3>3, <3>4
  <2>4. QED
    BY <2>2, <2>3
<1>21. QED
  BY <1>13, <1>14, <1>15, <1>16, <1>17, <1>18, <1>19, <1>20 DEF BadgesInv

LEMMA SyncInv ==
    ASSUME BadgesAssumption, BadgesInv, NEW b \in Badges, Sync(b)
    PROVE  BadgesInv'
<1>1. /\ badges' = [badges EXCEPT ![b].name = Registered(b).name, ![b].email = Registered(b).email]
      /\ resynced' = (resynced \/ badges' # badges)
      /\ Contest({b})
      /\ UNCHANGED <<records, requests, present>>
  BY DEF Sync
<1>2. /\ Registered(b) \in Badge /\ BlankIsFree(Registered(b))
  BY RegisteredType
<1>3. PICK row : row = [badges[b] EXCEPT !.name = Registered(b).name, !.email = Registered(b).email]
  OBVIOUS
<1>4. badges' = [badges EXCEPT ![b] = row]
  BY <1>1, <1>3
<1>5. badges \in [Badges -> Badge] /\ requests \in [Requests -> Request]
  BY DEF BadgesInv, Types
<1>6. /\ row \in Badge /\ row.lost = badges[b].lost
      /\ row.name = Registered(b).name /\ row.email = Registered(b).email
  BY <1>2, <1>3, <1>5 DEF Badge
<1>7. /\ badges' \in [Badges -> Badge] /\ badges'[b] = row
      /\ \A c \in Badges : c # b => badges'[c] = badges[c]
      /\ \A c \in Badges : badges'[c].lost = badges[c].lost
  BY <1>4, <1>5, <1>6
<1>8. resynced' \in BOOLEAN /\ (~resynced' => ~resynced /\ badges' = badges)
  <2>1. PICK changed \in BOOLEAN : changed <=> (resynced \/ badges' # badges)
    OBVIOUS
  <2>2. resynced' = changed
    BY <1>1, <2>1, Zenon
  <2>3. QED
    BY <2>1, <2>2
<1>9. /\ contested' \in BOOLEAN
      /\ ~contested' => /\ ~contested
                        /\ \A s \in Requests : Replacing(s) => Involved(s) \cap {b} = {}
  BY <1>1, Contested DEF BadgesInv, Types
<1>10. Types'
  BY <1>1, <1>7, <1>8, <1>9 DEF BadgesInv, Types
<1>11. \A s \in Requests : Stage(requests'[s])
  BY <1>1 DEF BadgesInv
<1>12. LocksExclude' /\ OverlapsMarked'
  BY <1>1 DEF BadgesInv, LocksExclude, OverlapsMarked, Replacing
<1>13. LostKept'
  <2>1. \A s \in Requests : DOMAIN requests[s].writes \subseteq Badges
    BY <1>5 DEF Request, Rows
  <2>2. QED
    BY <1>1, <1>7, <2>1 DEF BadgesInv, LostKept
<1>14. BlanksAreFree'
  <2>1. BlankIsFree(row)
    BY <1>2, <1>6 DEF BlankIsFree
  <2>2. QED
    BY <1>1, <1>7, <2>1 DEF BadgesInv, BlanksAreFree
<1>15. AccountsLinked'
  BY <1>1, <1>8 DEF BadgesInv, AccountsLinked
<1>16. Uncontested'
  <2>1. SUFFICES ASSUME ~contested' PROVE Separate' /\ \A s \in Requests :
            Fresh(requests[s])' /\ MovesOwn(requests[s])' /\ MovesAll(requests[s])'
    BY DEF Uncontested
  <2>2. Separate'
    BY <1>1, <1>9, <2>1 DEF BadgesInv, Uncontested, Separate, Replacing, Involved
  <2>3. ASSUME NEW s \in Requests
        PROVE  Fresh(requests[s])' /\ MovesOwn(requests[s])' /\ MovesAll(requests[s])'
    <3>1. /\ Fresh(requests[s]) /\ MovesOwn(requests[s]) /\ MovesAll(requests[s])
          /\ Stage(requests[s])
      BY <1>9, <2>1, <2>3 DEF BadgesInv, Uncontested
    <3>2. requests[s].pc \in Going \cup {"readNew"} => requests[s].from # b /\ requests[s].to # b
      BY <1>9, <2>1, <2>3 DEF Replacing, Involved, Going, Moving
    <3>3. Fresh(requests[s])'
      BY <1>1, <1>7, <2>3, <3>1, <3>2 DEF Fresh, Stage
    <3>4. MovesOwn(requests[s])' /\ MovesAll(requests[s])'
      BY <1>1, <2>3, <3>1 DEF MovesOwn, MovesAll
    <3>5. QED
      BY <3>3, <3>4
  <2>4. QED
    BY <2>2, <2>3
<1>17. QED
  BY <1>10, <1>11, <1>12, <1>13, <1>14, <1>15, <1>16 DEF BadgesInv

\* When a handler is done, the others keep what they hold.
LEMMA FinishHandler ==
    ASSUME BadgesAssumption, BadgesInv, NEW r \in Requests, Finish(r)
    PROVE  /\ requests' \in [Requests -> Request]
           /\ requests'[r] = Idle
           /\ \A s \in Requests : s # r => requests'[s] = requests[s]
           /\ \A s \in Requests : Stage(requests'[s])
           /\ LocksExclude'
           /\ OverlapsMarked'
           /\ Separate => Separate'
<1>1. /\ requests \in [Requests -> Request]
      /\ requests' = [requests EXCEPT ![r] = Idle]
      /\ Idle \in Request
  BY BadgeTypes DEF BadgesInv, Types, Finish, Continue
<1>2. /\ requests' \in [Requests -> Request]
      /\ requests'[r] = Idle
      /\ \A s \in Requests : s # r => requests'[s] = requests[s]
  BY <1>1
<1>3. \A s \in Requests : Stage(requests'[s])
  BY <1>2, BadgeTypes DEF BadgesInv
<1>4. LocksExclude'
  BY <1>2, BadgeTypes DEF BadgesInv, LocksExclude
<1>5. OverlapsMarked'
  BY <1>2, BadgeTypes DEF BadgesInv, OverlapsMarked, Replacing
<1>6. Separate => Separate'
  BY <1>2, BadgeTypes DEF Separate, Replacing, Involved
<1>7. QED
  BY <1>2, <1>3, <1>4, <1>5, <1>6

LEMMA InsertRecordInv ==
    ASSUME BadgesAssumption, BadgesInv, NEW r \in Requests, InsertRecord(r)
    PROVE  BadgesInv'
<1>1. PICK kind, req, row :
        /\ kind \in Kinds
        /\ req = requests[r]
        /\ row = [kind |-> kind, badge |-> req.from, of |-> req.old.name, raced |-> req.raced]
        /\ req.pc = "insert"
        /\ records' = Append(records, row)
        /\ Finish(r)
        /\ UNCHANGED <<badges, present, contested, resynced>>
  BY DEF InsertRecord, Kinds
<1>2. /\ requests' \in [Requests -> Request]
      /\ requests'[r] = Idle
      /\ \A s \in Requests : s # r => requests'[s] = requests[s]
      /\ \A s \in Requests : Stage(requests'[s])
      /\ LocksExclude'
      /\ OverlapsMarked'
      /\ Separate => Separate'
  BY <1>1, FinishHandler
<1>3. req \in Request /\ Stage(req)
  BY <1>1, SoundNow
<1>4. /\ row \in Record
      /\ row.kind = kind /\ row.badge = req.from /\ row.raced = req.raced
  <2>1. req.from \in Badges /\ req.old.name \in Name /\ req.raced \in BOOLEAN
    BY <1>1, <1>3 DEF Stage, Request, Badge
  <2>2. kind \in Kinds
    BY <1>1
  <2>3. QED
    BY <1>1, <2>1, <2>2 DEF Record
<1>5. /\ records' \in Seq(Record)
      /\ DOMAIN records' = 1 .. (Len(records) + 1) /\ Len(records) \in Nat
      /\ DOMAIN records = 1 .. Len(records)
      /\ \A i \in DOMAIN records : records'[i] = records[i]
      /\ records'[Len(records) + 1] = row
  BY <1>1, <1>4, AppendProperties, LenProperties, RecordTypes DEF BadgesInv, Types
<1>6. Types'
  <2>1. \A s \in Requests : requests'[s].moved \subseteq DOMAIN records'
    <3>1. requests'[r].moved \subseteq DOMAIN records'
      BY <1>2, BadgeTypes
    <3>2. ASSUME NEW s \in Requests, s # r PROVE requests'[s].moved \subseteq DOMAIN records'
      <4>1. requests'[s] = requests[s] /\ requests[s].moved \subseteq DOMAIN records
        BY <1>2, <3>2 DEF BadgesInv, Types
      <4>2. QED
        BY <1>5, <4>1
    <3>3. QED
      BY <3>1, <3>2
  <2>2. QED
    BY <1>1, <1>2, <1>5, <2>1 DEF BadgesInv, Types
<1>7. LostKept'
  BY <1>1, <1>2, BadgeTypes DEF BadgesInv, LostKept
<1>8. BlanksAreFree'
  BY <1>1, <1>2, BadgeTypes DEF BadgesInv, BlanksAreFree
<1>9. AccountsLinked'
  BY <1>1, <1>2, BadgeTypes DEF BadgesInv, AccountsLinked
<1>10. Uncontested'
  <2>1. SUFFICES ASSUME ~contested PROVE Separate' /\ \A s \in Requests :
            Fresh(requests[s])' /\ MovesOwn(requests[s])' /\ MovesAll(requests[s])'
    BY <1>1 DEF Uncontested
  <2>2. Separate'
    BY <1>2, <2>1 DEF BadgesInv, Uncontested
  <2>3. Fresh(requests[r])' /\ MovesOwn(requests[r])' /\ MovesAll(requests[r])'
    BY <1>2, BadgeTypes DEF Fresh, MovesOwn, MovesAll, Going, Moving, Past
  <2>4. ASSUME NEW s \in Requests, s # r
        PROVE  Fresh(requests[s])' /\ MovesOwn(requests[s])' /\ MovesAll(requests[s])'
    <3>1. /\ Fresh(requests[s]) /\ MovesOwn(requests[s]) /\ MovesAll(requests[s])
          /\ requests'[s] = requests[s]
          /\ requests[s].moved \subseteq DOMAIN records
      BY <1>2, <2>1, <2>4 DEF BadgesInv, Types, Uncontested
    <3>2. Fresh(requests[s])'
      BY <1>1, <3>1 DEF Fresh
    <3>3. MovesOwn(requests[s])'
      BY <1>5, <3>1 DEF MovesOwn
    <3>4. ASSUME row.badge = requests[s].from, Past(requests[s].pc, row.kind) PROVE row.raced
      <4>1. Replacing(s)
        BY <3>4 DEF Past, Replacing
      <4>2. requests[r].raced
        BY <1>1, <1>4, <2>4, <3>4, <4>1 DEF BadgesInv, OverlapsMarked
      <4>3. QED
        BY <1>1, <1>4, <4>2
    <3>5. MovesAll(requests[s])'
      <4>1. ASSUME NEW i \in DOMAIN records', records'[i].badge = requests[s].from,
                   Past(requests[s].pc, records'[i].kind), ~records'[i].raced
            PROVE  i \in requests[s].moved
        <5>1. CASE i \in DOMAIN records
          BY <1>5, <3>1, <4>1, <5>1 DEF MovesAll
        <5>2. CASE i = Len(records) + 1
          BY <1>5, <3>4, <4>1, <5>2
        <5>3. QED
          BY <1>5, <4>1, <5>1, <5>2
      <4>2. QED
        BY <3>1, <4>1 DEF MovesAll
    <3>6. QED
      BY <3>2, <3>3, <3>5
  <2>5. QED
    BY <2>2, <2>3, <2>4
<1>11. QED
  BY <1>2, <1>6, <1>7, <1>8, <1>9, <1>10 DEF BadgesInv

\* What a transaction commits.
Committed(r) ==
    LET req == requests[r] IN
    /\ req \in Request
    /\ req.from \in Badges /\ req.to \in Badges
    /\ DOMAIN req.writes = {req.from, req.to}
    /\ badges' \in [Badges -> Badge]
    /\ \A b \in Badges : badges'[b] = IF b \in {req.from, req.to} THEN req.writes[b] ELSE badges[b]
    /\ req.writes[req.to].name = req.old.name
    /\ req.writes[req.to].email = req.old.email
    /\ req.writes[req.to].user = req.old.user
    /\ req.from # req.to => req.writes[req.from] = MarkLost(req.old)

LEMMA CommitWrites ==
    ASSUME BadgesInv, NEW r \in Requests, Commit(r)
    PROVE  Committed(r)
<1>1. PICK req : req = requests[r]
  OBVIOUS
<1>2. req.pc = "commit" /\ badges' = [b \in Badges |-> Current(r, b)]
  BY <1>1 DEF Commit
<1>3. req \in Request /\ Stage(req)
  BY <1>1, SoundNow
<1>4. /\ req.from \in Badges /\ req.to \in Badges
      /\ DOMAIN req.writes = {req.from, req.to}
      /\ req.writes[req.to] = [req.old EXCEPT !.lost = req.writes[req.to].lost]
      /\ req.from # req.to => req.writes[req.from] = MarkLost(req.old)
  BY <1>2, <1>3 DEF Stage, Moving, Going
<1>5. /\ req.writes[req.to].name = req.old.name
      /\ req.writes[req.to].email = req.old.email
      /\ req.writes[req.to].user = req.old.user
  <2>1. req.old \in Badge
    BY <1>3 DEF Request
  <2>2. PICK lost : lost = req.writes[req.to].lost
    OBVIOUS
  <2>3. PICK row : row = req.writes[req.to]
    OBVIOUS
  <2>4. row = [req.old EXCEPT !.lost = lost]
    BY <1>4, <2>2, <2>3
  <2>5. row.name = req.old.name /\ row.email = req.old.email /\ row.user = req.old.user
    BY <2>1, <2>4 DEF Badge
  <2>6. QED
    BY <2>3, <2>5
<1>6. badges' \in [Badges -> Badge]
  BY <1>2, CurrentType DEF BadgesInv
<1>7. \A b \in Badges : badges'[b] = IF b \in {req.from, req.to} THEN req.writes[b] ELSE badges[b]
  BY <1>1, <1>2, <1>4 DEF Current
<1>8. QED
  BY <1>1, <1>3, <1>4, <1>5, <1>6, <1>7 DEF Committed

\* What happens to the records.
LEMMA CommitMoves ==
    ASSUME BadgesInv, NEW r \in Requests, Commit(r)
    PROVE  /\ records' \in Seq(Record)
           /\ DOMAIN records' = DOMAIN records
           /\ \A i \in DOMAIN records :
                /\ records'[i].kind = records[i].kind
                /\ records'[i].raced = records[i].raced
                /\ records'[i].badge =
                     IF i \in requests[r].moved THEN requests[r].to ELSE records[i].badge
<1>1. PICK req : req = requests[r]
  OBVIOUS
<1>2. records' = [i \in DOMAIN records |->
            IF i \in req.moved THEN [records[i] EXCEPT !.badge = req.to] ELSE records[i]]
  BY <1>1 DEF Commit
<1>3. req.to \in Badges
  BY <1>1, CommitWrites DEF Committed
<1>4. \A i \in DOMAIN records :
        /\ records'[i] \in Record
        /\ records'[i].kind = records[i].kind
        /\ records'[i].raced = records[i].raced
        /\ records'[i].badge = IF i \in req.moved THEN req.to ELSE records[i].badge
  <2>1. SUFFICES ASSUME NEW i \in DOMAIN records
                 PROVE  /\ records'[i] \in Record
                        /\ records'[i].kind = records[i].kind
                        /\ records'[i].raced = records[i].raced
                        /\ records'[i].badge = IF i \in req.moved THEN req.to ELSE records[i].badge
    OBVIOUS
  <2>2. records[i] \in Record
    BY RecordTypes DEF BadgesInv
  <2>3. PICK row : row = [records[i] EXCEPT !.badge = req.to]
    OBVIOUS
  <2>4. /\ row \in Record /\ row.kind = records[i].kind /\ row.badge = req.to
        /\ row.raced = records[i].raced
    BY <1>3, <2>2, <2>3 DEF Record
  <2>5. records'[i] = IF i \in req.moved THEN row ELSE records[i]
    BY <1>2, <2>3
  <2>6. QED
    BY <2>2, <2>4, <2>5
<1>5. records' \in Seq(Record) /\ DOMAIN records' = DOMAIN records
  <2>1. DOMAIN records = 1 .. Len(records) /\ Len(records) \in Nat
    BY RecordTypes DEF BadgesInv
  <2>2. records' = [i \in 1 .. Len(records) |-> records'[i]]
    BY <1>2, <2>1
  <2>3. \A i \in 1 .. Len(records) : records'[i] \in Record
    BY <1>4, <2>1
  <2>4. records' \in [1 .. Len(records) -> Record]
    BY <2>2, <2>3
  <2>5. QED
    BY <1>2, <2>1, <2>4
<1>6. QED
  BY <1>1, <1>4, <1>5

LEMMA CommitInv ==
    ASSUME BadgesAssumption, BadgesInv, NEW r \in Requests, Commit(r)
    PROVE  BadgesInv'
<1>1. PICK req : req = requests[r]
  OBVIOUS
<1>2. req.pc = "commit" /\ Finish(r) /\ UNCHANGED <<present, contested, resynced>>
  BY <1>1 DEF Commit
<1>3. /\ requests' \in [Requests -> Request]
      /\ requests'[r] = Idle
      /\ \A s \in Requests : s # r => requests'[s] = requests[s]
      /\ \A s \in Requests : Stage(requests'[s])
      /\ LocksExclude'
      /\ OverlapsMarked'
      /\ Separate => Separate'
  BY <1>2, FinishHandler
<1>4. /\ req \in Request
      /\ req.from \in Badges /\ req.to \in Badges
      /\ DOMAIN req.writes = {req.from, req.to}
      /\ badges' \in [Badges -> Badge]
      /\ \A b \in Badges : badges'[b] = IF b \in {req.from, req.to} THEN req.writes[b] ELSE badges[b]
      /\ req.writes[req.to].name = req.old.name
      /\ req.writes[req.to].email = req.old.email
      /\ req.writes[req.to].user = req.old.user
      /\ req.from # req.to => req.writes[req.from] = MarkLost(req.old)
  BY <1>1, CommitWrites DEF Committed
<1>5. /\ records' \in Seq(Record)
      /\ DOMAIN records' = DOMAIN records
      /\ \A i \in DOMAIN records :
            /\ records'[i].kind = records[i].kind
            /\ records'[i].raced = records[i].raced
            /\ records'[i].badge = IF i \in req.moved THEN req.to ELSE records[i].badge
  BY <1>1, CommitMoves
<1>6. /\ BlankIsFree(req.old) /\ (~resynced => Linked(req.old)) /\ req.old \in Badge
      /\ \A s \in Requests : s # r => DOMAIN req.writes \cap DOMAIN requests[s].writes = {}
  BY <1>1, <1>4, SoundNow DEF Request
<1>7. Types'
  BY <1>2, <1>3, <1>4, <1>5, BadgeTypes DEF BadgesInv, Types
<1>8. LostKept'
  <2>1. \A s \in Requests : DOMAIN requests[s].writes \subseteq Badges
    BY DEF BadgesInv, Types, Request, Rows
  <2>2. QED
    BY <1>3, <1>4, <1>6, <2>1, BadgeTypes DEF BadgesInv, LostKept
<1>9. /\ BlankIsFree(req.writes[req.to]) /\ (~resynced => Linked(req.writes[req.to]))
      /\ BlankIsFree(req.writes[req.from]) /\ (~resynced => Linked(req.writes[req.from]))
  <2>1. BlankIsFree(req.writes[req.to]) /\ (~resynced => Linked(req.writes[req.to]))
    BY <1>4, <1>6 DEF BlankIsFree, Linked
  <2>2. CASE req.from = req.to
    BY <2>1, <2>2
  <2>3. CASE req.from # req.to
    <3>1. BlankIsFree(MarkLost(req.old)) /\ Linked(MarkLost(req.old))
      BY <1>6, MarkLostType
    <3>2. req.writes[req.from] = MarkLost(req.old)
      BY <1>4, <2>3
    <3>3. QED
      BY <2>1, <3>1, <3>2
  <2>4. QED
    BY <2>1, <2>2, <2>3
<1>10. BlanksAreFree'
  BY <1>3, <1>4, <1>9, BadgeTypes DEF BadgesInv, BlanksAreFree
<1>11. AccountsLinked'
  BY <1>2, <1>3, <1>4, <1>9, BadgeTypes DEF BadgesInv, AccountsLinked
<1>12. Uncontested'
  <2>1. SUFFICES ASSUME ~contested PROVE Separate' /\ \A s \in Requests :
            Fresh(requests[s])' /\ MovesOwn(requests[s])' /\ MovesAll(requests[s])'
    BY <1>2 DEF Uncontested
  <2>2. Separate /\ MovesOwn(req)
    BY <1>1, <2>1 DEF BadgesInv, Uncontested
  <2>3. Fresh(requests[r])' /\ MovesOwn(requests[r])' /\ MovesAll(requests[r])'
    BY <1>3, BadgeTypes DEF Fresh, MovesOwn, MovesAll, Going, Moving, Past
  <2>4. ASSUME NEW s \in Requests, s # r
        PROVE  Fresh(requests[s])' /\ MovesOwn(requests[s])' /\ MovesAll(requests[s])'
    <3>1. /\ Fresh(requests[s]) /\ MovesOwn(requests[s]) /\ MovesAll(requests[s])
          /\ Stage(requests[s])
          /\ requests'[s] = requests[s]
          /\ requests[s].moved \subseteq DOMAIN records
      BY <1>3, <2>1, <2>4 DEF BadgesInv, Types, Uncontested
    <3>2. ASSUME Replacing(s)
          PROVE  /\ requests[s].from \notin {req.from, req.to}
                 /\ requests[s].to \notin {req.from, req.to}
      <4>1. Replacing(r)
        BY <1>1, <1>2 DEF Replacing
      <4>2. Involved(r) \cap Involved(s) \subseteq {NoOne}
        BY <2>2, <2>4, <3>2, <4>1 DEF Separate
      <4>3. {req.from, req.to} \cap {requests[s].from, requests[s].to} \subseteq {NoOne}
        BY <1>1, <4>2 DEF Involved
      <4>4. req.from # NoOne /\ req.to # NoOne
        BY <1>4 DEF BadgesAssumption
      <4>5. QED
        BY <4>3, <4>4
    <3>3. Fresh(requests[s])'
      <4>1. requests[s].pc \in Going \cup {"readNew"} => Replacing(s)
        BY DEF Replacing, Going, Moving
      <4>2. QED
        BY <1>4, <3>1, <3>2, <4>1 DEF Fresh, Stage
    <3>4. MovesOwn(requests[s])'
      <4>1. CASE requests[s].moved = {}
        BY <3>1, <4>1 DEF MovesOwn
      <4>2. CASE requests[s].moved # {}
        <5>1. Replacing(s)
          BY <3>1, <4>2 DEF Stage, Moving, Replacing
        <5>2. QED
          BY <1>5, <2>2, <3>1, <3>2, <5>1 DEF MovesOwn
      <4>3. QED
        BY <4>1, <4>2
    <3>5. MovesAll(requests[s])'
      <4>1. ASSUME NEW i \in DOMAIN records, records'[i].badge = requests[s].from,
                   Past(requests[s].pc, records'[i].kind), ~records'[i].raced
            PROVE  i \in requests[s].moved
        <5>1. Replacing(s)
          BY <4>1 DEF Past, Replacing
        <5>2. records[i].badge = requests[s].from
          BY <1>5, <3>2, <4>1, <5>1
        <5>3. QED
          BY <1>5, <3>1, <4>1, <5>2 DEF MovesAll
      <4>2. QED
        BY <1>5, <3>1, <4>1 DEF MovesAll
    <3>6. QED
      BY <3>3, <3>4, <3>5
  <2>5. QED
    BY <2>2, <1>3, <2>3, <2>4
<1>13. QED
  BY <1>3, <1>7, <1>8, <1>10, <1>11, <1>12 DEF BadgesInv

-----------------------------------------------------------------------------
(* The invariant holds. *)

LEMMA FirstBadge ==
    ASSUME BadgesAssumption, NEW b \in Badges, NEW row,
           row = [Registered(b) EXCEPT !.user = Registered(b).email]
    PROVE  /\ row \in Badge /\ BlankIsFree(row) /\ Linked(row)
           /\ row.name = Registered(b).name /\ row.email = Registered(b).email
<1>1. Registered(b) \in Badge /\ BlankIsFree(Registered(b))
  BY RegisteredType
<1>2. /\ row \in Badge
      /\ row.name = Registered(b).name /\ row.email = Registered(b).email
      /\ row.user = Registered(b).email
  BY <1>1 DEF Badge
<1>3. QED
  BY <1>1, <1>2 DEF BlankIsFree, Linked

LEMMA InitBadges ==
    ASSUME BadgesAssumption, Init
    PROVE  /\ badges \in [Badges -> Badge]
           /\ \A b \in Badges : /\ BlankIsFree(badges[b]) /\ Linked(badges[b])
                                /\ badges[b].name = Registered(b).name
                                /\ badges[b].email = Registered(b).email
<1>1. badges = [b \in Badges |-> [Registered(b) EXCEPT !.user = Registered(b).email]]
  BY DEF Init
<1>2. ASSUME NEW b \in Badges
      PROVE  /\ badges[b] \in Badge /\ BlankIsFree(badges[b]) /\ Linked(badges[b])
             /\ badges[b].name = Registered(b).name /\ badges[b].email = Registered(b).email
  <2>1. badges[b] = [Registered(b) EXCEPT !.user = Registered(b).email]
    BY <1>1, <1>2
  <2>2. QED
    BY <1>2, <2>1, FirstBadge
<1>3. badges = [b \in Badges |-> badges[b]]
  BY <1>1
<1>4. QED
  BY <1>2, <1>3

LEMMA InitRecords ==
    ASSUME BadgesAssumption, Init
    PROVE  records \in Seq(Record)
<1>1. records = [i \in DOMAIN Winners |->
            [kind |-> "copy", badge |-> Winners[i], of |-> Registered(Winners[i]).name,
             raced |-> FALSE]]
  BY DEF Init
<1>2. DOMAIN Winners = 1 .. Len(Winners) /\ Len(Winners) \in Nat
  BY LenProperties DEF BadgesAssumption
<1>3. ASSUME NEW i \in DOMAIN Winners PROVE records[i] \in Record
  <2>1. PICK b \in Badges : b = Winners[i]
    BY <1>2, <1>3, ElementOfSeq DEF BadgesAssumption
  <2>2. Registered(b).name \in Name
    BY <2>1, RegisteredType DEF Badge
  <2>3. records[i] = [kind |-> "copy", badge |-> b, of |-> Registered(b).name, raced |-> FALSE]
    BY <1>1, <1>3, <2>1
  <2>4. QED
    BY <2>1, <2>2, <2>3 DEF Record, Kinds
<1>4. records = [i \in 1 .. Len(Winners) |-> records[i]]
  BY <1>1, <1>2
<1>5. records \in [1 .. Len(Winners) -> Record]
  BY <1>2, <1>3, <1>4
<1>6. QED
  BY <1>2, <1>5

LEMMA InitInv ==
    ASSUME BadgesAssumption, Init
    PROVE  BadgesInv
<1>1. /\ requests = [r \in Requests |-> Idle]
      /\ present = {p \in People : \E b \in Badges : FirstHolder[b] = p}
      /\ contested = FALSE /\ resynced = FALSE
  BY DEF Init
<1>2. \A r \in Requests : requests[r] = Idle
  BY <1>1
<1>3. Types
  BY <1>1, <1>2, InitBadges, InitRecords, BadgeTypes DEF Types
<1>4. \A r \in Requests : Stage(requests[r])
  BY <1>2, BadgeTypes
<1>5. LocksExclude /\ LostKept
  BY <1>2, BadgeTypes DEF LocksExclude, LostKept
<1>6. BlanksAreFree /\ AccountsLinked
  BY <1>2, InitBadges, BadgeTypes DEF BlanksAreFree, AccountsLinked
<1>7. OverlapsMarked
  BY <1>2, BadgeTypes DEF OverlapsMarked
<1>8. Uncontested
  <2>1. Separate
    BY <1>2, BadgeTypes DEF Separate, Replacing
  <2>2. \A r \in Requests : Fresh(requests[r]) /\ MovesOwn(requests[r]) /\ MovesAll(requests[r])
    BY <1>2, BadgeTypes DEF Fresh, MovesOwn, MovesAll, Going, Moving, Past
  <2>3. QED
    BY <2>1, <2>2 DEF Uncontested
<1>9. QED
  BY <1>3, <1>4, <1>5, <1>6, <1>7, <1>8 DEF BadgesInv

LEMMA AbortInv ==
    ASSUME BadgesAssumption, BadgesInv, NEW r \in Requests, Abort(r)
    PROVE  BadgesInv'
  BY FinishInv DEF Abort

LEMMA StutterInv ==
    ASSUME BadgesInv, UNCHANGED vars
    PROVE  BadgesInv'
<1>1. UNCHANGED <<badges, records, requests, present, contested, resynced>>
  BY DEF vars
<1>2. Types' /\ (\A r \in Requests : Stage(requests[r]))'
  BY <1>1 DEF BadgesInv, Types
<1>3. LocksExclude' /\ LostKept' /\ BlanksAreFree' /\ AccountsLinked' /\ OverlapsMarked'
  BY <1>1 DEF BadgesInv, LocksExclude, LostKept, BlanksAreFree, AccountsLinked, OverlapsMarked, Replacing
<1>4. Uncontested'
  BY <1>1 DEF BadgesInv, Uncontested, Separate, Replacing, Involved, Fresh, MovesOwn, MovesAll
<1>5. QED
  BY <1>2, <1>3, <1>4 DEF BadgesInv

LEMMA NextInv ==
    ASSUME BadgesAssumption, BadgesInv, [Next]_vars
    PROVE  BadgesInv'
<1>1. CASE UNCHANGED vars
  BY <1>1, StutterInv
<1>2. CASE Quiet
  BY <1>2, StutterInv DEF Quiet
<1>3. CASE \E b \in Badges : Sync(b)
  BY <1>3, SyncInv
<1>4. ASSUME NEW r \in Requests, Receive(r) PROVE BadgesInv'
  BY <1>4, ReceiveReplaceInv, TransferInv, ReadAttendeeInv DEF Receive
<1>5. ASSUME NEW r \in Requests, Step(r) PROVE BadgesInv'
  <2>1. CASE ReadOld(r)
    BY <1>5, <2>1, ReadOldInv
  <2>2. CASE ReadNew(r)
    BY <1>5, <2>2, ReadNewInv
  <2>3. CASE UpdateOld(r)
    BY <1>5, <2>3, UpdateOldInv
  <2>4. CASE UpdateNew(r)
    BY <1>5, <2>4, UpdateNewInv
  <2>5. CASE MoveCheckOuts(r) \/ MoveCopies(r) \/ MovePlayers(r)
    BY <1>5, <2>5, MovesInv
  <2>6. CASE Commit(r)
    BY <1>5, <2>6, CommitInv
  <2>7. CASE InsertRecord(r)
    BY <1>5, <2>7, InsertRecordInv
  <2>8. QED
    BY <1>5, <2>1, <2>2, <2>3, <2>4, <2>5, <2>6, <2>7 DEF Step
<1>6. ASSUME NEW r \in Requests, Abort(r) PROVE BadgesInv'
  BY <1>6, AbortInv
<1>7. QED
  BY <1>1, <1>2, <1>3, <1>4, <1>5, <1>6 DEF Next

(***************************************************************************)
(* What replaceBadge relies on between its statements: a transaction has   *)
(* the rows it wrote to itself, never un-marks a lost badge, copies no     *)
(* foreign account and, until another writer of its badges overlaps it,    *)
(* works on the committed row and on the records of the lost badge only.   *)
(***************************************************************************)
THEOREM BadgesInvariance == Spec => []BadgesInv
<1>1. Init => BadgesInv
  BY BadgesAssumption, InitInv
<1>2. BadgesInv /\ [Next]_vars => BadgesInv'
  BY BadgesAssumption, NextInv
<1>3. QED
  BY <1>1, <1>2, PTL DEF Spec

(***************************************************************************)
(* Type correctness: a transaction writes rows of Attendee only and moves  *)
(* records that exist.                                                     *)
(***************************************************************************)
THEOREM BadgesTypeCorrectness == Spec => []TypeOK
<1>1. BadgesInv => TypeOK
  <2>1. SUFFICES ASSUME BadgesInv PROVE TypeOK
    OBVIOUS
  <2>2. Types
    BY <2>1 DEF BadgesInv
  <2>3. \A r \in Requests :
            /\ requests[r].pc \in PCs
            /\ requests[r].old \in Badge
            /\ DOMAIN requests[r].writes \subseteq Badges
            /\ requests[r].moved \subseteq DOMAIN records
    BY <2>2 DEF Types, Request, Rows
  <2>4. QED
    BY <2>2, <2>3 DEF TypeOK, Types
<1>2. QED
  BY <1>1, BadgesInvariance, PTL

(***************************************************************************)
(* Only a sync that changes the holder leaves a badge linked to the        *)
(* account of somebody else (userId and email), with any number of         *)
(* replacements and transfers that overlap in any order.                   *)
(***************************************************************************)
THEOREM AccountsFollowHolders == Spec => []AccountOfHolder
<1>1. BadgesInv => AccountOfHolder
  BY DEF BadgesInv, AccountsLinked, Linked, AccountOfHolder
<1>2. QED
  BY <1>1, BadgesInvariance, PTL

\* Who writes the rows of badges.
LEMMA Writers ==
    ASSUME BadgesInv, [Next]_vars
    PROVE  \/ \E r \in Requests : Transfer(r) \/ Commit(r)
           \/ \E b \in Badges : Sync(b)
           \/ /\ UNCHANGED <<badges, present, resynced>>
              /\ ~contested' => ~contested
<1>1. CASE \E r \in Requests : ReceiveReplace(r)
  <2>1. PICK r \in Requests : ReceiveReplace(r)
    BY <1>1
  <2>2. PICK bs : Contest(bs)
    BY <2>1 DEF ReceiveReplace
  <2>3. ~contested' => ~contested
    BY <2>2, Contested DEF BadgesInv, Types
  <2>4. QED
    BY <2>1, <2>3 DEF ReceiveReplace
<1>2. CASE ~ \E r \in Requests : ReceiveReplace(r)
  BY <1>2 DEF Next, Receive, Step, ReadAttendee, ReadOld, ReadNew, UpdateOld, UpdateNew,
      MoveCheckOuts, MoveCopies, MovePlayers, Move, InsertRecord, Abort, Quiet, vars
<1>3. QED
  BY <1>1, <1>2

(***************************************************************************)
(* Nothing clears badgeLost: the transaction that reuses a lost badge      *)
(* keeps its mark, since nobody else can write the row it has locked.      *)
(***************************************************************************)
THEOREM LostBadgesStayLost == Spec => LostForGood
<1>1. BadgesInv /\ [Next]_vars => [\A b \in Badges : badges[b].lost => badges'[b].lost]_vars
  <2>1. SUFFICES ASSUME BadgesInv, Next, NEW b \in Badges, badges[b].lost
                 PROVE  badges'[b].lost
    BY DEF vars
  <2>2. badges \in [Badges -> Badge]
    BY <2>1 DEF BadgesInv, Types
  <2>3. CASE badges' = badges
    BY <2>1, <2>3
  <2>4. ASSUME NEW r \in Requests, Transfer(r) PROVE badges'[b].lost
    <3>1. PICK c, p, name :
            /\ c \in Badges /\ p \in People
            /\ badges' = [badges EXCEPT ![c].name = name, ![c].email = p, ![c].user = NoOne]
      BY <2>4 DEF Transfer
    <3>2. PICK row : row = [badges[c] EXCEPT !.name = name, !.email = p, !.user = NoOne]
      OBVIOUS
    <3>3. badges' = [badges EXCEPT ![c] = row]
      BY <3>1, <3>2
    <3>4. row.lost = badges[c].lost
      BY <2>2, <3>1, <3>2 DEF Badge
    <3>5. QED
      BY <2>1, <2>2, <3>1, <3>3, <3>4
  <2>5. ASSUME NEW c \in Badges, Sync(c) PROVE badges'[b].lost
    <3>1. PICK row : row = [badges[c] EXCEPT !.name = Registered(c).name, !.email = Registered(c).email]
      OBVIOUS
    <3>2. badges' = [badges EXCEPT ![c] = row]
      BY <2>5, <3>1 DEF Sync
    <3>3. row.lost = badges[c].lost
      BY <2>2, <2>5, <3>1 DEF Badge
    <3>4. QED
      BY <2>1, <2>2, <3>2, <3>3
  <2>6. ASSUME NEW r \in Requests, Commit(r) PROVE badges'[b].lost
    <3>1. Committed(r)
      BY <2>1, <2>6, CommitWrites
    <3>2. \A c \in DOMAIN requests[r].writes : badges[c].lost => requests[r].writes[c].lost
      BY <2>1, <2>6, SoundNow
    <3>3. QED
      BY <2>1, <3>1, <3>2 DEF Committed
  <2>7. (\E r \in Requests : Transfer(r) \/ Commit(r)) \/ (\E c \in Badges : Sync(c)) \/ badges' = badges
    BY <2>1, Writers
  <2>8. QED
    BY <2>3, <2>4, <2>5, <2>6, <2>7
<1>2. QED
  BY <1>1, BadgesInvariance, PTL DEF Spec, LostForGood

-----------------------------------------------------------------------------
(* One badge for everyone at the convention. *)

LEMMA HeldCommit ==
    ASSUME BadgesAssumption, BadgesInv, Held, NEW r \in Requests, Commit(r)
    PROVE  Held'
<1>1. PICK req : req = requests[r]
  OBVIOUS
<1>2. req.pc = "commit" /\ UNCHANGED <<present, contested, resynced>>
  BY <1>1 DEF Commit
<1>3. SUFFICES ASSUME ~Disputed
               PROVE  /\ \A p \in present : \E b \in Badges : badges'[b].email = p
                      /\ \A b \in Badges : badges'[b].email \in present \cup {NoOne}
                      /\ \A b, c \in Badges :
                            badges'[b].email = badges'[c].email /\ b # c => badges'[b].email = NoOne
  BY <1>2 DEF Held, Disputed
<1>4. /\ \A p \in present : \E b \in Badges : badges[b].email = p
      /\ \A b \in Badges : badges[b].email \in present \cup {NoOne}
      /\ \A b, c \in Badges : badges[b].email = badges[c].email /\ b # c => badges[b].email = NoOne
  BY <1>3 DEF Held
<1>5. /\ req.from \in Badges /\ req.to \in Badges /\ req.old \in Badge
      /\ \A b \in Badges : badges'[b] = IF b \in {req.from, req.to} THEN req.writes[b] ELSE badges[b]
      /\ req.writes[req.to].email = req.old.email
      /\ req.from # req.to => req.writes[req.from] = MarkLost(req.old)
  BY <1>1, CommitWrites DEF Committed, Request
<1>6. req.old = badges[req.from] /\ badges[req.to].name.who = Blank
  BY <1>1, <1>2, <1>3, <1>5, SoundNow DEF Fresh, Going, Moving, Disputed
<1>7. badges[req.to].email = NoOne
  BY <1>5, <1>6 DEF BadgesInv, BlanksAreFree, BlankIsFree
<1>8. req.from # req.to => badges'[req.from].email = NoOne
  <2>1. MarkLost(req.old).email = NoOne
    BY <1>5, MarkLostType
  <2>2. QED
    BY <1>5, <2>1
<1>9. badges'[req.to].email = badges[req.from].email
  BY <1>5, <1>6
<1>10. \A b \in Badges : b \notin {req.from, req.to} => badges'[b].email = badges[b].email
  BY <1>5
<1>11. NoOne \notin present
  BY DEF BadgesInv, Types, BadgesAssumption
<1>12. PICK email : email = [b \in Badges |-> badges[b].email]
  OBVIOUS
<1>13. PICK after : after = [b \in Badges |-> badges'[b].email]
  OBVIOUS
<1>14. /\ \A p \in present : \E b \in Badges : after[b] = p
       /\ \A b \in Badges : after[b] \in present \cup {NoOne}
       /\ \A b, c \in Badges : after[b] = after[c] /\ b # c => after[b] = NoOne
  <2>1. /\ \A p \in present : \E b \in Badges : email[b] = p
        /\ \A b \in Badges : email[b] \in present \cup {NoOne}
        /\ \A b, c \in Badges : email[b] = email[c] /\ b # c => email[b] = NoOne
    BY <1>4, <1>12
  <2>2. /\ email[req.to] = NoOne
        /\ req.from # req.to => after[req.from] = NoOne
        /\ after[req.to] = email[req.from]
        /\ \A b \in Badges : b \notin {req.from, req.to} => after[b] = email[b]
    BY <1>5, <1>7, <1>8, <1>9, <1>10, <1>12, <1>13
  <2>3. \A p \in present : \E b \in Badges : after[b] = p
    <3>1. SUFFICES ASSUME NEW p \in present PROVE \E b \in Badges : after[b] = p
      OBVIOUS
    <3>2. PICK b \in Badges : email[b] = p
      BY <2>1
    <3>3. b # req.to
      BY <1>11, <2>2, <3>2
    <3>4. CASE b = req.from
      BY <1>5, <2>2, <3>2, <3>4
    <3>5. CASE b # req.from
      BY <2>2, <3>2, <3>3, <3>5
    <3>6. QED
      BY <3>4, <3>5
  <2>4. \A b \in Badges : after[b] \in present \cup {NoOne}
    BY <1>5, <2>1, <2>2
  <2>5. \A b, c \in Badges : after[b] = after[c] /\ b # c => after[b] = NoOne
    BY <1>5, <2>1, <2>2
  <2>6. QED
    BY <2>3, <2>4, <2>5
<1>15. QED
  BY <1>13, <1>14

LEMMA HeldTransfer ==
    ASSUME BadgesAssumption, BadgesInv, Held, NEW r \in Requests, Transfer(r)
    PROVE  Held'
<1>1. PICK b, p, name :
        /\ b \in Badges /\ p \in People \ present
        /\ \A c \in Badges : badges[c].email # p
        /\ badges' = [badges EXCEPT ![b].name = name, ![b].email = p, ![b].user = NoOne]
        /\ present' = (present \ {badges[b].email}) \cup {p}
        /\ Contest({b})
        /\ UNCHANGED resynced
  BY DEF Transfer
<1>2. /\ badges \in [Badges -> Badge] /\ contested \in BOOLEAN
      /\ \A c \in Badges : badges[c] \in Badge
  BY DEF BadgesInv, Types
<1>3. ~contested' => ~contested
  BY <1>1, <1>2, Contested
<1>4. SUFFICES ASSUME ~Disputed
               PROVE  /\ \A q \in present' : \E c \in Badges : badges'[c].email = q
                      /\ \A c \in Badges : badges'[c].email \in present' \cup {NoOne}
                      /\ \A c, d \in Badges :
                            badges'[c].email = badges'[d].email /\ c # d => badges'[c].email = NoOne
  BY <1>1, <1>3 DEF Held, Disputed
<1>5. PICK row : row = [badges[b] EXCEPT !.name = name, !.email = p, !.user = NoOne]
  OBVIOUS
<1>6. badges' = [badges EXCEPT ![b] = row]
  BY <1>1, <1>5
<1>7. row.email = p
  BY <1>1, <1>2, <1>5 DEF Badge
<1>8. badges'[b].email = p /\ \A c \in Badges : c # b => badges'[c].email = badges[c].email
  BY <1>1, <1>2, <1>6, <1>7
<1>9. /\ \A q \in present : \E c \in Badges : badges[c].email = q
      /\ \A c \in Badges : badges[c].email \in present \cup {NoOne}
      /\ \A c, d \in Badges : badges[c].email = badges[d].email /\ c # d => badges[c].email = NoOne
  BY <1>4 DEF Held
<1>10. NoOne \notin present
  BY DEF BadgesInv, Types, BadgesAssumption
<1>11. \A q \in present' : \E c \in Badges : badges'[c].email = q
  <2>1. SUFFICES ASSUME NEW q \in present' PROVE \E c \in Badges : badges'[c].email = q
    OBVIOUS
  <2>2. CASE q = p
    BY <1>1, <1>8, <2>2
  <2>3. CASE q # p
    <3>1. q \in present /\ q # badges[b].email
      BY <1>1, <2>1, <2>3
    <3>2. PICK c \in Badges : badges[c].email = q
      BY <1>9, <3>1
    <3>3. QED
      BY <1>8, <3>1, <3>2
  <2>4. QED
    BY <2>2, <2>3
<1>12. \A c \in Badges : badges'[c].email \in present' \cup {NoOne}
  <2>1. SUFFICES ASSUME NEW c \in Badges, badges'[c].email # NoOne
                 PROVE  badges'[c].email \in present'
    OBVIOUS
  <2>2. CASE c = b
    BY <1>1, <1>8, <2>2
  <2>3. CASE c # b
    <3>1. badges'[c].email = badges[c].email /\ badges[c].email \in present
      BY <1>8, <1>9, <2>1, <2>3
    <3>2. badges[c].email # badges[b].email
      BY <1>1, <1>9, <1>10, <2>3, <3>1
    <3>3. QED
      BY <1>1, <3>1, <3>2
  <2>4. QED
    BY <2>2, <2>3
<1>13. ASSUME NEW c \in Badges, NEW d \in Badges, badges'[c].email = badges'[d].email, c # d
       PROVE  badges'[c].email = NoOne
  <2>1. CASE c # b /\ d # b
    BY <1>8, <1>9, <1>13, <2>1
  <2>2. CASE c = b \/ d = b
    BY <1>1, <1>8, <1>13, <2>2
  <2>3. QED
    BY <2>1, <2>2
<1>14. QED
  BY <1>11, <1>12, <1>13

LEMMA HeldSync ==
    ASSUME BadgesInv, Held, NEW b \in Badges, Sync(b)
    PROVE  Held'
<1>1. /\ resynced' = (resynced \/ badges' # badges)
      /\ Contest({b}) /\ UNCHANGED present
  BY DEF Sync
<1>2. ~resynced' => ~resynced /\ badges' = badges
  <2>1. PICK changed \in BOOLEAN : changed <=> (resynced \/ badges' # badges)
    OBVIOUS
  <2>2. resynced' = changed
    BY <1>1, <2>1, Zenon
  <2>3. QED
    BY <2>1, <2>2
<1>3. ~contested' => ~contested
  BY <1>1, Contested DEF BadgesInv, Types
<1>4. QED
  BY <1>1, <1>2, <1>3 DEF Held, Disputed

LEMMA HeldInit ==
    ASSUME BadgesAssumption, OneBadgeEach, Init
    PROVE  Held
<1>1. present = {p \in People : \E b \in Badges : FirstHolder[b] = p}
  BY DEF Init
<1>2. \A b \in Badges :
        /\ badges[b].email = IF FirstHolder[b] = Blank THEN NoOne ELSE FirstHolder[b]
        /\ FirstHolder[b] \in People \cup {Blank}
  BY InitBadges, RegisteredType DEF BadgesAssumption
<1>3. NoOne \notin People /\ Blank \notin People
  BY DEF BadgesAssumption
<1>4. \A p \in present : \E b \in Badges : badges[b].email = p
  BY <1>1, <1>2, <1>3
<1>5. \A b \in Badges : badges[b].email \in present \cup {NoOne}
  BY <1>1, <1>2
<1>6. \A b, c \in Badges : badges[b].email = badges[c].email /\ b # c => badges[b].email = NoOne
  BY <1>2, <1>3 DEF OneBadgeEach
<1>7. QED
  BY <1>4, <1>5, <1>6 DEF Held

LEMMA HeldStep ==
    ASSUME BadgesAssumption, BadgesInv, Held, [Next]_vars
    PROVE  Held'
<1>1. CASE UNCHANGED <<badges, present, resynced>> /\ (~contested' => ~contested)
  BY <1>1 DEF Held, Disputed
<1>2. QED
  BY <1>1, Writers, HeldCommit, HeldTransfer, HeldSync

LEMMA HeldCounts ==
    ASSUME BadgesInv, BadgesAssumption, Held
    PROVE  HeldOnce
<1>1. SUFFICES ASSUME ~Disputed, NEW p \in People
               PROVE  Cardinality({b \in Badges : badges[b].email = p}) =
                        IF p \in present THEN 1 ELSE 0
  BY DEF HeldOnce
<1>2. p # NoOne
  BY DEF BadgesAssumption
<1>3. CASE p \in present
  <2>1. PICK b \in Badges : badges[b].email = p
    BY <1>1, <1>3 DEF Held
  <2>2. {c \in Badges : badges[c].email = p} = {b}
    BY <1>1, <1>2, <2>1 DEF Held
  <2>3. QED
    BY <1>3, <2>2, FS_Singleton
<1>4. CASE p \notin present
  <2>1. {c \in Badges : badges[c].email = p} = {}
    BY <1>1, <1>2, <1>4 DEF Held
  <2>2. QED
    BY <1>4, <2>1, FS_EmptySet
<1>5. QED
  BY <1>3, <1>4

(***************************************************************************)
(* When nobody is registered twice: until two writers of a badge overlap   *)
(* or a sync disputes a holder, everyone at the convention is on exactly   *)
(* one badge and nobody else on any, after any number of replacements,     *)
(* transfers and transactions that end halfway.                            *)
(***************************************************************************)
THEOREM EveryoneHeldOnce ==
    ASSUME OneBadgeEach
    PROVE  Spec => []HeldOnce
<1>1. Init => Held
  BY BadgesAssumption, HeldInit
<1>2. BadgesInv /\ Held /\ [Next]_vars => Held'
  BY BadgesAssumption, HeldStep
<1>3. BadgesInv /\ Held => HeldOnce
  BY BadgesAssumption, HeldCounts
<1>4. QED
  BY <1>1, <1>2, <1>3, BadgesInvariance, PTL DEF Spec

-----------------------------------------------------------------------------
(* The tables implement the book of replacements.                          *)

LEMMA BookTypes ==
    ASSUME Types
    PROVE  /\ BookOfTable \in [Badges -> Book!Entry]
           /\ DOMAIN RecordsOfTable = Settled
           /\ RecordsOfTable \in [Settled -> Badges]
           /\ Settled \subseteq DOMAIN records
<1>1. \A b \in Badges : EntryOf(b) \in Book!Entry
  BY DEF Types, Badge, Name, EntryOf, Book!Entry, Book!Name
<1>2. \A i \in Settled : records[i].badge \in Badges
  BY RecordTypes DEF Settled, Record
<1>3. QED
  BY <1>1, <1>2 DEF BookOfTable, RecordsOfTable, Settled

LEMMA BookInit ==
    ASSUME BadgesAssumption, Init
    PROVE  Book!Init
<1>1. Types
  BY InitInv DEF BadgesInv
<1>2. Disputed = FALSE
  BY DEF Init, Disputed
<1>3. QED
  BY <1>1, <1>2, BookTypes DEF Book!Init

LEMMA BookSame ==
    ASSUME badges' = badges
    PROVE  BookOfTable' = BookOfTable
  BY DEF BookOfTable, EntryOf

\* The records are the same in the book if each keeps its badge.
LEMMA RecordsSame ==
    ASSUME DOMAIN records' = DOMAIN records,
           \A i \in DOMAIN records : /\ records'[i].badge = records[i].badge
                                     /\ records'[i].raced = records[i].raced
    PROVE  RecordsOfTable' = RecordsOfTable
<1>1. Settled' = Settled
  BY DEF Settled
<1>2. \A i \in Settled : records'[i].badge = records[i].badge
  BY DEF Settled
<1>3. QED
  BY <1>1, <1>2 DEF RecordsOfTable

LEMMA CommitReplaces ==
    ASSUME BadgesAssumption, BadgesInv, ~Disputed, NEW r \in Requests, Commit(r)
    PROVE  \E old, new \in Badges : Book!Replace(old, new)
<1>1. PICK req : req = requests[r]
  OBVIOUS
<1>2. req.pc = "commit"
  BY <1>1 DEF Commit
<1>3. /\ req \in Request
      /\ req.from \in Badges /\ req.to \in Badges
      /\ \A b \in Badges : badges'[b] = IF b \in {req.from, req.to} THEN req.writes[b] ELSE badges[b]
      /\ req.writes[req.to].name = req.old.name
      /\ req.writes[req.to].email = req.old.email
      /\ req.writes[req.to].user = req.old.user
      /\ req.from # req.to => req.writes[req.from] = MarkLost(req.old)
  BY <1>1, CommitWrites DEF Committed
<1>4. req.old = badges[req.from] /\ badges[req.to].name.who = Blank
  BY <1>1, <1>2, <1>3, SoundNow DEF Fresh, Going, Moving, Disputed
<1>5. MovesOwn(req) /\ MovesAll(req) /\ req.moved \subseteq DOMAIN records
  BY <1>1, SoundNow DEF Disputed
<1>6. BookOfTable[req.to].name.who = Blank
  BY <1>3, <1>4 DEF BookOfTable, EntryOf
<1>7. BookOfTable' = [BookOfTable EXCEPT ![req.from] = Book!Marked(BookOfTable[req.from]),
                                         ![req.to] = BookOfTable[req.from]]
  <2>1. EntryOf(req.to)' = EntryOf(req.from)
    BY <1>3, <1>4 DEF EntryOf
  <2>2. req.from # req.to => EntryOf(req.from)' = Book!Marked(EntryOf(req.from))
    <3>1. SUFFICES ASSUME req.from # req.to
                   PROVE  EntryOf(req.from)' = Book!Marked(EntryOf(req.from))
      OBVIOUS
    <3>2. badges'[req.from] = MarkLost(badges[req.from])
      BY <1>3, <1>4, <3>1
    <3>3. PICK name : name = [badges[req.from].name EXCEPT !.marks = @ + 1]
      OBVIOUS
    <3>4. EntryOf(req.from)' = [name |-> name, email |-> NoOne, user |-> NoOne]
      BY <3>2, <3>3 DEF EntryOf, MarkLost
    <3>5. Book!Marked(EntryOf(req.from)) = [name |-> name, email |-> NoOne, user |-> NoOne]
      BY <3>3 DEF EntryOf, Book!Marked
    <3>6. QED
      BY <3>4, <3>5
  <2>3. \A b \in Badges : b \notin {req.from, req.to} => EntryOf(b)' = EntryOf(b)
    BY <1>3 DEF EntryOf
  <2>4. PICK entry : entry = [b \in Badges |-> EntryOf(b)']
    OBVIOUS
  <2>5. PICK marked : marked = Book!Marked(EntryOf(req.from))
    OBVIOUS
  <2>6. /\ BookOfTable' = entry /\ DOMAIN BookOfTable = Badges
        /\ BookOfTable = [b \in Badges |-> EntryOf(b)]
        /\ BookOfTable[req.from] = EntryOf(req.from)
    BY <1>3, <2>4 DEF BookOfTable
  <2>7. /\ entry[req.to] = BookOfTable[req.from]
        /\ req.from # req.to => entry[req.from] = marked
        /\ \A b \in Badges : b \notin {req.from, req.to} => entry[b] = BookOfTable[b]
    BY <1>3, <2>1, <2>2, <2>3, <2>4, <2>5, <2>6
  <2>8. entry = [BookOfTable EXCEPT ![req.from] = marked, ![req.to] = BookOfTable[req.from]]
    BY <1>3, <2>4, <2>6, <2>7
  <2>9. QED
    BY <2>5, <2>6, <2>8
<1>8. RecordsOfTable' = [i \in DOMAIN RecordsOfTable |->
                            IF RecordsOfTable[i] = req.from THEN req.to ELSE RecordsOfTable[i]]
  <2>1. /\ DOMAIN records' = DOMAIN records
        /\ \A i \in DOMAIN records :
                /\ records'[i].raced = records[i].raced
                /\ records'[i].badge = IF i \in req.moved THEN req.to ELSE records[i].badge
    BY <1>1, CommitMoves
  <2>2. Settled' = Settled
    BY <2>1 DEF Settled
  <2>3. \A i \in Settled : i \in req.moved <=> records[i].badge = req.from
    <3>1. \A i \in DOMAIN records : Past("commit", records[i].kind)
      BY RecordTypes DEF BadgesInv, Record, Kinds, Past
    <3>2. QED
      BY <1>2, <1>5, <3>1 DEF Settled, MovesOwn, MovesAll
  <2>4. \A i \in Settled :
            records'[i].badge = IF records[i].badge = req.from THEN req.to ELSE records[i].badge
    BY <2>1, <2>3 DEF Settled
  <2>5. QED
    BY <2>2, <2>4 DEF RecordsOfTable
<1>9. Book!Replace(req.from, req.to)
  BY <1>6, <1>7, <1>8 DEF Book!Replace
<1>10. QED
  BY <1>3, <1>9

LEMMA TransferTransfers ==
    ASSUME BadgesAssumption, BadgesInv, NEW r \in Requests, Transfer(r)
    PROVE  \E b \in Badges, p \in People : Book!Transfer(b, p)
<1>1. PICK b, p, name :
        /\ b \in Badges /\ p \in People \ present
        /\ name = [who |-> p, marks |-> 0]
        /\ requests[r] = Idle
        /\ badges' = [badges EXCEPT ![b].name = name, ![b].email = p, ![b].user = NoOne]
        /\ records' = [i \in DOMAIN records |->
                IF records[i].badge = b THEN [records[i] EXCEPT !.of = name] ELSE records[i]]
        /\ present' = (present \ {badges[b].email}) \cup {p}
        /\ requests' = [s \in Requests |->
                [requests[s] EXCEPT !.raced =
                    @ \/ (requests[s].pc = "insert" /\ requests[s].from = b)]]
        /\ Contest({b})
        /\ UNCHANGED resynced
  BY DEF Transfer
<1>2. PICK row : row = [badges[b] EXCEPT !.name = name, !.email = p, !.user = NoOne]
  OBVIOUS
<1>3. badges' = [badges EXCEPT ![b] = row] /\ badges \in [Badges -> Badge] /\ badges[b] \in Badge
  BY <1>1, <1>2 DEF BadgesInv, Types
<1>4. row.name = name /\ row.email = p /\ row.user = NoOne
  BY <1>1, <1>2, <1>3 DEF Badge
<1>5. PICK entry : entry = [name |-> name, email |-> p, user |-> NoOne]
  OBVIOUS
<1>6. EntryOf(b)' = entry /\ \A c \in Badges : c # b => EntryOf(c)' = EntryOf(c)
  BY <1>1, <1>3, <1>4, <1>5 DEF EntryOf
<1>7. BookOfTable' = [BookOfTable EXCEPT ![b] = entry]
  BY <1>1, <1>6 DEF BookOfTable
<1>8. RecordsOfTable' = RecordsOfTable
  <2>1. name \in Name
    BY <1>1 DEF Name
  <2>2. Renamed(records', records)
    BY <1>1, <2>1, RenameRecords DEF BadgesInv
  <2>3. QED
    BY <2>2, RecordsSame DEF Renamed
<1>9. Book!Transfer(b, p)
  BY <1>1, <1>5, <1>7, <1>8 DEF Book!Transfer
<1>10. QED
  BY <1>1, <1>9

LEMMA InsertRecords ==
    ASSUME BadgesAssumption, BadgesInv, NEW r \in Requests, InsertRecord(r)
    PROVE  /\ BookOfTable' = BookOfTable
           /\ RecordsOfTable' = RecordsOfTable \/ \E b \in Badges : Book!Record(b)
<1>1. PICK kind, req, row :
        /\ kind \in Kinds
        /\ req = requests[r]
        /\ row = [kind |-> kind, badge |-> req.from, of |-> req.old.name, raced |-> req.raced]
        /\ req.pc = "insert"
        /\ records' = Append(records, row)
        /\ UNCHANGED badges
  BY DEF InsertRecord, Kinds
<1>2. req.from \in Badges /\ row.badge = req.from
  BY <1>1, SoundNow DEF Stage
<1>3. PICK n \in Nat :
        /\ DOMAIN records = 1 .. n /\ DOMAIN records' = 1 .. (n + 1)
        /\ \A i \in 1 .. n : records'[i] = records[i]
        /\ records'[n + 1] = row
  <2>1. records \in Seq(Record) /\ row \in Record
    <3>1. req.old.name \in Name /\ req.raced \in BOOLEAN
      BY <1>1, SoundNow DEF Request, Badge
    <3>2. kind \in Kinds
      BY <1>1
    <3>3. QED
      BY <1>1, <1>2, <3>1, <3>2 DEF Record, BadgesInv, Types
  <2>2. QED
    BY <1>1, <2>1, AppendProperties, LenProperties
<1>4. BookOfTable' = BookOfTable
  BY <1>1, BookSame
<1>5. CASE row.raced
  <2>1. Settled' = Settled
    BY <1>3, <1>5 DEF Settled
  <2>2. RecordsOfTable' = RecordsOfTable
    BY <1>3, <2>1 DEF RecordsOfTable, Settled
  <2>3. QED
    BY <1>4, <2>2
<1>6. CASE ~row.raced
  <2>1. Settled' = Settled \cup {n + 1} /\ n + 1 \notin Settled
    BY <1>3, <1>6 DEF Settled
  <2>2. \A i \in Settled : records'[i].badge = records[i].badge
    BY <1>3 DEF Settled
  <2>3. PICK id, b : id = n + 1 /\ b = req.from
    OBVIOUS
  <2>4. RecordsOfTable' = [i \in DOMAIN RecordsOfTable \cup {id} |->
                              IF i = id THEN b ELSE RecordsOfTable[i]]
    BY <1>2, <1>3, <2>1, <2>2, <2>3 DEF RecordsOfTable
  <2>5. id \in DOMAIN RecordsOfTable' \ DOMAIN RecordsOfTable
    BY <2>1, <2>3 DEF RecordsOfTable
  <2>6. Book!Record(b)
    BY <1>4, <2>4, <2>5 DEF Book!Record
  <2>7. QED
    BY <1>2, <1>4, <2>3, <2>6
<1>7. QED
  BY <1>5, <1>6

\* A dispute does not end.
LEMMA DisputeLasts ==
    ASSUME BadgesInv, [Next]_vars, ~Disputed'
    PROVE  /\ ~Disputed
           /\ Disputed' = Disputed
           /\ (\E b \in Badges : Sync(b)) => badges' = badges
<1>1. ASSUME NEW r \in Requests, Transfer(r) PROVE ~contested /\ ~resynced
  <2>1. PICK b \in Badges : Contest({b})
    BY <1>1 DEF Transfer
  <2>2. resynced' = resynced
    BY <1>1 DEF Transfer
  <2>3. QED
    BY <2>1, <2>2, Contested DEF Disputed, BadgesInv, Types
<1>2. ASSUME NEW b \in Badges, Sync(b) PROVE ~contested /\ ~resynced /\ badges' = badges
  <2>1. Contest({b}) /\ resynced' = (resynced \/ badges' # badges)
    BY <1>2 DEF Sync
  <2>2. ~contested
    BY <2>1, Contested DEF Disputed, BadgesInv, Types
  <2>3. PICK changed \in BOOLEAN : changed <=> (resynced \/ badges' # badges)
    OBVIOUS
  <2>4. resynced' = changed
    BY <2>1, <2>3, Zenon
  <2>5. QED
    BY <2>2, <2>3, <2>4 DEF Disputed
<1>3. ASSUME NEW r \in Requests, Commit(r) PROVE ~contested /\ ~resynced
  BY <1>3 DEF Commit, Disputed
<1>4. ~contested /\ ~resynced
  BY <1>1, <1>2, <1>3, Writers DEF Disputed
<1>5. Disputed = FALSE /\ Disputed' = FALSE
  BY <1>4, Zenon DEF Disputed
<1>6. QED
  BY <1>2, <1>5

LEMMA BookNext ==
    ASSUME BadgesAssumption, BadgesInv, [Next]_vars
    PROVE  [Book!Next]_<<BookOfTable, RecordsOfTable, Disputed>>
<1>1. CASE Disputed'
  BY <1>1 DEF Book!Next
<1>2. CASE ~Disputed'
  <2>1. /\ ~Disputed /\ Disputed' = Disputed
        /\ (\E b \in Badges : Sync(b)) => badges' = badges
    BY <1>2, DisputeLasts
  <2>2. CASE \E r \in Requests : Commit(r)
    BY <2>1, <2>2, CommitReplaces DEF Book!Next
  <2>3. CASE \E r \in Requests : Transfer(r)
    BY <2>1, <2>3, TransferTransfers DEF Book!Next
  <2>4. CASE \E r \in Requests : InsertRecord(r)
    BY <2>1, <2>4, InsertRecords DEF Book!Next
  <2>5. CASE UNCHANGED <<badges, records>>
    BY <2>1, <2>5, BookSame, RecordsSame
  <2>6. \/ \E r \in Requests : Commit(r) \/ Transfer(r) \/ InsertRecord(r)
        \/ UNCHANGED <<badges, records>>
    <3>1. CASE \E b \in Badges : Sync(b)
      BY <2>1, <3>1 DEF Sync
    <3>2. CASE ~ \E b \in Badges : Sync(b)
      BY <3>2 DEF Next, Receive, Step, ReceiveReplace, ReadAttendee, ReadOld, ReadNew, UpdateOld,
          UpdateNew, MoveCheckOuts, MoveCopies, MovePlayers, Move, Abort, Quiet, vars
    <3>3. QED
      BY <3>1, <3>2
  <2>7. QED
    BY <2>2, <2>3, <2>4, <2>5, <2>6
<1>3. QED
  BY <1>1, <1>2

(***************************************************************************)
(* The tables implement the book for any number of handlers: a replacement *)
(* moves its holder and all of its settled records at its commit or not at *)
(* all, and no other step changes whose badge is whose.                    *)
(***************************************************************************)
THEOREM BookRefinement == Spec => ImplementsBook
<1>1. Init => Book!Init
  BY BadgesAssumption, BookInit
<1>2. BadgesInv /\ [Next]_vars => [Book!Next]_<<BookOfTable, RecordsOfTable, Disputed>>
  BY BadgesAssumption, BookNext
<1>3. QED
  BY <1>1, <1>2, BadgesInvariance, PTL DEF Spec, ImplementsBook, Book!Spec
=============================================================================
