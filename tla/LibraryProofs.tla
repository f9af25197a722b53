--------------------------- MODULE LibraryProofs ---------------------------
(***************************************************************************)
(* Theorems about modules Library and Reports, for any sets of handlers,   *)
(* copies and attendees, any number of requests and whatever their clock   *)
(* says.                                                                   *)
(***************************************************************************)
EXTENDS Reports, TLAPS

-----------------------------------------------------------------------------
(* The inductive invariant: what the rows satisfy, and what a handler may  *)
(* rely on of the things it has read.                                      *)

\* The copy a check-out will lend: none of the loans its read saw is out.
CopyLookup(req) ==
    req.pc \in {"readAttendee", "create"} =>
        /\ req.copy \in Copies
        /\ req.copySeen <= Len(checkOuts)
        /\ \A i \in DOMAIN checkOuts :
              (i <= req.copySeen /\ checkOuts[i].copy = req.copy) => ~Open(i)

\* The attendee it will be lent to: within the limit when it was read.
AttendeeLookup(req) ==
    req.pc = "create" =>
        /\ req.attendee \in Attendees
        /\ req.attendeeSeen <= Len(checkOuts)
        /\ ~req.override =>
              \A i \in DOMAIN checkOuts :
                (i <= req.attendeeSeen /\ checkOuts[i].attendee = req.attendee) => ~Open(i)

\* The loan a check-in will close was out when it was read: each of the others
\* its read saw that is still out was lent together with it.
ReturnLookup(req) ==
    req.pc = "update" =>
        /\ req.row \in DOMAIN checkOuts
        /\ req.copySeen <= Len(checkOuts)
        /\ req.stamp # Null
        /\ \A j \in DOMAIN checkOuts :
              (/\ j <= req.copySeen /\ j # req.row
               /\ checkOuts[j].copy = checkOuts[req.row].copy
               /\ Open(j)) => LentTogether(req.row, j)

\* The loan a prize entry is for is back, for good.
EntryLookup(req) ==
    /\ req.pc \in {"addPlayers", "submit"} =>
        /\ req.row \in DOMAIN checkOuts
        /\ ~Open(req.row)
    /\ req.pc = "addPlayers" => req.party > 0
    /\ req.pc = "submit" => checkOuts[req.row].players > 0

Sound(req) ==
    CopyLookup(req) /\ AttendeeLookup(req) /\ ReturnLookup(req) /\ EntryLookup(req)

RowInv ==
    /\ DoubleLoansOverlap
    /\ LimitBreaksOverlap
    /\ EntriesFollowReturn

(***************************************************************************)
(* The inductive invariant of the desk: the rows of the CheckOut table and *)
(* the stale reads of every handler of CheckOutService fit together.       *)
(***************************************************************************)
LoanInv ==
    /\ TypeOK
    /\ RowInv
    /\ \A r \in Requests : Sound(requests[r])

-----------------------------------------------------------------------------
(* How the table changes.                                                  *)

\* Rows are never removed; what a row says of its loan is never taken back.
Grows ==
    /\ Len(checkOuts) <= Len(checkOuts')
    /\ \A i \in DOMAIN checkOuts :
        /\ checkOuts'[i].copy = checkOuts[i].copy
        /\ checkOuts'[i].attendee = checkOuts[i].attendee
        /\ checkOuts'[i].copySeen = checkOuts[i].copySeen
        /\ ~Open(i) => ~Open(i)'
        /\ checkOuts[i].players <= checkOuts'[i].players

\* What a table of check-outs holds, row by row.
LEMMA RowTypes ==
    ASSUME NEW table \in Seq(CheckOut)
    PROVE  /\ DOMAIN table = 1 .. Len(table)
           /\ Len(table) \in Nat
           /\ \A i \in DOMAIN table :
                /\ table[i] \in CheckOut
                /\ table[i].copy \in Copies /\ table[i].attendee \in Attendees
                /\ table[i].checkOut \in Nat /\ table[i].checkIn \in Nat
                /\ table[i].submitted \in BOOLEAN /\ table[i].players \in Nat
                /\ table[i].copySeen \in Nat /\ table[i].attendeeSeen \in Nat
                /\ table[i].override \in BOOLEAN
<1>1. DOMAIN table = 1 .. Len(table) /\ Len(table) \in Nat
  OBVIOUS
<1>2. ASSUME NEW i \in DOMAIN table PROVE table[i] \in CheckOut
  BY <1>1
<1>3. QED
  BY <1>1, <1>2 DEF CheckOut

\* What a handler has read stays good enough whatever the others write.
LEMMA SoundPersists ==
    ASSUME TypeOK, TypeOK', Grows, NEW req \in Request, Sound(req)
    PROVE  Sound(req)'
<1>1. /\ DOMAIN checkOuts = 1 .. Len(checkOuts) /\ Len(checkOuts) \in Nat
      /\ \A i \in DOMAIN checkOuts :
            checkOuts[i].players \in Nat /\ checkOuts[i].copySeen \in Nat
  BY RowTypes DEF TypeOK
<1>2. /\ DOMAIN checkOuts' = 1 .. Len(checkOuts') /\ Len(checkOuts') \in Nat
      /\ \A i \in DOMAIN checkOuts' : checkOuts'[i].players \in Nat
  BY RowTypes DEF TypeOK
<1>3. req.copySeen \in Nat /\ req.attendeeSeen \in Nat
  BY DEF Request
<1>4. CopyLookup(req)'
  BY <1>1, <1>2, <1>3 DEF Sound, CopyLookup, Grows
<1>5. AttendeeLookup(req)'
  BY <1>1, <1>2, <1>3 DEF Sound, AttendeeLookup, Grows
<1>6. ReturnLookup(req)'
  BY <1>1, <1>2, <1>3 DEF Sound, ReturnLookup, Grows, LentTogether
<1>7. EntryLookup(req)'
  BY <1>1, <1>2 DEF Sound, EntryLookup, Grows
<1>8. QED
  BY <1>4, <1>5, <1>6, <1>7 DEF Sound

\* A step in which one handler goes on to q preserves the invariant when q
\* is sound and the rows are.
LEMMA OneHandlerStep ==
    ASSUME LoanInv, TypeOK', RowInv', Grows,
           NEW r \in Requests, NEW q,
           requests' = [requests EXCEPT ![r] = q], Sound(q)'
    PROVE  LoanInv'
<1>1. requests \in [Requests -> Request]
  BY DEF LoanInv, TypeOK
<1>2. ASSUME NEW s \in Requests PROVE Sound(requests[s])'
  <2>1. PICK after : after = requests'[s]
    OBVIOUS
  <2>2. Sound(after)'
    <3>1. CASE s = r
      BY <1>1, <2>1, <3>1
    <3>2. CASE s # r
      <4>1. after = requests[s] /\ after \in Request
        BY <1>1, <2>1, <3>2
      <4>2. Sound(after)
        BY <4>1 DEF LoanInv
      <4>3. QED
        BY <4>1, <4>2, SoundPersists DEF LoanInv
    <3>3. QED
      BY <3>1, <3>2
  <2>3. QED
    BY <2>1, <2>2
<1>3. QED
  BY <1>2 DEF LoanInv

\* The same for a step that writes no row.
LEMMA ReadStep ==
    ASSUME LoanInv, NEW r \in Requests, NEW q \in Request,
           requests' = [requests EXCEPT ![r] = q], Sound(q)',
           checkOuts' = checkOuts, received' \in Nat
    PROVE  LoanInv'
<1>1. TypeOK'
  BY DEF LoanInv, TypeOK
<1>2. \A i \in DOMAIN checkOuts : checkOuts[i].players \in Nat
  BY RowTypes DEF LoanInv, TypeOK
<1>3. Grows
  BY <1>2, RowTypes DEF LoanInv, TypeOK, Grows, Open
<1>4. RowInv'
  BY DEF LoanInv, RowInv, DoubleLoansOverlap, LimitBreaksOverlap,
     EntriesFollowReturn, Open
<1>5. QED
  BY <1>1, <1>3, <1>4, OneHandlerStep

\* A handler that has settled relies on nothing.
LEMMA IdleSound == Idle \in Request /\ Sound(Idle) /\ Sound(Idle)'
  BY DEF Idle, Request, PCs, Null, None, Sound, CopyLookup, AttendeeLookup,
     ReturnLookup, EntryLookup

\* A handler that has just begun relies on nothing.
LEMMA StartSound ==
    ASSUME NEW q, q.pc \notin {"readAttendee", "create", "update", "addPlayers", "submit"}
    PROVE  Sound(q) /\ Sound(q)'
  BY DEF Sound, CopyLookup, AttendeeLookup, ReturnLookup, EntryLookup

LEMMA SettleStep ==
    ASSUME LoanInv, NEW r \in Requests, Settle(r),
           checkOuts' = checkOuts, received' = received
    PROVE  LoanInv'
<1>1. received \in Nat
  BY DEF LoanInv, TypeOK
<1>2. QED
  BY <1>1, IdleSound, ReadStep DEF Settle

-----------------------------------------------------------------------------
(* One lemma for each action.                                              *)

LEMMA BeginInv ==
    ASSUME LoanInv, NEW r \in Requests, NEW q \in Request, Begin(r, q),
           q.pc \notin {"readAttendee", "create", "update", "addPlayers", "submit"}
    PROVE  LoanInv'
<1>1. received' \in Nat
  BY DEF LoanInv, TypeOK, Begin
<1>2. Sound(q)'
  BY StartSound
<1>3. QED
  BY <1>1, <1>2, ReadStep DEF Begin

LEMMA ReceiveInv ==
    ASSUME LoanInv, NEW r \in Requests, Receive(r)
    PROVE  LoanInv'
<1>1. CASE ReceiveCheckOut(r)
  <2>1. PICK entry \in {"legacyAttendee", "readCopy"}, c \in Copies \cup {None},
             a \in Attendees \cup {None}, o \in BOOLEAN :
             Begin(r, [Idle EXCEPT !.pc = entry, !.copy = c, !.attendee = a, !.override = o])
    BY <1>1 DEF ReceiveCheckOut
  <2> DEFINE q == [Idle EXCEPT !.pc = entry, !.copy = c, !.attendee = a, !.override = o]
  <2>2. q \in Request /\ q.pc = entry
    BY DEF Idle, Request, PCs, Null
  <2>3. QED
    BY <2>1, <2>2, BeginInv
<1>2. CASE ReceiveCheckIn(r)
  <2>1. PICK c \in Copies \cup {None} :
             Begin(r, [Idle EXCEPT !.pc = "readReturned", !.copy = c])
    BY <1>2 DEF ReceiveCheckIn
  <2> DEFINE q == [Idle EXCEPT !.pc = "readReturned", !.copy = c]
  <2>2. q \in Request /\ q.pc = "readReturned"
    BY DEF Idle, Request, PCs, Null
  <2>3. QED
    BY <2>1, <2>2, BeginInv
<1>3. CASE ReceivePrizeEntry(r)
  <2>1. PICK i \in 1 .. (Len(checkOuts) + 1), n \in Parties :
             Begin(r, [Idle EXCEPT !.pc = "readEntry", !.row = i, !.party = n])
    BY <1>3 DEF ReceivePrizeEntry
  <2> DEFINE q == [Idle EXCEPT !.pc = "readEntry", !.row = i, !.party = n]
  <2>2. i \in Nat /\ n \in Nat
    BY LibraryAssumption, RowTypes DEF LoanInv, TypeOK
  <2>3. q \in Request /\ q.pc = "readEntry"
    BY <2>2 DEF Idle, Request, PCs, Null
  <2>4. QED
    BY <2>1, <2>3, BeginInv
<1>4. QED
  BY <1>1, <1>2, <1>3 DEF Receive

LEMMA LegacyInv ==
    ASSUME LoanInv, NEW r \in Requests, LegacyAttendee(r) \/ LegacyCopy(r)
    PROVE  LoanInv'
<1>1. requests \in [Requests -> Request] /\ received \in Nat
  BY DEF LoanInv, TypeOK, LegacyAttendee, LegacyCopy
<1>2. ASSUME NEW pc \in {"legacyCopy", "readCopy"}, Goto(r, pc) PROVE LoanInv'
  <2>1. PICK q : q = [requests[r] EXCEPT !.pc = pc]
    OBVIOUS
  <2>2. q \in Request /\ q.pc = pc
    BY <1>1, <2>1 DEF Request, PCs
  <2>3. Sound(q)'
    BY <2>2, StartSound
  <2>4. QED
    BY <1>1, <1>2, <2>1, <2>2, <2>3, ReadStep DEF Goto, LegacyAttendee, LegacyCopy
<1>3. QED
  BY <1>2, SettleStep DEF LegacyAttendee, LegacyCopy

LEMMA ReadCopyInv ==
    ASSUME LoanInv, NEW r \in Requests, ReadCopy(r)
    PROVE  LoanInv'
<1>1. requests \in [Requests -> Request] /\ received \in Nat
  BY DEF LoanInv, TypeOK, ReadCopy
<1>2. CASE Settle(r)
  BY <1>2, SettleStep DEF ReadCopy
<1>3. CASE /\ requests[r].copy # None
           /\ OpenOfCopy(requests[r].copy) = {}
           /\ requests' = [requests EXCEPT ![r].pc = "readAttendee",
                                           ![r].copySeen = Len(checkOuts)]
  <2>1. PICK q : q = [requests[r] EXCEPT !.pc = "readAttendee", !.copySeen = Len(checkOuts)]
    OBVIOUS
  <2>2. /\ q \in Request /\ q.pc = "readAttendee"
        /\ q.copySeen = Len(checkOuts) /\ q.copy = requests[r].copy
        /\ requests' = [requests EXCEPT ![r] = q]
    BY <1>1, <1>3, <2>1, RowTypes DEF Request, PCs, LoanInv, TypeOK
  <2>3. q.copy \in Copies
    BY <1>3, <2>2 DEF Request
  <2>4. CopyLookup(q)'
    BY <1>3, <2>2, <2>3, RowTypes DEF CopyLookup, OpenOfCopy, ReadCopy, Open, LoanInv, TypeOK
  <2>5. Sound(q)'
    BY <2>2, <2>4 DEF Sound, AttendeeLookup, ReturnLookup, EntryLookup
  <2>6. QED
    BY <1>1, <2>2, <2>5, ReadStep DEF ReadCopy
<1>4. QED
  BY <1>2, <1>3 DEF ReadCopy

LEMMA ReadAttendeeInv ==
    ASSUME LoanInv, NEW r \in Requests, ReadAttendee(r)
    PROVE  LoanInv'
<1>1. /\ requests \in [Requests -> Request] /\ received \in Nat
      /\ Len(checkOuts) \in Nat
      /\ checkOuts' = checkOuts /\ received' = received
      /\ requests[r] \in Request
  BY RowTypes DEF LoanInv, TypeOK, ReadAttendee
<1>2. CASE Settle(r)
  BY <1>1, <1>2, SettleStep
<1>3. ASSUME requests[r].attendee # None, ~OverLimit(requests[r]), NEW t \in Dates,
             requests' = [requests EXCEPT ![r].pc = "create", ![r].stamp = t,
                                          ![r].attendeeSeen = Len(checkOuts)]
      PROVE  LoanInv'
  <2>1. PICK q : q = [requests[r] EXCEPT !.pc = "create", !.stamp = t,
                                         !.attendeeSeen = Len(checkOuts)]
    OBVIOUS
  <2> t \in Nat
    BY LibraryAssumption
  <2>2. /\ q \in Request /\ q.pc = "create"
        /\ q.attendeeSeen = Len(checkOuts) /\ q.attendee = requests[r].attendee
        /\ q.copy = requests[r].copy /\ q.copySeen = requests[r].copySeen
        /\ q.override = requests[r].override
    BY <1>1, <2>1 DEF Request, PCs
  <2>3. q.attendee \in Attendees
    BY <1>1, <1>3, <2>2 DEF Request
  <2>4. requests' = [requests EXCEPT ![r] = q]
    BY <1>1, <1>3, <2>1
  <2>5. CopyLookup(q)'
    <3>1. requests[r].pc = "readAttendee" /\ CopyLookup(requests[r])
      BY DEF ReadAttendee, LoanInv, Sound
    <3>2. QED
      BY <1>1, <2>2, <3>1 DEF CopyLookup, Open
  <2>6. ~q.override => OpenOfAttendee(q.attendee) = {}
    BY <1>3, <2>2 DEF OverLimit
  <2>7. AttendeeLookup(q)'
    BY <1>1, <1>3, <2>2, <2>3, <2>6
       DEF AttendeeLookup, OpenOfAttendee, Open
  <2>8. Sound(q)'
    BY <2>2, <2>5, <2>7 DEF Sound, ReturnLookup, EntryLookup
  <2>9. QED
    BY <1>1, <1>3, <2>2, <2>4, <2>8, ReadStep
<1>4. QED
  BY <1>2, <1>3 DEF ReadAttendee

LEMMA ReadReturnedInv ==
    ASSUME LoanInv, NEW r \in Requests, ReadReturned(r)
    PROVE  LoanInv'
<1>1. /\ requests \in [Requests -> Request] /\ received \in Nat
      /\ checkOuts' = checkOuts /\ received' = received
      /\ requests[r] \in Request
  <2>1. checkOuts' = checkOuts /\ received' = received
    BY DEF ReadReturned
  <2>2. QED
    BY <2>1 DEF LoanInv, TypeOK
<1>2. CASE Settle(r)
  BY <1>1, <1>2, SettleStep
<1>3. ASSUME NEW i \in OpenOfCopy(requests[r].copy), NEW t \in Dates,
             requests' = [requests EXCEPT ![r].pc = "update", ![r].row = i,
                                          ![r].stamp = t, ![r].copySeen = Len(checkOuts)]
      PROVE  LoanInv'
  <2>1. PICK q : q = [requests[r] EXCEPT !.pc = "update", !.row = i, !.stamp = t,
                                         !.copySeen = Len(checkOuts)]
    OBVIOUS
  <2>2. /\ i \in DOMAIN checkOuts /\ i \in Nat /\ Open(i)
        /\ t \in Nat /\ t # Null
        /\ DOMAIN checkOuts = 1 .. Len(checkOuts) /\ Len(checkOuts) \in Nat
    BY LibraryAssumption, RowTypes DEF OpenOfCopy, LoanInv, TypeOK, Null
  <2>3. requests' = [requests EXCEPT ![r] = q]
    BY <1>1, <1>3, <2>1
  <2>4. /\ q \in Request /\ q.pc = "update" /\ q.stamp = t /\ q.row = i
        /\ q.copySeen = Len(checkOuts)
    BY <1>1, <2>1, <2>2 DEF Request, PCs
  <2>5. ASSUME NEW j \in DOMAIN checkOuts, j # i,
               checkOuts[j].copy = checkOuts[i].copy, Open(j)
        PROVE  LentTogether(i, j)
    BY <2>2, <2>5 DEF LentTogether, LoanInv, RowInv, DoubleLoansOverlap
  <2>6. ReturnLookup(q)
    BY <2>2, <2>4, <2>5 DEF ReturnLookup
  <2>7. ReturnLookup(q)'
    BY <1>1, <2>6 DEF ReturnLookup, Open, LentTogether
  <2>8. Sound(q)'
    BY <2>4, <2>7 DEF Sound, CopyLookup, AttendeeLookup, EntryLookup
  <2>9. QED
    BY <1>1, <2>3, <2>4, <2>8, ReadStep
<1>4. QED
  BY <1>2, <1>3 DEF ReadReturned

LEMMA ReadEntryInv ==
    ASSUME LoanInv, NEW r \in Requests, ReadEntry(r)
    PROVE  LoanInv'
<1>1. requests \in [Requests -> Request] /\ received \in Nat
  BY DEF LoanInv, TypeOK, ReadEntry
<1>2. CASE Settle(r)
  BY <1>2, SettleStep DEF ReadEntry
<1>3. CASE Acceptable(requests[r]) /\ Goto(r, "addPlayers")
  <2>1. PICK q : q = [requests[r] EXCEPT !.pc = "addPlayers"]
    OBVIOUS
  <2>2. /\ q \in Request /\ q.pc = "addPlayers"
        /\ q.row = requests[r].row /\ q.party = requests[r].party
        /\ requests' = [requests EXCEPT ![r] = q]
    BY <1>1, <1>3, <2>1 DEF Request, PCs, Goto
  <2>3. q.row \in DOMAIN checkOuts /\ ~Open(q.row) /\ q.party > 0
    BY <1>3, <2>2 DEF Acceptable, Request
  <2>4. EntryLookup(q)'
    BY <2>2, <2>3 DEF EntryLookup, ReadEntry, Open
  <2>5. Sound(q)'
    BY <2>2, <2>4 DEF Sound, CopyLookup, AttendeeLookup, ReturnLookup
  <2>6. QED
    BY <1>1, <2>2, <2>5, ReadStep DEF ReadEntry
<1>4. QED
  BY <1>2, <1>3 DEF ReadEntry

LEMMA CreateCheckOutInv ==
    ASSUME LoanInv, NEW r \in Requests, CreateCheckOut(r)
    PROVE  LoanInv'
<1>1. PICK req : req = requests[r]
  OBVIOUS
<1>2. /\ req \in Request /\ Sound(req) /\ req.pc = "create"
      /\ received' = received
      /\ requests' = [requests EXCEPT ![r] = Idle]
  BY <1>1 DEF LoanInv, TypeOK, CreateCheckOut, Settle
<1>3. /\ CopyLookup(req) /\ AttendeeLookup(req)
      /\ req.copy \in Copies /\ req.attendee \in Attendees
      /\ req.copySeen \in Nat /\ req.attendeeSeen \in Nat /\ req.stamp \in Nat
      /\ req.override \in BOOLEAN
  BY <1>2 DEF Sound, CopyLookup, AttendeeLookup, Request
<1>4. PICK row :
        row = [copy |-> req.copy, attendee |-> req.attendee,
               checkOut |-> req.stamp, checkIn |-> Null,
               submitted |-> FALSE, players |-> 0,
               copySeen |-> req.copySeen, attendeeSeen |-> req.attendeeSeen,
               override |-> req.override]
  OBVIOUS
<1>5. row \in CheckOut
  BY <1>3, <1>4 DEF CheckOut, Null
<1>6. checkOuts' = Append(checkOuts, row)
  BY <1>1, <1>4 DEF CreateCheckOut
<1>7. checkOuts \in Seq(CheckOut) /\ checkOuts' \in Seq(CheckOut)
  BY <1>5, <1>6 DEF LoanInv, TypeOK
<1>8. PICK n \in Nat : n = Len(checkOuts)
  BY <1>7
<1>9. /\ DOMAIN checkOuts = 1 .. n /\ DOMAIN checkOuts' = 1 .. (n + 1)
      /\ Len(checkOuts') = n + 1
      /\ checkOuts'[n + 1] = row
      /\ \A i \in 1 .. n : checkOuts'[i] = checkOuts[i]
  BY <1>6, <1>7, <1>8
<1>10. TypeOK'
  BY <1>2, <1>7, IdleSound DEF LoanInv, TypeOK
<1>11. \A i \in 1 .. n : checkOuts[i].players \in Nat /\ (Open(i)' <=> Open(i))
  BY <1>7, <1>9, RowTypes DEF Open
<1>12. Grows
  BY <1>2, <1>8, <1>9, <1>11 DEF Grows
<1>13. DoubleLoansOverlap'
  <2> SUFFICES ASSUME NEW i \in 1 .. (n + 1), NEW j \in 1 .. (n + 1), i < j,
                      checkOuts'[i].copy = checkOuts'[j].copy, Open(i)'
               PROVE  checkOuts'[j].copySeen < i
    BY <1>9 DEF DoubleLoansOverlap
  <2>1. i \in 1 .. n /\ Open(i) /\ checkOuts'[i] = checkOuts[i]
    BY <1>9, <1>11
  <2>2. CASE j = n + 1
    BY <1>2, <1>3, <1>4, <1>9, <2>1, <2>2 DEF CopyLookup
  <2>3. CASE j # n + 1
    BY <1>9, <2>1, <2>3 DEF LoanInv, RowInv, DoubleLoansOverlap
  <2>4. QED
    BY <2>2, <2>3
<1>14. LimitBreaksOverlap'
  <2> SUFFICES ASSUME NEW i \in 1 .. (n + 1), NEW j \in 1 .. (n + 1), i < j,
                      checkOuts'[i].attendee = checkOuts'[j].attendee, Open(i)',
                      ~checkOuts'[j].override
               PROVE  checkOuts'[j].attendeeSeen < i
    BY <1>9 DEF LimitBreaksOverlap
  <2>1. i \in 1 .. n /\ Open(i) /\ checkOuts'[i] = checkOuts[i]
    BY <1>9, <1>11
  <2>2. CASE j = n + 1
    BY <1>2, <1>3, <1>4, <1>9, <2>1, <2>2 DEF AttendeeLookup
  <2>3. CASE j # n + 1
    BY <1>9, <2>1, <2>3 DEF LoanInv, RowInv, LimitBreaksOverlap
  <2>4. QED
    BY <2>2, <2>3
<1>15. EntriesFollowReturn'
  BY <1>4, <1>9, <1>11 DEF LoanInv, RowInv, EntriesFollowReturn
<1>16. QED
  BY <1>2, <1>10, <1>12, <1>13, <1>14, <1>15, IdleSound,
     OneHandlerStep DEF RowInv

\* A write to one existing row that keeps its loan and its history, never
\* reopens it and never takes players away.
LEMMA RowWrite ==
    ASSUME LoanInv, NEW k \in DOMAIN checkOuts, NEW row \in CheckOut,
           checkOuts' = [checkOuts EXCEPT ![k] = row],
           row.copy = checkOuts[k].copy, row.attendee = checkOuts[k].attendee,
           row.copySeen = checkOuts[k].copySeen,
           row.attendeeSeen = checkOuts[k].attendeeSeen,
           row.override = checkOuts[k].override,
           ~Open(k) => row.checkIn # Null,
           checkOuts[k].players <= row.players
    PROVE  /\ checkOuts' \in Seq(CheckOut)
           /\ DOMAIN checkOuts' = DOMAIN checkOuts
           /\ checkOuts'[k] = row
           /\ \A i \in DOMAIN checkOuts : i # k => checkOuts'[i] = checkOuts[i]
           /\ Grows
           /\ DoubleLoansOverlap' /\ LimitBreaksOverlap'
<1>1. checkOuts \in Seq(CheckOut)
  BY DEF LoanInv, TypeOK
<1>2. checkOuts' \in Seq(CheckOut) /\ Len(checkOuts') = Len(checkOuts)
  BY <1>1
<1>3. /\ DOMAIN checkOuts' = DOMAIN checkOuts /\ checkOuts'[k] = row
      /\ \A i \in DOMAIN checkOuts : i # k => checkOuts'[i] = checkOuts[i]
  BY <1>1
<1>4. \A i \in DOMAIN checkOuts : checkOuts[i].players \in Nat
  BY <1>1, RowTypes
<1>5. Grows
  BY <1>1, <1>2, <1>3, <1>4, RowTypes DEF Grows, Open
<1>6. \A i \in DOMAIN checkOuts :
        /\ Open(i)' => Open(i)
        /\ checkOuts'[i].copy = checkOuts[i].copy
        /\ checkOuts'[i].attendee = checkOuts[i].attendee
        /\ checkOuts'[i].copySeen = checkOuts[i].copySeen
        /\ checkOuts'[i].attendeeSeen = checkOuts[i].attendeeSeen
        /\ checkOuts'[i].override = checkOuts[i].override
  BY <1>3 DEF Open
<1>7. DoubleLoansOverlap'
  BY <1>3, <1>6 DEF LoanInv, RowInv, DoubleLoansOverlap
<1>8. LimitBreaksOverlap'
  BY <1>3, <1>6 DEF LoanInv, RowInv, LimitBreaksOverlap
<1>9. QED
  BY <1>2, <1>3, <1>5, <1>7, <1>8

LEMMA UpdateCheckInInv ==
    ASSUME LoanInv, NEW r \in Requests, UpdateCheckIn(r)
    PROVE  LoanInv'
<1>1. PICK k, t : k = requests[r].row /\ t = requests[r].stamp
  OBVIOUS
<1>2. /\ received' = received
      /\ requests' = [requests EXCEPT ![r] = Idle]
      /\ requests[r].pc = "update"
      /\ requests[r] \in Request /\ Sound(requests[r])
  BY DEF LoanInv, TypeOK, UpdateCheckIn, Settle
<1>3. k \in DOMAIN checkOuts /\ t # Null /\ t \in Nat
  BY <1>1, <1>2 DEF Sound, ReturnLookup, Request
<1>4. PICK row : row = [checkOuts[k] EXCEPT !.checkIn = t]
  OBVIOUS
<1>5. checkOuts \in Seq(CheckOut) /\ checkOuts[k] \in CheckOut
  BY <1>3, RowTypes DEF LoanInv, TypeOK
<1>6. row \in CheckOut /\ row.checkIn = t
  BY <1>3, <1>4, <1>5 DEF CheckOut
<1>7. checkOuts' = [checkOuts EXCEPT ![k] = row]
  BY <1>1, <1>3, <1>4 DEF UpdateCheckIn
<1>8. /\ row.copy = checkOuts[k].copy /\ row.attendee = checkOuts[k].attendee
      /\ row.copySeen = checkOuts[k].copySeen
      /\ row.attendeeSeen = checkOuts[k].attendeeSeen
      /\ row.override = checkOuts[k].override
      /\ row.players = checkOuts[k].players /\ row.submitted = checkOuts[k].submitted
      /\ checkOuts[k].players <= row.players
  BY <1>4, <1>5 DEF CheckOut
<1>9. /\ checkOuts' \in Seq(CheckOut) /\ DOMAIN checkOuts' = DOMAIN checkOuts
      /\ checkOuts'[k] = row
      /\ \A i \in DOMAIN checkOuts : i # k => checkOuts'[i] = checkOuts[i]
      /\ Grows /\ DoubleLoansOverlap' /\ LimitBreaksOverlap'
  BY <1>2, <1>3, <1>6, <1>7, <1>8, RowWrite
<1>10. EntriesFollowReturn'
  BY <1>3, <1>6, <1>8, <1>9 DEF LoanInv, RowInv, EntriesFollowReturn, Open
<1>11. TypeOK'
  BY <1>2, <1>9, IdleSound DEF LoanInv, TypeOK
<1>12. QED
  BY <1>2, <1>9, <1>10, <1>11, IdleSound, OneHandlerStep DEF RowInv

LEMMA AddPlayersInv ==
    ASSUME LoanInv, NEW r \in Requests, AddPlayers(r)
    PROVE  LoanInv'
<1>1. PICK k, n : k = requests[r].row /\ n = requests[r].party
  OBVIOUS
<1>2. PICK q : q = [requests[r] EXCEPT !.pc = "submit"]
  OBVIOUS
<1>3. /\ received' = received
      /\ requests' = [requests EXCEPT ![r] = q]
      /\ requests[r].pc = "addPlayers"
      /\ requests[r] \in Request /\ Sound(requests[r])
  BY <1>2 DEF LoanInv, TypeOK, AddPlayers, Goto
<1>4. q \in Request /\ q.pc = "submit" /\ q.row = k
  BY <1>1, <1>2, <1>3 DEF Request, PCs
<1>5. k \in DOMAIN checkOuts /\ ~Open(k) /\ n > 0 /\ n \in Nat
  BY <1>1, <1>3 DEF Sound, EntryLookup, Request
<1>6. checkOuts \in Seq(CheckOut) /\ checkOuts[k] \in CheckOut /\ checkOuts[k].players \in Nat
  BY <1>5, RowTypes DEF LoanInv, TypeOK
<1>7. PICK total \in Nat : total = checkOuts[k].players + n
  BY <1>5, <1>6
<1>8. PICK row : row = [checkOuts[k] EXCEPT !.players = total]
  OBVIOUS
<1>9. row \in CheckOut /\ row.players > 0 /\ checkOuts[k].players <= row.players
  <2>1. row \in CheckOut /\ row.players = total
    BY <1>6, <1>8 DEF CheckOut
  <2>2. QED
    BY <1>5, <1>6, <1>7, <2>1
<1>10. checkOuts' = [checkOuts EXCEPT ![k] = row]
  BY <1>1, <1>5, <1>7, <1>8 DEF AddPlayers
<1>11. /\ row.copy = checkOuts[k].copy /\ row.attendee = checkOuts[k].attendee
       /\ row.copySeen = checkOuts[k].copySeen
       /\ row.attendeeSeen = checkOuts[k].attendeeSeen
       /\ row.override = checkOuts[k].override /\ row.checkIn = checkOuts[k].checkIn
  BY <1>6, <1>8 DEF CheckOut
<1>12. /\ checkOuts' \in Seq(CheckOut) /\ DOMAIN checkOuts' = DOMAIN checkOuts
       /\ checkOuts'[k] = row
       /\ \A i \in DOMAIN checkOuts : i # k => checkOuts'[i] = checkOuts[i]
       /\ Grows /\ DoubleLoansOverlap' /\ LimitBreaksOverlap'
  BY <1>3, <1>5, <1>9, <1>10, <1>11, RowWrite DEF Open
<1>13. EntriesFollowReturn'
  BY <1>5, <1>9, <1>11, <1>12 DEF LoanInv, RowInv, EntriesFollowReturn, Open
<1>14. TypeOK'
  BY <1>3, <1>4, <1>12 DEF LoanInv, TypeOK
<1>15. EntryLookup(q)'
  BY <1>4, <1>5, <1>9, <1>11, <1>12 DEF EntryLookup, Open
<1>16. Sound(q)'
  BY <1>4, <1>15 DEF Sound, CopyLookup, AttendeeLookup, ReturnLookup
<1>17. QED
  BY <1>3, <1>12, <1>13, <1>14, <1>16, OneHandlerStep DEF RowInv

LEMMA SubmitInv ==
    ASSUME LoanInv, NEW r \in Requests, Submit(r)
    PROVE  LoanInv'
<1>1. PICK k : k = requests[r].row
  OBVIOUS
<1>2. /\ received' = received
      /\ requests' = [requests EXCEPT ![r] = Idle]
      /\ requests[r].pc = "submit"
      /\ requests[r] \in Request /\ Sound(requests[r])
  BY DEF LoanInv, TypeOK, Submit, Settle
<1>3. k \in DOMAIN checkOuts /\ ~Open(k) /\ checkOuts[k].players > 0
  BY <1>1, <1>2 DEF Sound, EntryLookup
<1>4. PICK row : row = [checkOuts[k] EXCEPT !.submitted = TRUE]
  OBVIOUS
<1>5. checkOuts \in Seq(CheckOut) /\ checkOuts[k] \in CheckOut /\ checkOuts[k].players \in Nat
  BY <1>3, RowTypes DEF LoanInv, TypeOK
<1>6. row \in CheckOut
  BY <1>4, <1>5 DEF CheckOut
<1>7. checkOuts' = [checkOuts EXCEPT ![k] = row]
  BY <1>1, <1>3, <1>4 DEF Submit
<1>8. /\ row.copy = checkOuts[k].copy /\ row.attendee = checkOuts[k].attendee
      /\ row.copySeen = checkOuts[k].copySeen
      /\ row.attendeeSeen = checkOuts[k].attendeeSeen
      /\ row.override = checkOuts[k].override /\ row.checkIn = checkOuts[k].checkIn
      /\ row.players = checkOuts[k].players /\ checkOuts[k].players <= row.players
  BY <1>4, <1>5 DEF CheckOut
<1>9. /\ checkOuts' \in Seq(CheckOut) /\ DOMAIN checkOuts' = DOMAIN checkOuts
      /\ checkOuts'[k] = row
      /\ \A i \in DOMAIN checkOuts : i # k => checkOuts'[i] = checkOuts[i]
      /\ Grows /\ DoubleLoansOverlap' /\ LimitBreaksOverlap'
  BY <1>2, <1>3, <1>6, <1>7, <1>8, RowWrite DEF Open
<1>10. EntriesFollowReturn'
  BY <1>3, <1>8, <1>9 DEF LoanInv, RowInv, EntriesFollowReturn, Open
<1>11. TypeOK'
  BY <1>2, <1>9, IdleSound DEF LoanInv, TypeOK
<1>12. QED
  BY <1>2, <1>9, <1>10, <1>11, IdleSound, OneHandlerStep DEF RowInv

-----------------------------------------------------------------------------
(* The invariance theorems.                                                *)

LEMMA InitInv == Init => LoanInv
<1> SUFFICES ASSUME Init PROVE LoanInv
  OBVIOUS
<1>1. TypeOK
  BY IdleSound DEF Init, TypeOK
<1>2. RowInv
  BY DEF Init, RowInv, DoubleLoansOverlap, LimitBreaksOverlap,
     EntriesFollowReturn
<1>3. QED
  BY <1>1, <1>2, IdleSound DEF Init, LoanInv

LEMMA StutterInv == LoanInv /\ UNCHANGED vars => LoanInv'
<1> SUFFICES ASSUME LoanInv, UNCHANGED vars PROVE LoanInv'
  OBVIOUS
<1>1. checkOuts' = checkOuts /\ requests' = requests /\ received' = received
  BY DEF vars
<1>2. TypeOK'
  BY <1>1 DEF LoanInv, TypeOK
<1>3. RowInv'
  BY <1>1 DEF LoanInv, RowInv, DoubleLoansOverlap, LimitBreaksOverlap,
     EntriesFollowReturn, Open
<1>4. ASSUME NEW r \in Requests PROVE Sound(requests[r])'
  <2>1. Sound(requests[r])
    BY DEF LoanInv
  <2>2. QED
    BY <1>1, <2>1 DEF Sound, CopyLookup, AttendeeLookup, ReturnLookup, EntryLookup, LentTogether,
       Open
<1>5. QED
  BY <1>2, <1>3, <1>4 DEF LoanInv

LEMMA NextInv == LoanInv /\ [Next]_vars => LoanInv'
<1> SUFFICES ASSUME LoanInv, [Next]_vars PROVE LoanInv'
  OBVIOUS
<1>1. ASSUME NEW r \in Requests, Receive(r) PROVE LoanInv'
  BY <1>1, ReceiveInv
<1>2. ASSUME NEW r \in Requests, Step(r) PROVE LoanInv'
  BY <1>2, LegacyInv, ReadCopyInv, ReadAttendeeInv, CreateCheckOutInv,
     ReadReturnedInv, UpdateCheckInInv, ReadEntryInv, AddPlayersInv, SubmitInv DEF Step
<1>3. ASSUME NEW r \in Requests, Fail(r) PROVE LoanInv'
  BY <1>3, SettleStep DEF Fail, Reject
<1>4. CASE UNCHANGED vars
  BY <1>4, StutterInv
<1>5. QED
  BY <1>1, <1>2, <1>3, <1>4 DEF Next, Quiet

(***************************************************************************)
(* The inductive invariant holds in every reachable state of the desk.     *)
(***************************************************************************)
THEOREM LoanInvariance == Spec => []LoanInv
  BY InitInv, NextInv, PTL DEF Spec

(***************************************************************************)
(* Every table and every handler of the desk stays of its type.            *)
(***************************************************************************)
THEOREM TypeCorrectness == Spec => []TypeOK
<1>1. LoanInv => TypeOK
  BY DEF LoanInv
<1>2. QED
  BY <1>1, LoanInvariance, PTL

(***************************************************************************)
(* Two loans of one copy are out together only when their check-outs       *)
(* overlapped, for any number of concurrent handlers.                      *)
(***************************************************************************)
THEOREM DoubleLoansNeedOverlap == Spec => []DoubleLoansOverlap
<1>1. LoanInv => DoubleLoansOverlap
  BY DEF LoanInv, RowInv
<1>2. QED
  BY <1>1, LoanInvariance, PTL

(***************************************************************************)
(* The limit of one game per attendee is broken without overrideLimit only *)
(* by check-outs that overlapped.                                          *)
(***************************************************************************)
THEOREM LimitBreaksNeedOverlap == Spec => []LimitBreaksOverlap
<1>1. LoanInv => LimitBreaksOverlap
  BY DEF LoanInv, RowInv
<1>2. QED
  BY <1>1, LoanInvariance, PTL

(***************************************************************************)
(* Players and the submitted mark are written only to a loan that is back, *)
(* the mark only after players, whatever is retried or interrupted.        *)
(***************************************************************************)
THEOREM EntriesAfterReturn == Spec => []EntriesFollowReturn
<1>1. LoanInv => EntriesFollowReturn
  BY DEF LoanInv, RowInv
<1>2. QED
  BY <1>1, LoanInvariance, PTL

-----------------------------------------------------------------------------
(* One request at a time.                                                  *)

\* With a single handler nothing it has read is stale.
FreshRequest(req) ==
    /\ req.pc \in {"readAttendee", "create"} => req.copySeen = Len(checkOuts)
    /\ req.pc = "create" => req.attendeeSeen = Len(checkOuts)
    /\ req.pc = "update" => Open(req.row)

FreshRows ==
    \A i \in DOMAIN checkOuts :
        checkOuts[i].copySeen = i - 1 /\ checkOuts[i].attendeeSeen = i - 1

FreshInv == FreshRows /\ \A r \in Requests : FreshRequest(requests[r])

LEMMA FreshInit == Init => FreshInv
  BY DEF Init, FreshInv, FreshRows, FreshRequest, Idle

LEMMA FreshSettle ==
    ASSUME Serial, LoanInv, NEW r \in Requests, Settle(r), FreshRows'
    PROVE  FreshInv'
<1>1. \A s \in Requests : requests'[s] = Idle
  BY DEF Serial, Settle, LoanInv, TypeOK
<1>2. QED
  BY <1>1 DEF FreshInv, FreshRequest, Idle

LEMMA FreshGoto ==
    ASSUME Serial, LoanInv, NEW r \in Requests, NEW q,
           requests' = [requests EXCEPT ![r] = q], FreshRequest(q)', FreshRows'
    PROVE  FreshInv'
<1>1. \A s \in Requests : requests'[s] = q
  BY DEF Serial, LoanInv, TypeOK
<1>2. QED
  BY <1>1 DEF FreshInv, FreshRequest

LEMMA GotoRecord ==
    ASSUME LoanInv, NEW r \in Requests, NEW pc, Goto(r, pc)
    PROVE  \E q : requests' = [requests EXCEPT ![r] = q] /\ q.pc = pc
<1>1. PICK q : q = [requests[r] EXCEPT !.pc = pc]
  OBVIOUS
<1>2. q.pc = pc
  BY <1>1 DEF LoanInv, TypeOK, Request
<1>3. requests' = [requests EXCEPT ![r] = q]
  BY <1>1 DEF Goto
<1>4. QED
  BY <1>2, <1>3

LEMMA FreshBegin ==
    ASSUME Serial, LoanInv, FreshInv, NEW r \in Requests, Receive(r)
    PROVE  FreshInv'
<1>1. PICK q : /\ Begin(r, q)
               /\ q.pc \notin {"readAttendee", "create", "update"}
  <2>1. Idle.pc = "idle" /\ Idle \in Request
    BY IdleSound DEF Idle
  <2>2. \A entry, c, a, o :
            [Idle EXCEPT !.pc = entry, !.copy = c, !.attendee = a, !.override = o].pc = entry
    BY DEF Idle
  <2>3. \A c : [Idle EXCEPT !.pc = "readReturned", !.copy = c].pc = "readReturned"
    BY DEF Idle
  <2>4. \A i, n : [Idle EXCEPT !.pc = "readEntry", !.row = i, !.party = n].pc = "readEntry"
    BY DEF Idle
  <2>5. CASE ReceiveCheckOut(r)
    <3>1. PICK entry \in {"legacyAttendee", "readCopy"}, c \in Copies \cup {None},
               a \in Attendees \cup {None}, o \in BOOLEAN :
            Begin(r, [Idle EXCEPT !.pc = entry, !.copy = c, !.attendee = a, !.override = o])
      BY <2>5 DEF ReceiveCheckOut
    <3>2. PICK q : q = [Idle EXCEPT !.pc = entry, !.copy = c, !.attendee = a, !.override = o]
      OBVIOUS
    <3>3. Begin(r, q) /\ q.pc = entry
      BY <2>2, <3>1, <3>2
    <3>4. QED
      BY <3>3
  <2>6. CASE ReceiveCheckIn(r)
    BY <2>3, <2>6 DEF ReceiveCheckIn
  <2>7. CASE ReceivePrizeEntry(r)
    BY <2>4, <2>7 DEF ReceivePrizeEntry
  <2>8. QED
    BY <2>5, <2>6, <2>7 DEF Receive
<1>2. FreshRows'
  BY <1>1 DEF FreshInv, FreshRows, Begin
<1>3. FreshRequest(q)'
  BY <1>1 DEF FreshRequest
<1>4. QED
  BY <1>1, <1>2, <1>3, FreshGoto DEF Begin

LEMMA FreshStep ==
    ASSUME Serial, LoanInv, FreshInv, NEW r \in Requests, Step(r)
    PROVE  FreshInv'
<1>1. requests[r] \in Request /\ FreshRequest(requests[r]) /\ Sound(requests[r])
  BY DEF LoanInv, TypeOK, FreshInv
<1>2. ASSUME checkOuts' = checkOuts PROVE FreshRows'
  BY <1>2 DEF FreshInv, FreshRows
<1>3. CASE LegacyAttendee(r) \/ LegacyCopy(r)
  <2>1. CASE Settle(r)
    BY <1>2, <1>3, <2>1, FreshSettle DEF LegacyAttendee, LegacyCopy
  <2>2. CASE Goto(r, "legacyCopy") \/ Goto(r, "readCopy")
    <3>1. PICK q : /\ requests' = [requests EXCEPT ![r] = q]
                   /\ q.pc \in {"legacyCopy", "readCopy"}
      BY <2>2, GotoRecord
    <3>2. FreshRequest(q)'
      BY <3>1 DEF FreshRequest
    <3>3. QED
      BY <1>2, <1>3, <3>1, <3>2, FreshGoto DEF LegacyAttendee, LegacyCopy
  <2>3. QED
    BY <1>3, <2>1, <2>2 DEF LegacyAttendee, LegacyCopy
<1>4. CASE ReadCopy(r)
  <2>1. CASE Settle(r)
    BY <1>2, <1>4, <2>1, FreshSettle DEF ReadCopy
  <2>2. CASE requests' = [requests EXCEPT ![r].pc = "readAttendee",
                                          ![r].copySeen = Len(checkOuts)]
    <3>1. PICK q : q = [requests[r] EXCEPT !.pc = "readAttendee", !.copySeen = Len(checkOuts)]
      OBVIOUS
    <3>2. q.pc = "readAttendee" /\ q.copySeen = Len(checkOuts)
      BY <1>1, <3>1 DEF Request
    <3>3. checkOuts' = checkOuts /\ requests' = [requests EXCEPT ![r] = q]
      BY <1>4, <2>2, <3>1 DEF ReadCopy, LoanInv, TypeOK
    <3>4. FreshRequest(q)'
      BY <3>2, <3>3 DEF FreshRequest
    <3>5. QED
      BY <1>2, <3>3, <3>4, FreshGoto
  <2>3. QED
    BY <1>4, <2>1, <2>2 DEF ReadCopy
<1>5. CASE ReadAttendee(r)
  <2>1. CASE Settle(r)
    BY <1>2, <1>5, <2>1, FreshSettle DEF ReadAttendee
  <2>2. ASSUME NEW t \in Dates,
               requests' = [requests EXCEPT ![r].pc = "create", ![r].stamp = t,
                                            ![r].attendeeSeen = Len(checkOuts)]
        PROVE  FreshInv'
    <3>1. PICK q : q = [requests[r] EXCEPT !.pc = "create", !.stamp = t,
                                           !.attendeeSeen = Len(checkOuts)]
      OBVIOUS
    <3>2. /\ q.pc = "create" /\ q.attendeeSeen = Len(checkOuts)
          /\ q.copySeen = requests[r].copySeen
      BY <1>1, <3>1 DEF Request
    <3>3. checkOuts' = checkOuts /\ requests' = [requests EXCEPT ![r] = q]
      BY <1>5, <2>2, <3>1 DEF ReadAttendee, LoanInv, TypeOK
    <3>4. requests[r].copySeen = Len(checkOuts)
      BY <1>1, <1>5 DEF FreshRequest, ReadAttendee
    <3>5. FreshRequest(q)'
      BY <3>2, <3>3, <3>4 DEF FreshRequest
    <3>6. QED
      BY <1>2, <3>3, <3>5, FreshGoto
  <2>3. QED
    BY <1>5, <2>1, <2>2 DEF ReadAttendee
<1>6. CASE CreateCheckOut(r)
  <2>1. requests[r].copySeen = Len(checkOuts) /\ requests[r].attendeeSeen = Len(checkOuts)
    BY <1>1, <1>6 DEF FreshRequest, CreateCheckOut
  <2>2. PICK row : /\ checkOuts' = Append(checkOuts, row)
                   /\ row.copySeen = Len(checkOuts) /\ row.attendeeSeen = Len(checkOuts)
    BY <1>6, <2>1 DEF CreateCheckOut
  <2>3. PICK n \in Nat : /\ n = Len(checkOuts) /\ DOMAIN checkOuts = 1 .. n
                         /\ DOMAIN checkOuts' = 1 .. (n + 1) /\ checkOuts'[n + 1] = row
                         /\ \A i \in 1 .. n : checkOuts'[i] = checkOuts[i]
    BY <2>2 DEF LoanInv, TypeOK
  <2>4. FreshRows'
    BY <2>2, <2>3 DEF FreshInv, FreshRows
  <2>5. QED
    BY <1>6, <2>4, FreshSettle DEF CreateCheckOut
<1>7. CASE ReadReturned(r)
  <2>1. CASE Settle(r)
    BY <1>2, <1>7, <2>1, FreshSettle DEF ReadReturned
  <2>2. ASSUME NEW i \in OpenOfCopy(requests[r].copy), NEW t \in Dates,
               requests' = [requests EXCEPT ![r].pc = "update", ![r].row = i,
                                            ![r].stamp = t, ![r].copySeen = Len(checkOuts)]
        PROVE  FreshInv'
    <3>1. PICK q : q = [requests[r] EXCEPT !.pc = "update", !.row = i, !.stamp = t,
                                           !.copySeen = Len(checkOuts)]
      OBVIOUS
    <3>2. q.pc = "update" /\ q.row = i
      BY <1>1, <3>1 DEF Request
    <3>3. checkOuts' = checkOuts /\ requests' = [requests EXCEPT ![r] = q]
      BY <1>7, <2>2, <3>1 DEF ReadReturned, LoanInv, TypeOK
    <3>4. FreshRequest(q)'
      BY <3>2, <3>3 DEF FreshRequest, OpenOfCopy, Open
    <3>5. QED
      BY <1>2, <3>3, <3>4, FreshGoto
  <2>3. QED
    BY <1>7, <2>1, <2>2 DEF ReadReturned
<1>8. CASE ReadEntry(r)
  <2>1. CASE Settle(r)
    BY <1>2, <1>8, <2>1, FreshSettle DEF ReadEntry
  <2>2. CASE Goto(r, "addPlayers")
    <3>1. PICK q : requests' = [requests EXCEPT ![r] = q] /\ q.pc = "addPlayers"
      BY <2>2, GotoRecord
    <3>2. FreshRequest(q)'
      BY <3>1 DEF FreshRequest
    <3>3. QED
      BY <1>2, <1>8, <3>1, <3>2, FreshGoto DEF ReadEntry
  <2>3. QED
    BY <1>8, <2>1, <2>2 DEF ReadEntry
<1>9. CASE UpdateCheckIn(r) \/ AddPlayers(r) \/ Submit(r)
  <2>1. PICK k \in DOMAIN checkOuts : k = requests[r].row
    BY <1>1, <1>9 DEF Sound, ReturnLookup, EntryLookup, UpdateCheckIn, AddPlayers, Submit
  <2>2. PICK row : /\ checkOuts' = [checkOuts EXCEPT ![k] = row]
                   /\ row.copySeen = checkOuts[k].copySeen
                   /\ row.attendeeSeen = checkOuts[k].attendeeSeen
    BY <1>9, <2>1, RowTypes
       DEF UpdateCheckIn, AddPlayers, Submit, LoanInv, TypeOK, CheckOut
  <2>3. FreshRows'
    BY <2>1, <2>2 DEF FreshInv, FreshRows, LoanInv, TypeOK
  <2>4. CASE Settle(r)
    BY <2>3, <2>4, FreshSettle
  <2>5. CASE Goto(r, "submit")
    <3>1. PICK q : requests' = [requests EXCEPT ![r] = q] /\ q.pc = "submit"
      BY <2>5, GotoRecord
    <3>2. FreshRequest(q)'
      BY <3>1 DEF FreshRequest
    <3>3. QED
      BY <2>3, <3>1, <3>2, FreshGoto
  <2>6. QED
    BY <1>9, <2>4, <2>5 DEF UpdateCheckIn, AddPlayers, Submit
<1>10. QED
  BY <1>3, <1>4, <1>5, <1>6, <1>7, <1>8, <1>9 DEF Step

LEMMA FreshNext == Serial /\ LoanInv /\ FreshInv /\ [Next]_vars => FreshInv'
<1> SUFFICES ASSUME Serial, LoanInv, FreshInv, [Next]_vars PROVE FreshInv'
  OBVIOUS
<1>1. ASSUME NEW r \in Requests, Fail(r) PROVE FreshInv'
  BY <1>1, FreshSettle DEF Fail, Reject, FreshInv, FreshRows
<1>2. CASE UNCHANGED vars
  BY <1>2 DEF vars, FreshInv, FreshRows, FreshRequest, Open
<1>3. QED
  BY <1>1, <1>2, FreshBegin, FreshStep DEF Next, Quiet

LEMMA FreshInvariance ==
    ASSUME Serial PROVE Spec => []FreshInv
<1>1. Init => FreshInv
  BY FreshInit
<1>2. LoanInv /\ FreshInv /\ [Next]_vars => FreshInv'
  BY FreshNext
<1>3. QED
  BY <1>1, <1>2, LoanInvariance, PTL DEF Spec

(***************************************************************************)
(* With requests served one at a time a copy has at most one open          *)
(* check-out, as PHYSICAL_LIBRARY_SETUP.md says.                           *)
(***************************************************************************)
THEOREM SerialOneLoanPerCopy ==
    ASSUME Serial PROVE Spec => []OneLoanPerCopy
<1>1. LoanInv /\ FreshInv => OneLoanPerCopy
  <2> SUFFICES ASSUME LoanInv, FreshInv,
                      NEW i \in DOMAIN checkOuts, NEW j \in DOMAIN checkOuts,
                      checkOuts[i].copy = checkOuts[j].copy, Open(i), Open(j), i # j
               PROVE  FALSE
    BY DEF OneLoanPerCopy
  <2>1. i \in Nat /\ j \in Nat
    BY RowTypes DEF LoanInv, TypeOK
  <2>2. /\ i < j => checkOuts[j].copySeen < i
        /\ j < i => checkOuts[i].copySeen < j
    BY DEF LoanInv, RowInv, DoubleLoansOverlap
  <2>3. checkOuts[j].copySeen = j - 1 /\ checkOuts[i].copySeen = i - 1
    BY DEF FreshInv, FreshRows
  <2>4. QED
    BY <2>1, <2>2, <2>3
<1>2. QED
  BY <1>1, LoanInvariance, FreshInvariance, PTL

(***************************************************************************)
(* With requests served one at a time an attendee has a second game only   *)
(* by overrideLimit, as ATTENDEE_BADGE_SETUP.md says.                      *)
(***************************************************************************)
THEOREM SerialOneGamePerAttendee ==
    ASSUME Serial PROVE Spec => []OneGamePerAttendee
<1>1. LoanInv /\ FreshInv => OneGamePerAttendee
  <2> SUFFICES ASSUME LoanInv, FreshInv,
                      NEW i \in DOMAIN checkOuts, NEW j \in DOMAIN checkOuts, i < j,
                      checkOuts[i].attendee = checkOuts[j].attendee, Open(i),
                      ~checkOuts[j].override
               PROVE  FALSE
    BY DEF OneGamePerAttendee
  <2>1. i \in Nat /\ j \in Nat
    BY RowTypes DEF LoanInv, TypeOK
  <2>2. checkOuts[j].attendeeSeen < i
    BY DEF LoanInv, RowInv, LimitBreaksOverlap
  <2>3. checkOuts[j].attendeeSeen = j - 1
    BY DEF FreshInv, FreshRows
  <2>4. QED
    BY <2>1, <2>2, <2>3
<1>2. QED
  BY <1>1, LoanInvariance, FreshInvariance, PTL

(***************************************************************************)
(* With requests served one at a time a loan is checked in once and its    *)
(* date stays, as PHYSICAL_LIBRARY_SETUP.md says.                          *)
(***************************************************************************)
THEOREM SerialReturnedOnce ==
    ASSUME Serial PROVE Spec => ReturnedOnce
<1> DEFINE Kept == \A i \in DOMAIN checkOuts :
                      ~Open(i) => checkOuts'[i].checkIn = checkOuts[i].checkIn
<1>1. LoanInv /\ FreshInv /\ [Next]_vars => [Kept]_vars
  <2> SUFFICES ASSUME LoanInv, FreshInv, Next PROVE Kept
    BY DEF vars
  <2>1. ASSUME checkOuts' = checkOuts PROVE Kept
    BY <2>1
  <2>2. ASSUME NEW r \in Requests, Receive(r) \/ Fail(r) PROVE Kept
    BY <2>1, <2>2 DEF Receive, ReceiveCheckOut, ReceiveCheckIn, ReceivePrizeEntry,
       Begin, Fail, Reject
  <2>3. ASSUME NEW r \in Requests, UpdateCheckIn(r) PROVE Kept
    <3>1. Open(requests[r].row)
      BY <2>3 DEF FreshInv, FreshRequest, UpdateCheckIn
    <3>2. QED
      BY <2>3, <3>1 DEF UpdateCheckIn, LoanInv, TypeOK
  <2>4. ASSUME NEW r \in Requests, CreateCheckOut(r) PROVE Kept
    BY <2>4 DEF CreateCheckOut, LoanInv, TypeOK
  <2>5. ASSUME NEW r \in Requests, AddPlayers(r) \/ Submit(r) PROVE Kept
    <3>1. PICK k : k = requests[r].row
      OBVIOUS
    <3>2. k \in DOMAIN checkOuts /\ checkOuts[k] \in CheckOut
      BY <2>5, <3>1, RowTypes
         DEF LoanInv, TypeOK, Sound, EntryLookup, AddPlayers, Submit
    <3>3. PICK row : /\ checkOuts' = [checkOuts EXCEPT ![k] = row]
                     /\ row.checkIn = checkOuts[k].checkIn
      BY <2>5, <3>1, <3>2 DEF AddPlayers, Submit, CheckOut
    <3>4. QED
      BY <3>2, <3>3 DEF LoanInv, TypeOK
  <2>6. QED
    BY <2>1, <2>2, <2>3, <2>4, <2>5
       DEF Next, Quiet, vars, Step, LegacyAttendee, LegacyCopy, ReadCopy,
           ReadAttendee, ReadReturned, ReadEntry
<1>2. QED
  BY <1>1, LoanInvariance, FreshInvariance, PTL DEF Spec, ReturnedOnce

-----------------------------------------------------------------------------
(* The table of check-outs implements the ledger.                          *)

LEMMA LedgerInit == Init => TheLedger!Init
<1> SUFFICES ASSUME Init PROVE LedgerOfTable = <<>>
  BY DEF TheLedger!Init
<1>1. checkOuts = <<>>
  BY DEF Init
<1>2. DOMAIN checkOuts = {}
  BY <1>1
<1>3. LedgerOfTable = [i \in {} |-> LoanOf(i)]
  BY <1>2 DEF LedgerOfTable
<1>4. QED
  BY <1>3

LEMMA LedgerSame ==
    ASSUME checkOuts' = checkOuts
    PROVE  UNCHANGED LedgerOfTable
  BY DEF LedgerOfTable, LoanOf, Phase, Open, Raced

LEMMA LedgerWrite ==
    ASSUME LoanInv, NEW k \in DOMAIN checkOuts, NEW row,
           checkOuts' = [checkOuts EXCEPT ![k] = row],
           row.copy = checkOuts[k].copy, row.attendee = checkOuts[k].attendee,
           row.copySeen = checkOuts[k].copySeen
    PROVE  /\ k \in DOMAIN LedgerOfTable
           /\ LedgerOfTable[k].phase = Phase(k)
           /\ LedgerOfTable' = [LedgerOfTable EXCEPT ![k].phase = Phase(k)']
           /\ Phase(k)' = Phase(k) => UNCHANGED LedgerOfTable
<1>1. /\ DOMAIN checkOuts' = DOMAIN checkOuts
      /\ \A i \in DOMAIN checkOuts : checkOuts'[i] = IF i = k THEN row ELSE checkOuts[i]
  BY DEF LoanInv, TypeOK
<1>2. \A i \in DOMAIN checkOuts : Raced(i)' = Raced(i)
  <2>1. \A i \in DOMAIN checkOuts : /\ checkOuts'[i].copy = checkOuts[i].copy
                                     /\ checkOuts'[i].copySeen = checkOuts[i].copySeen
    BY <1>1
  <2>2. QED
    BY <1>1, <2>1 DEF Raced
<1>3. \A i \in DOMAIN checkOuts : i # k => LoanOf(i)' = LoanOf(i)
  BY <1>1, <1>2 DEF LoanOf, Phase, Open
<1>4. LoanOf(k)' = [LoanOf(k) EXCEPT !.phase = Phase(k)']
  BY <1>1, <1>2 DEF LoanOf
<1>5. /\ DOMAIN LedgerOfTable = DOMAIN checkOuts
      /\ \A i \in DOMAIN checkOuts : LedgerOfTable[i] = LoanOf(i)
  BY DEF LedgerOfTable
<1>6. LedgerOfTable' = [i \in DOMAIN checkOuts |-> LoanOf(i)']
  BY <1>1 DEF LedgerOfTable
<1>7. [LedgerOfTable EXCEPT ![k].phase = Phase(k)']
        = [i \in DOMAIN checkOuts |-> IF i = k THEN LoanOf(k)' ELSE LoanOf(i)]
  BY <1>4, <1>5 DEF LedgerOfTable
<1>8. LedgerOfTable' = [LedgerOfTable EXCEPT ![k].phase = Phase(k)']
  BY <1>3, <1>6, <1>7
<1>9. ASSUME Phase(k)' = Phase(k) PROVE LedgerOfTable' = LedgerOfTable
  <2>1. LoanOf(k)' = LoanOf(k)
    BY <1>1, <1>2, <1>9 DEF LoanOf
  <2>2. QED
    BY <1>3, <1>6, <2>1 DEF LedgerOfTable
<1>10. QED
  BY <1>5, <1>8, <1>9 DEF LoanOf

LEMMA LedgerLend ==
    ASSUME LoanInv, NEW r \in Requests, CreateCheckOut(r)
    PROVE  \E c \in Copies, a \in Attendees, raced \in BOOLEAN :
                TheLedger!Lend(c, a, raced)
<1>1. PICK c, a, row :
        /\ c = requests[r].copy /\ a = requests[r].attendee
        /\ checkOuts' = Append(checkOuts, row)
        /\ row.copy = c /\ row.attendee = a /\ row.checkIn = Null
        /\ row.copySeen = requests[r].copySeen
  BY DEF CreateCheckOut
<1>2. c \in Copies /\ a \in Attendees
  BY <1>1 DEF CreateCheckOut, LoanInv, Sound, CopyLookup, AttendeeLookup
<1>3. PICK n \in Nat : /\ n = Len(checkOuts) /\ DOMAIN checkOuts = 1 .. n
                       /\ DOMAIN checkOuts' = 1 .. (n + 1) /\ checkOuts'[n + 1] = row
                       /\ \A i \in 1 .. n : checkOuts'[i] = checkOuts[i]
  BY <1>1 DEF LoanInv, TypeOK
<1>4. PICK raced \in BOOLEAN : raced = Raced(n + 1)'
  BY DEF Raced
<1>5. PICK loan : loan = [copy |-> c, attendee |-> a, phase |-> "out", raced |-> raced]
  OBVIOUS
<1>6. /\ LedgerOfTable' = [i \in 1 .. (n + 1) |-> LoanOf(i)']
      /\ LedgerOfTable = [i \in 1 .. n |-> LoanOf(i)]
  BY <1>3 DEF LedgerOfTable
<1>7. LoanOf(n + 1)' = loan
  BY <1>1, <1>3, <1>4, <1>5 DEF LoanOf, Phase, Open
<1>8. \A i \in 1 .. n : LoanOf(i)' = LoanOf(i)
  <2>1. \A i \in 1 .. n : Raced(i)' = Raced(i)
    BY <1>3 DEF Raced
  <2>2. QED
    BY <1>3, <2>1 DEF LoanOf, Phase, Open
<1>9. LedgerOfTable' = Append(LedgerOfTable, loan)
  <2>1. LedgerOfTable' = [i \in 1 .. (n + 1) |-> IF i = n + 1 THEN loan ELSE LedgerOfTable[i]]
    BY <1>6, <1>7, <1>8
  <2>2. PICK S : S = {LedgerOfTable[j] : j \in 1 .. n} \cup {loan}
    OBVIOUS
  <2>3. \A i \in 1 .. n : LedgerOfTable[i] \in S
    BY <2>2
  <2>4. LedgerOfTable \in Seq(S) /\ Len(LedgerOfTable) = n /\ loan \in S
    BY <1>6, <2>2, <2>3
  <2>5. LedgerOfTable' \in Seq(S) /\ Len(LedgerOfTable') = n + 1
    BY <2>1, <2>3, <2>4
  <2>6. /\ Append(LedgerOfTable, loan) \in Seq(S)
        /\ Len(Append(LedgerOfTable, loan)) = n + 1
        /\ \A i \in 1 .. (n + 1) : Append(LedgerOfTable, loan)[i] = LedgerOfTable'[i]
    BY <2>1, <2>4
  <2>7. QED
    BY <2>5, <2>6
<1>10. /\ DOMAIN LedgerOfTable = 1 .. n
       /\ \A i \in 1 .. n : /\ LedgerOfTable[i].copy = checkOuts[i].copy
                            /\ LedgerOfTable[i].phase = Phase(i)
  BY <1>6 DEF LoanOf
<1>11. /\ requests[r].copySeen \in Nat
       /\ \A i \in 1 .. n : checkOuts[i].copy = c /\ Open(i) => requests[r].copySeen < i
  <2>1. requests[r].copySeen \in Nat
    BY DEF LoanInv, TypeOK, Request
  <2>2. CopyLookup(requests[r]) /\ requests[r].pc = "create"
    BY DEF LoanInv, Sound, CreateCheckOut
  <2>3. \A i \in 1 .. n : (i <= requests[r].copySeen /\ checkOuts[i].copy = c) => ~Open(i)
    BY <1>1, <1>3, <2>2 DEF CopyLookup
  <2>4. QED
    BY <2>1, <2>3
<1>12. raced <=> \E k \in 1 .. n : checkOuts[k].copy = c /\ requests[r].copySeen < k
  <2>1. /\ checkOuts'[n + 1].copy = c /\ checkOuts'[n + 1].copySeen = requests[r].copySeen
        /\ \A k \in DOMAIN checkOuts' : k < n + 1 <=> k \in 1 .. n
        /\ \A k \in 1 .. n : k \in DOMAIN checkOuts' /\ checkOuts'[k] = checkOuts[k]
    BY <1>1, <1>3
  <2>2. Raced(n + 1)' <=> \E k \in 1 .. n : checkOuts[k].copy = c /\ requests[r].copySeen < k
    BY <2>1 DEF Raced
  <2>3. QED
    BY <1>4, <2>2
<1>13. CASE raced
  <2>1. PICK k \in 1 .. n : checkOuts[k].copy = c
    BY <1>12, <1>13
  <2>2. TheLedger!LoansOf(c) # {}
    BY <1>10, <2>1 DEF TheLedger!LoansOf
  <2>3. QED
    BY <1>2, <1>5, <1>9, <1>13, <2>2 DEF TheLedger!Lend
<1>14. CASE ~raced
  <2>1. \A i \in 1 .. n : checkOuts[i].copy = c => ~Open(i)
    BY <1>11, <1>12, <1>14
  <2>2. \A i \in TheLedger!LoansOf(c) : LedgerOfTable[i].phase # "out"
    BY <1>10, <2>1 DEF TheLedger!LoansOf, Phase
  <2>3. QED
    BY <1>2, <1>5, <1>9, <1>14, <2>2 DEF TheLedger!Lend
<1>15. QED
  BY <1>13, <1>14

LEMMA LedgerReturn ==
    ASSUME LoanInv, NEW r \in Requests, UpdateCheckIn(r)
    PROVE  [TheLedger!Next]_LedgerOfTable
<1>1. PICK k, t : k = requests[r].row /\ t = requests[r].stamp
  OBVIOUS
<1>2. k \in DOMAIN checkOuts /\ t # Null /\ checkOuts[k] \in CheckOut
  <2>1. Sound(requests[r]) /\ requests[r] \in Request
    BY DEF LoanInv, TypeOK
  <2>2. k \in DOMAIN checkOuts /\ t # Null
    BY <1>1, <2>1 DEF Sound, ReturnLookup, UpdateCheckIn
  <2>3. QED
    BY <2>2, RowTypes DEF LoanInv, TypeOK
<1>3. PICK row : row = [checkOuts[k] EXCEPT !.checkIn = t]
  OBVIOUS
<1>4. /\ row.copy = checkOuts[k].copy /\ row.attendee = checkOuts[k].attendee
      /\ row.copySeen = checkOuts[k].copySeen
      /\ row.checkIn = t /\ row.submitted = checkOuts[k].submitted
  BY <1>2, <1>3 DEF CheckOut
<1>5. checkOuts' = [checkOuts EXCEPT ![k] = row]
  BY <1>1, <1>2, <1>3 DEF UpdateCheckIn
<1>6. /\ k \in DOMAIN LedgerOfTable /\ LedgerOfTable[k].phase = Phase(k)
      /\ LedgerOfTable' = [LedgerOfTable EXCEPT ![k].phase = Phase(k)']
      /\ Phase(k)' = Phase(k) => UNCHANGED LedgerOfTable
  BY <1>2, <1>4, <1>5, LedgerWrite
<1>7. checkOuts'[k] = row
  BY <1>2, <1>5 DEF LoanInv, TypeOK
<1>8. CASE Open(k)
  <2>1. ~checkOuts[k].submitted
    BY <1>2, <1>8, RowTypes DEF LoanInv, RowInv, EntriesFollowReturn, TypeOK
  <2>2. Phase(k) = "out" /\ Phase(k)' = "back"
    BY <1>2, <1>4, <1>7, <1>8, <2>1 DEF Phase, Open
  <2>3. TheLedger!Return(k)
    BY <1>6, <2>2 DEF TheLedger!Return
  <2>4. QED
    BY <1>6, <2>3 DEF TheLedger!Next
<1>9. CASE ~Open(k)
  <2>1. Phase(k)' = Phase(k)
    BY <1>2, <1>4, <1>7, <1>9 DEF Phase, Open
  <2>2. QED
    BY <1>6, <2>1
<1>10. QED
  BY <1>8, <1>9

LEMMA LedgerEnter ==
    ASSUME LoanInv, NEW r \in Requests, AddPlayers(r) \/ Submit(r)
    PROVE  [TheLedger!Next]_LedgerOfTable
<1>1. PICK k : k = requests[r].row
  OBVIOUS
<1>2. k \in DOMAIN checkOuts /\ ~Open(k) /\ checkOuts[k] \in CheckOut
  <2>1. Sound(requests[r])
    BY DEF LoanInv
  <2>2. k \in DOMAIN checkOuts /\ ~Open(k)
    BY <1>1, <2>1 DEF Sound, EntryLookup, AddPlayers, Submit
  <2>3. QED
    BY <2>2, RowTypes DEF LoanInv, TypeOK
<1>3. PICK row : /\ checkOuts' = [checkOuts EXCEPT ![k] = row]
                 /\ row.copy = checkOuts[k].copy /\ row.attendee = checkOuts[k].attendee
                 /\ row.copySeen = checkOuts[k].copySeen
                 /\ row.checkIn = checkOuts[k].checkIn
                 /\ row.submitted = checkOuts[k].submitted \/ row.submitted = TRUE
  BY <1>1, <1>2 DEF AddPlayers, Submit, CheckOut
<1>4. /\ k \in DOMAIN LedgerOfTable /\ LedgerOfTable[k].phase = Phase(k)
      /\ LedgerOfTable' = [LedgerOfTable EXCEPT ![k].phase = Phase(k)']
      /\ Phase(k)' = Phase(k) => UNCHANGED LedgerOfTable
  BY <1>2, <1>3, LedgerWrite
<1>5. checkOuts'[k] = row
  BY <1>2, <1>3 DEF LoanInv, TypeOK
<1>6. Phase(k)' = Phase(k) \/ (Phase(k) = "back" /\ Phase(k)' = "entered")
  BY <1>2, <1>3, <1>5 DEF Phase, Open
<1>7. CASE Phase(k)' = Phase(k)
  BY <1>4, <1>7
<1>8. CASE Phase(k) = "back" /\ Phase(k)' = "entered"
  BY <1>4, <1>8 DEF TheLedger!Enter, TheLedger!Next
<1>9. QED
  BY <1>6, <1>7, <1>8

LEMMA LedgerNext ==
    LoanInv /\ [Next]_vars => [TheLedger!Next]_LedgerOfTable
<1> SUFFICES ASSUME LoanInv, [Next]_vars
             PROVE  [TheLedger!Next]_LedgerOfTable
  OBVIOUS
<1>1. ASSUME NEW r \in Requests, Receive(r) \/ Fail(r) PROVE checkOuts' = checkOuts
  BY <1>1 DEF Receive, ReceiveCheckOut, ReceiveCheckIn, ReceivePrizeEntry, Begin, Fail, Reject
<1>2. ASSUME NEW r \in Requests, Step(r) PROVE [TheLedger!Next]_LedgerOfTable
  <2>1. CASE CreateCheckOut(r)
    BY <2>1, LedgerLend DEF TheLedger!Next
  <2>2. CASE UpdateCheckIn(r)
    BY <2>2, LedgerReturn
  <2>3. CASE AddPlayers(r) \/ Submit(r)
    BY <2>3, LedgerEnter
  <2>4. CASE LegacyAttendee(r) \/ LegacyCopy(r) \/ ReadCopy(r) \/ ReadAttendee(r)
             \/ ReadReturned(r) \/ ReadEntry(r)
    <3>1. checkOuts' = checkOuts
      BY <2>4 DEF LegacyAttendee, LegacyCopy, ReadCopy, ReadAttendee, ReadReturned, ReadEntry
    <3>2. QED
      BY <3>1, LedgerSame
  <2>5. QED
    BY <1>2, <2>1, <2>2, <2>3, <2>4 DEF Step
<1>3. CASE UNCHANGED vars
  BY <1>3, LedgerSame DEF vars
<1>4. QED
  BY <1>1, <1>2, <1>3, LedgerSame DEF Next, Quiet

(***************************************************************************)
(* The desk implements the ledger for any number of concurrent handlers.   *)
(***************************************************************************)
THEOREM Refinement == Spec => ImplementsLedger
<1>1. LoanInv /\ [Next]_vars => [TheLedger!Next]_LedgerOfTable
  BY LedgerNext
<1>2. QED
  BY <1>1, LoanInvariance, LedgerInit, PTL DEF Spec, ImplementsLedger, TheLedger!Spec

-----------------------------------------------------------------------------
(* What the desk is told.                                                  *)

\* A row keeps its loan, and comes back or is entered for good.
RowKept(i) ==
    /\ checkOuts'[i].copy = checkOuts[i].copy
    /\ checkOuts'[i].attendee = checkOuts[i].attendee
    /\ checkOuts[i].checkIn # Null => checkOuts'[i].checkIn # Null
    /\ checkOuts[i].submitted => checkOuts'[i].submitted

RowsKept ==
    /\ DOMAIN checkOuts' = DOMAIN checkOuts
    /\ \A i \in DOMAIN checkOuts : RowKept(i)

\* The handler that inserts a row.
Inserted(req) ==
    /\ req.pc = "create"
    /\ Len(checkOuts) \in Nat
    /\ DOMAIN checkOuts = 1 .. Len(checkOuts)
    /\ DOMAIN checkOuts' = DOMAIN checkOuts \cup {Len(checkOuts) + 1}
    /\ Len(checkOuts) + 1 \notin DOMAIN checkOuts
    /\ \A i \in DOMAIN checkOuts : checkOuts'[i] = checkOuts[i]

LEMMA InsertStep ==
    ASSUME LoanInv, NEW r \in Requests, CreateCheckOut(r)
    PROVE  Inserted(requests[r])
<1>1. PICK req : req = requests[r]
  OBVIOUS
<1>2. PICK row :
        row = [copy |-> req.copy, attendee |-> req.attendee,
               checkOut |-> req.stamp, checkIn |-> Null,
               submitted |-> FALSE, players |-> 0,
               copySeen |-> req.copySeen, attendeeSeen |-> req.attendeeSeen,
               override |-> req.override]
  OBVIOUS
<1>3. checkOuts' = Append(checkOuts, row) /\ req.pc = "create"
  BY <1>1, <1>2 DEF CreateCheckOut
<1>4. checkOuts \in Seq(CheckOut)
  BY DEF LoanInv, TypeOK
<1>5. PICK n \in Nat : n = Len(checkOuts) /\ DOMAIN checkOuts = 1 .. n
  BY <1>4, RowTypes
<1>6. /\ DOMAIN checkOuts' = 1 .. (n + 1) /\ checkOuts'[n + 1] = row
      /\ \A i \in 1 .. n : checkOuts'[i] = checkOuts[i]
  BY <1>3, <1>4, <1>5
<1>7. DOMAIN checkOuts' = DOMAIN checkOuts \cup {n + 1} /\ n + 1 \notin DOMAIN checkOuts
  BY <1>5, <1>6
<1>8. QED
  BY <1>1, <1>3, <1>5, <1>6, <1>7 DEF Inserted

LEMMA WriteStep ==
    ASSUME LoanInv, NEW r \in Requests,
           UpdateCheckIn(r) \/ AddPlayers(r) \/ Submit(r)
    PROVE  RowsKept
<1>1. PICK k, t, n : k = requests[r].row /\ t = requests[r].stamp /\ n = requests[r].party
  OBVIOUS
<1>2. requests[r] \in Request /\ Sound(requests[r])
  BY DEF LoanInv, TypeOK
<1>3. k \in DOMAIN checkOuts
  BY <1>1, <1>2 DEF Sound, ReturnLookup, EntryLookup, UpdateCheckIn, AddPlayers, Submit
<1>4. checkOuts[k] \in CheckOut
  BY <1>3, RowTypes DEF LoanInv, TypeOK
<1>5. PICK row :
        /\ checkOuts' = [checkOuts EXCEPT ![k] = row]
        /\ row.copy = checkOuts[k].copy /\ row.attendee = checkOuts[k].attendee
        /\ checkOuts[k].checkIn # Null => row.checkIn # Null
        /\ checkOuts[k].submitted => row.submitted
  <2>1. CASE UpdateCheckIn(r)
    <3>1. PICK row : row = [checkOuts[k] EXCEPT !.checkIn = t]
      OBVIOUS
    <3>2. checkOuts' = [checkOuts EXCEPT ![k] = row]
      BY <1>1, <2>1, <3>1 DEF UpdateCheckIn
    <3>3. t # Null
      BY <1>1, <1>2, <2>1 DEF Sound, ReturnLookup, UpdateCheckIn
    <3>4. /\ row.copy = checkOuts[k].copy /\ row.attendee = checkOuts[k].attendee
          /\ row.checkIn = t
          /\ row.submitted = checkOuts[k].submitted
      BY <1>4, <3>1 DEF CheckOut
    <3>5. QED
      BY <3>2, <3>3, <3>4
  <2>2. CASE AddPlayers(r)
    <3>1. PICK total : total = checkOuts[k].players + n
      OBVIOUS
    <3>2. PICK row : row = [checkOuts[k] EXCEPT !.players = total]
      OBVIOUS
    <3>3. checkOuts' = [checkOuts EXCEPT ![k] = row]
      BY <1>1, <2>2, <3>1, <3>2 DEF AddPlayers
    <3>4. /\ row.copy = checkOuts[k].copy /\ row.attendee = checkOuts[k].attendee
          /\ row.checkIn = checkOuts[k].checkIn
          /\ row.submitted = checkOuts[k].submitted
      BY <1>4, <3>2 DEF CheckOut
    <3>5. QED
      BY <3>3, <3>4
  <2>3. CASE Submit(r)
    <3>1. PICK row : row = [checkOuts[k] EXCEPT !.submitted = TRUE]
      OBVIOUS
    <3>2. checkOuts' = [checkOuts EXCEPT ![k] = row]
      BY <1>1, <2>3, <3>1 DEF Submit
    <3>3. /\ row.copy = checkOuts[k].copy /\ row.attendee = checkOuts[k].attendee
          /\ row.checkIn = checkOuts[k].checkIn
          /\ row.submitted
      BY <1>4, <3>1 DEF CheckOut
    <3>4. QED
      BY <3>2, <3>3
  <2>4. QED
    BY <2>1, <2>2, <2>3
<1>6. /\ DOMAIN checkOuts' = DOMAIN checkOuts
      /\ \A i \in DOMAIN checkOuts : checkOuts'[i] = IF i = k THEN row ELSE checkOuts[i]
  BY <1>3, <1>5 DEF LoanInv, TypeOK
<1>7. QED
  BY <1>3, <1>5, <1>6 DEF RowsKept, RowKept

\* A step inserts one row or keeps the rows there are.
LEMMA TableStep ==
    ASSUME LoanInv, [Next]_vars
    PROVE  RowsKept \/ \E r \in Requests : CreateCheckOut(r)
<1>1. ASSUME checkOuts' = checkOuts PROVE RowsKept
  BY <1>1 DEF RowsKept, RowKept
<1>2. ASSUME NEW r \in Requests, Receive(r) \/ Fail(r) PROVE checkOuts' = checkOuts
  BY <1>2 DEF Receive, ReceiveCheckOut, ReceiveCheckIn, ReceivePrizeEntry, Begin, Fail, Reject
<1>3. ASSUME NEW r \in Requests, Step(r), ~CreateCheckOut(r) PROVE RowsKept
  <2>1. CASE UpdateCheckIn(r) \/ AddPlayers(r) \/ Submit(r)
    BY <1>3, <2>1, WriteStep
  <2>2. CASE LegacyAttendee(r) \/ LegacyCopy(r) \/ ReadCopy(r) \/ ReadAttendee(r)
             \/ ReadReturned(r) \/ ReadEntry(r)
    BY <1>1, <2>2 DEF LegacyAttendee, LegacyCopy, ReadCopy, ReadAttendee, ReadReturned, ReadEntry
  <2>3. QED
    BY <1>3, <2>1, <2>2 DEF Step
<1>4. CASE UNCHANGED vars
  BY <1>1, <1>4 DEF vars
<1>5. QED
  BY <1>1, <1>2, <1>3, <1>4 DEF Next, Quiet, vars

\* No row is inserted by the step in which a check-in ends.
LEMMA UpdatingStep ==
    ASSUME LoanInv, [Next]_vars, NEW r \in Requests,
           requests[r].pc = "update", requests'[r] = Idle
    PROVE  RowsKept
<1>1. ASSUME NEW s \in Requests, CreateCheckOut(s) PROVE FALSE
  <2>1. requests[s].pc = "create" /\ requests' = [requests EXCEPT ![s] = Idle]
    BY <1>1 DEF CreateCheckOut, Settle
  <2>2. s # r
    BY <2>1
  <2>3. requests'[r] = requests[r]
    BY <2>1, <2>2 DEF LoanInv, TypeOK
  <2>4. QED
    BY <2>3 DEF Idle
<1>2. QED
  BY <1>1, TableStep

LEMMA CheckInStep ==
    ASSUME LoanInv, [Next]_vars
    PROVE  CheckInAnswersTruly
<1>1. SUFFICES ASSUME NEW r \in Requests, requests[r].pc = "update", requests'[r] = Idle,
                      NEW i, i = requests[r].row,
                      checkOuts'[i].checkIn = requests[r].stamp,
                      NEW j \in CurrentCheckouts(checkOuts', checkOuts[i].copy)
               PROVE  LentTogether(i, j) \/ (~Open(i) /\ requests[r].copySeen < j)
  BY DEF CheckInAnswersTruly
<1>2. /\ i \in DOMAIN checkOuts
      /\ requests[r].stamp # Null
      /\ requests[r].copySeen \in Nat
      /\ \A k \in DOMAIN checkOuts :
            (/\ k <= requests[r].copySeen /\ k # i
             /\ checkOuts[k].copy = checkOuts[i].copy
             /\ Open(k)) => LentTogether(i, k)
  BY <1>1 DEF LoanInv, TypeOK, Request, Sound, ReturnLookup
<1>3. /\ j \in DOMAIN checkOuts /\ j # i /\ Open(j)
      /\ checkOuts[j].copy = checkOuts[i].copy
  BY <1>1, <1>2, UpdatingStep DEF CurrentCheckouts, OpenLoans, RowsKept, RowKept, Open
<1>4. i \in Nat /\ j \in Nat
  BY <1>2, <1>3, RowTypes DEF LoanInv, TypeOK
<1>5. CASE Open(i)
  BY <1>2, <1>3, <1>4, <1>5 DEF LentTogether, LoanInv, RowInv, DoubleLoansOverlap
<1>6. CASE ~Open(i)
  BY <1>2, <1>3, <1>4, <1>6
<1>7. QED
  BY <1>5, <1>6

LEMMA EntriesStep ==
    ASSUME LoanInv, [Next]_vars
    PROVE  EntriesOffered
<1>1. \A i \in DOMAIN checkOuts : i \in DOMAIN checkOuts' /\ RowKept(i)
  <2>1. CASE RowsKept
    BY <2>1 DEF RowsKept
  <2>2. ASSUME NEW r \in Requests, CreateCheckOut(r)
        PROVE  \A i \in DOMAIN checkOuts : i \in DOMAIN checkOuts' /\ RowKept(i)
    BY <2>2, InsertStep DEF Inserted, RowKept
  <2>3. QED
    BY <2>1, <2>2, TableStep
<1>2. QED
  BY <1>1 DEF EntriesOffered, PrizeEntries, RowKept

(***************************************************************************)
(* What the desk has been told follows the loans, for any number of        *)
(* concurrent handlers and whatever their clock says.  A check-in answers  *)
(* that the copy is in while a loan of it is open only when that loan and  *)
(* the one checked in were lent together, or when another check-in had     *)
(* brought the copy back and it was lent again since this one read it: of  *)
(* what its read saw, nothing else can still be out.                       *)
(***************************************************************************)
THEOREM ReportsFollow == Spec => ReportsFollowTheDesk
<1>1. LoanInv /\ [Next]_vars => [CheckInAnswersTruly /\ EntriesOffered]_vars
  BY CheckInStep, EntriesStep
<1>2. QED
  BY <1>1, LoanInvariance, PTL DEF Spec, ReportsFollowTheDesk
=============================================================================
