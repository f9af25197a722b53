------------------------------ MODULE Library ------------------------------
(***************************************************************************)
(* The play-and-win desk: CheckOutService (check-out, check-in and prize   *)
(* entry) as it is reached from LegacyController and                       *)
(* OrganizationController.  Every HTTP request is an asynchronous handler; *)
(* each awaited Prisma call is one atomic step on the database, and other  *)
(* handlers run between two awaits.  What a handler has read stays in its  *)
(* local record, however stale it has become.                              *)
(***************************************************************************)
EXTENDS Integers, Sequences, FiniteSets

CONSTANTS
    Requests,       \* the handlers that can be in flight together
    Copies,         \* the copies of the library
    Attendees,      \* the attendees of the convention
    PartyLimit,     \* for each copy, (game.maxPlayers ?? 4) + 1
    Parties,        \* the numbers of players a prize entry may name
    Dates,          \* what new Date() may answer
    MaxRequests     \* bound: the requests that arrive in a behaviour

ASSUME LibraryAssumption ==
    /\ PartyLimit \in [Copies -> Nat]
    /\ Parties \subseteq Nat
    /\ Dates \subseteq Nat \ {0}
    /\ MaxRequests \in Nat

VARIABLES
    checkOuts,      \* the CheckOut table, in order of insertion (id = index)
    requests,       \* the local state of every handler
    received        \* the requests received so far

vars == <<checkOuts, requests, received>>

None == "none"      \* a barcode that belongs to no row
Null == 0           \* a date column that is not set

-----------------------------------------------------------------------------
(***************************************************************************)
(* A row of CheckOut, with the number of its Player rows.  The last three  *)
(* fields are history, not columns: how many rows there were when the      *)
(* request that created the row read the copy and the attendee, and        *)
(* whether it overrode the limit.  A handler keeps the same history of its *)
(* reads, a check-in that of the copy and its check-outs.                  *)
(***************************************************************************)
CheckOut ==
    [copy : Copies, attendee : Attendees, checkOut : Nat, checkIn : Nat,
     submitted : BOOLEAN, players : Nat,
     copySeen : Nat, attendeeSeen : Nat, override : BOOLEAN]

PCs == {"idle", "legacyAttendee", "legacyCopy", "readCopy", "readAttendee",
        "create", "readReturned", "update", "readEntry", "addPlayers", "submit"}

Request ==
    [pc : PCs, copy : Copies \cup {None}, attendee : Attendees \cup {None},
     override : BOOLEAN, row : Nat, party : Nat, stamp : Nat,
     copySeen : Nat, attendeeSeen : Nat]

Idle ==
    [pc |-> "idle", copy |-> None, attendee |-> None, override |-> FALSE,
     row |-> 0, party |-> 0, stamp |-> Null, copySeen |-> 0, attendeeSeen |-> 0]

TypeOK ==
    /\ checkOuts \in Seq(CheckOut)
    /\ requests \in [Requests -> Request]
    /\ received \in Nat

\* co.checkIn is null: the game is out.
Open(i) == checkOuts[i].checkIn = Null

OpenOfCopy(c) == {i \in DOMAIN checkOuts : checkOuts[i].copy = c /\ Open(i)}

OpenOfAttendee(a) == {i \in DOMAIN checkOuts : checkOuts[i].attendee = a /\ Open(i)}

\* Mutation: the override flag is read the wrong way round.
OverLimitInverted(req) == OpenOfAttendee(req.attendee) # {} /\ req.override

\* The limit of one game at a time rejects the request.
OverLimit(req) == OpenOfAttendee(req.attendee) # {} /\ ~req.override

-----------------------------------------------------------------------------
Init ==
    /\ checkOuts = <<>>
    /\ requests = [r \in Requests |-> Idle]
    /\ received = 0

Begin(r, req) ==
    /\ requests[r] = Idle
    /\ received < MaxRequests
    /\ received' = received + 1
    /\ requests' = [requests EXCEPT ![r] = req]
    /\ UNCHANGED checkOuts

\* The handler answers, with a result or a rejection.
Settle(r) == requests' = [requests EXCEPT ![r] = Idle]

Goto(r, pc) == requests' = [requests EXCEPT ![r].pc = pc]

Reject(r) == Settle(r) /\ UNCHANGED <<checkOuts, received>>

-----------------------------------------------------------------------------
(* Check-out *)

\* OrganizationController.checkOutCopy calls the service at once;
\* LegacyController.checkoutCopy looks the attendee and the copy up first.
ReceiveCheckOut(r) ==
    \E entry \in {"legacyAttendee", "readCopy"}, c \in Copies \cup {None},
       a \in Attendees \cup {None}, o \in BOOLEAN :
        Begin(r, [Idle EXCEPT !.pc = entry, !.copy = c, !.attendee = a, !.override = o])

LegacyAttendee(r) ==
    /\ requests[r].pc = "legacyAttendee"
    /\ \/ /\ requests[r].attendee = None \/ OverLimit(requests[r])
          /\ Settle(r)
       \/ /\ requests[r].attendee # None
          /\ ~OverLimit(requests[r])
          /\ Goto(r, "legacyCopy")
    /\ UNCHANGED <<checkOuts, received>>

LegacyCopy(r) ==
    /\ requests[r].pc = "legacyCopy"
    /\ IF requests[r].copy = None THEN Settle(r) ELSE Goto(r, "readCopy")
    /\ UNCHANGED <<checkOuts, received>>

\* Mutation: the open check-outs of the copy are not tested.
ReadCopyUntested(r) ==
    /\ requests[r].pc = "readCopy"
    /\ IF requests[r].copy = None THEN Settle(r)
       ELSE requests' = [requests EXCEPT ![r].pc = "readAttendee",
                                         ![r].copySeen = Len(checkOuts)]
    /\ UNCHANGED <<checkOuts, received>>

ReadCopy(r) ==
    /\ requests[r].pc = "readCopy"
    /\ \/ /\ requests[r].copy = None \/ OpenOfCopy(requests[r].copy) # {}
          /\ Settle(r)
       \/ /\ requests[r].copy # None
          /\ OpenOfCopy(requests[r].copy) = {}
          /\ requests' = [requests EXCEPT ![r].pc = "readAttendee",
                                          ![r].copySeen = Len(checkOuts)]
    /\ UNCHANGED <<checkOuts, received>>

\* Mutation: an attendee that is not found is not tested for.
ReadAttendeeUntested(r) ==
    /\ requests[r].pc = "readAttendee"
    /\ \/ OverLimit(requests[r]) /\ Settle(r)
       \/ /\ ~OverLimit(requests[r])
          /\ \E t \in Dates :
                requests' = [requests EXCEPT ![r].pc = "create", ![r].stamp = t,
                                             ![r].attendeeSeen = Len(checkOuts)]
    /\ UNCHANGED <<checkOuts, received>>

\* The date of the check-out is taken when the attendee has been read, in the
\* same synchronous stretch that issues the insert.  The clock may stand still
\* between two dates, or step back (splitCheckoutLength provides for it).
ReadAttendee(r) ==
    /\ requests[r].pc = "readAttendee"
    /\ \/ /\ requests[r].attendee = None \/ OverLimit(requests[r])
          /\ Settle(r)
       \/ /\ requests[r].attendee # None
          /\ ~OverLimit(requests[r])
          /\ \E t \in Dates :
                requests' = [requests EXCEPT ![r].pc = "create", ![r].stamp = t,
                                             ![r].attendeeSeen = Len(checkOuts)]
    /\ UNCHANGED <<checkOuts, received>>

CreateCheckOut(r) ==
    LET req == requests[r] IN
    /\ req.pc = "create"
    /\ checkOuts' = Append(checkOuts,
            [copy |-> req.copy, attendee |-> req.attendee,
             checkOut |-> req.stamp, checkIn |-> Null,
             submitted |-> FALSE, players |-> 0,
             copySeen |-> req.copySeen, attendeeSeen |-> req.attendeeSeen,
             override |-> req.override])
    /\ Settle(r)
    /\ UNCHANGED received

-----------------------------------------------------------------------------
(* Check-in *)

ReceiveCheckIn(r) ==
    \E c \in Copies \cup {None} :
        Begin(r, [Idle EXCEPT !.pc = "readReturned", !.copy = c])

\* Mutation: the newest check-out is taken, whether it is still open or not.
ReadReturnedNewest(r) ==
    /\ requests[r].pc = "readReturned"
    /\ \E i \in DOMAIN checkOuts, t \in Dates :
        /\ checkOuts[i].copy = requests[r].copy
        /\ \A j \in DOMAIN checkOuts :
                checkOuts[j].copy = requests[r].copy
                    => checkOuts[j].checkOut <= checkOuts[i].checkOut
        /\ requests' = [requests EXCEPT ![r].pc = "update", ![r].row = i, ![r].stamp = t,
                                        ![r].copySeen = Len(checkOuts)]
    /\ UNCHANGED <<checkOuts, received>>

\* The copy is read with its check-outs, newest first; the first open one is
\* the row to close, and the date of the check-in is taken with the read.
ReadReturned(r) ==
    /\ requests[r].pc = "readReturned"
    /\ \/ /\ requests[r].copy = None \/ OpenOfCopy(requests[r].copy) = {}
          /\ Settle(r)
       \/ \E i \in OpenOfCopy(requests[r].copy), t \in Dates :
          /\ \A j \in OpenOfCopy(requests[r].copy) :
                checkOuts[j].checkOut <= checkOuts[i].checkOut
          /\ requests' = [requests EXCEPT ![r].pc = "update", ![r].row = i, ![r].stamp = t,
                                          ![r].copySeen = Len(checkOuts)]
    /\ UNCHANGED <<checkOuts, received>>

\* Mutation: the check-in also resets the prize entry.
UpdateCheckInReset(r) ==
    /\ requests[r].pc = "update"
    /\ checkOuts' = [checkOuts EXCEPT ![requests[r].row].checkIn = requests[r].stamp,
                                      ![requests[r].row].submitted = FALSE]
    /\ Settle(r)
    /\ UNCHANGED received

\* The update names the row by its id only: it is written whatever its checkIn is.
UpdateCheckIn(r) ==
    /\ requests[r].pc = "update"
    /\ checkOuts' = [checkOuts EXCEPT ![requests[r].row].checkIn = requests[r].stamp]
    /\ Settle(r)
    /\ UNCHANGED received

-----------------------------------------------------------------------------
(* Prize entry *)

ReceivePrizeEntry(r) ==
    \E i \in 1 .. (Len(checkOuts) + 1), n \in Parties :
        Begin(r, [Idle EXCEPT !.pc = "readEntry", !.row = i, !.party = n])

\* Mutation: a game that is still out can be entered.
AcceptableWhileOut(req) ==
    /\ req.row \in DOMAIN checkOuts
    /\ ~checkOuts[req.row].submitted
    /\ req.party # 0
    /\ req.party <= PartyLimit[checkOuts[req.row].copy]

Acceptable(req) ==
    /\ req.row \in DOMAIN checkOuts
    /\ ~Open(req.row)
    /\ ~checkOuts[req.row].submitted
    /\ req.party # 0
    /\ req.party <= PartyLimit[checkOuts[req.row].copy]

\* The ratings are not modelled: an entry is also refused for one above 5.
ReadEntry(r) ==
    /\ requests[r].pc = "readEntry"
    /\ \/ Settle(r)
       \/ Acceptable(requests[r]) /\ Goto(r, "addPlayers")
    /\ UNCHANGED <<checkOuts, received>>

AddPlayers(r) ==
    /\ requests[r].pc = "addPlayers"
    /\ checkOuts' = [checkOuts EXCEPT ![requests[r].row].players = @ + requests[r].party]
    /\ Goto(r, "submit")
    /\ UNCHANGED received

Submit(r) ==
    /\ requests[r].pc = "submit"
    /\ checkOuts' = [checkOuts EXCEPT ![requests[r].row].submitted = TRUE]
    /\ Settle(r)
    /\ UNCHANGED received

-----------------------------------------------------------------------------
\* The awaited call is rejected (connection lost, process stopped): the
\* handler ends there and what it has already written stays.
Fail(r) == requests[r].pc # "idle" /\ Reject(r)

Receive(r) == ReceiveCheckOut(r) \/ ReceiveCheckIn(r) \/ ReceivePrizeEntry(r)

Step(r) ==
    \/ LegacyAttendee(r) \/ LegacyCopy(r)
    \/ ReadCopy(r) \/ ReadAttendee(r) \/ CreateCheckOut(r)
    \/ ReadReturned(r) \/ UpdateCheckIn(r)
    \/ ReadEntry(r) \/ AddPlayers(r) \/ Submit(r)

\* Every request of the behaviour has been answered.
Quiet ==
    /\ received = MaxRequests
    /\ \A r \in Requests : requests[r] = Idle
    /\ UNCHANGED vars

Next == (\E r \in Requests : Receive(r) \/ Step(r) \/ Fail(r)) \/ Quiet

Spec == Init /\ [][Next]_vars

-----------------------------------------------------------------------------
(***************************************************************************)
(* A second loan of a copy that is still out exists only when the two      *)
(* check-outs overlapped: the request behind the later row had read the    *)
(* copy before the earlier row was inserted (the rejection 'already        *)
(* checked out' of CheckOutService.checkOut stops every other one).        *)
(***************************************************************************)
DoubleLoansOverlap ==
    \A i, j \in DOMAIN checkOuts :
        (i < j /\ checkOuts[i].copy = checkOuts[j].copy /\ Open(i))
            => checkOuts[j].copySeen < i

(***************************************************************************)
(* The same for the limit of one game per attendee: a later loan without   *)
(* overrideLimit while an earlier one is out comes from a request that had *)
(* read the attendee before the earlier row was inserted.                  *)
(***************************************************************************)
LimitBreaksOverlap ==
    \A i, j \in DOMAIN checkOuts :
        (/\ i < j
         /\ checkOuts[i].attendee = checkOuts[j].attendee
         /\ Open(i)
         /\ ~checkOuts[j].override) => checkOuts[j].attendeeSeen < i

(***************************************************************************)
(* However entries are retried, interrupted or sent twice, a row has       *)
(* players only after its game came back, and is marked submitted only     *)
(* when its players are stored.                                            *)
(***************************************************************************)
EntriesFollowReturn ==
    \A i \in DOMAIN checkOuts :
        /\ checkOuts[i].players > 0 => ~Open(i)
        /\ checkOuts[i].submitted => checkOuts[i].players > 0

-----------------------------------------------------------------------------
(* The documented rules of the desk, which hold when one request is served *)
(* at a time.                                                              *)

Serial == \A r, s \in Requests : r = s

(***************************************************************************)
(* A copy has at most one open check-out (PHYSICAL_LIBRARY_SETUP.md:       *)
(* "Rejects the scan if that copy already has an open checkout").          *)
(***************************************************************************)
OneLoanPerCopy ==
    \A i, j \in DOMAIN checkOuts :
        (checkOuts[i].copy = checkOuts[j].copy /\ Open(i) /\ Open(j)) => i = j

(***************************************************************************)
(* An attendee has one game out at a time unless the later check-out       *)
(* overrode the limit (ATTENDEE_BADGE_SETUP.md).                           *)
(***************************************************************************)
OneGamePerAttendee ==
    \A i, j \in DOMAIN checkOuts :
        (/\ i < j
         /\ checkOuts[i].attendee = checkOuts[j].attendee
         /\ Open(i) /\ Open(j)) => checkOuts[j].override

(***************************************************************************)
(* A game is checked in once: a check-in of a loan that is back is refused *)
(* and its date stays (PHYSICAL_LIBRARY_SETUP.md: "Scanning a copy that is *)
(* already checked in is rejected").                                       *)
(***************************************************************************)
ReturnedOnce ==
    [][\A i \in DOMAIN checkOuts :
          ~Open(i) => checkOuts'[i].checkIn = checkOuts[i].checkIn]_vars

(***************************************************************************)
(* A check-out never has more players than one accepted entry may name     *)
(* (submitPrizeEntry refuses 'already submitted' and 'too many players').  *)
(***************************************************************************)
EntryWithinParty ==
    \A i \in DOMAIN checkOuts :
        checkOuts[i].players <= PartyLimit[checkOuts[i].copy]

-----------------------------------------------------------------------------
(* Refinement: the table is the ledger of module Ledger.                    *)

Phase(i) ==
    IF Open(i) THEN "out" ELSE IF checkOuts[i].submitted THEN "entered" ELSE "back"

\* The copy was lent to somebody else after the request behind row i read it.
Raced(i) ==
    \E k \in DOMAIN checkOuts :
        k < i /\ checkOuts[k].copy = checkOuts[i].copy /\ checkOuts[i].copySeen < k

LoanOf(i) ==
    [copy |-> checkOuts[i].copy, attendee |-> checkOuts[i].attendee, phase |-> Phase(i),
     raced |-> Raced(i)]

LedgerOfTable == [i \in DOMAIN checkOuts |-> LoanOf(i)]

TheLedger == INSTANCE Ledger WITH loans <- LedgerOfTable

(***************************************************************************)
(* Every step of every handler is a step of the ledger or leaves it alone: *)
(* loans are only appended, come back once, and are entered only after,    *)
(* and a copy that is out is lent again only by overlapping requests.      *)
(***************************************************************************)
ImplementsLedger == TheLedger!Spec
=============================================================================
