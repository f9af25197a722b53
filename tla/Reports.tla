------------------------------ MODULE Reports ------------------------------
(***************************************************************************)
(* What the legacy desk application is told of the CheckOut table: a copy  *)
(* looked up by its barcode, the answer to a check-in, the prize entries   *)
(* that an attendee can still make, and the plays.  Each view is one       *)
(* query, so it sees one state of the table; what the desk works with is   *)
(* the succession of the answers while check-outs, check-ins and entries   *)
(* of other handlers are under way.                                        *)
(***************************************************************************)
EXTENDS Library

OpenLoans(table) == {i \in DOMAIN table : table[i].checkIn = Null}

-----------------------------------------------------------------------------
(* One copy, by its barcode or by a search *)

\* checkOuts.find(checkIn is null), of rows that come in any order.
CurrentCheckouts(table, c) == {i \in OpenLoans(table) : table[i].copy = c}

IsCheckedOut(table, c) == CurrentCheckouts(table, c) # {}

\* The games page tests the date of the check-out, which every row has, and
\* not the date of the check-in: it shows out whatever was lent once.
IsCheckedOutOnGamesPage(table, c) ==
    \E i \in DOMAIN table : table[i].copy = c /\ table[i].checkOut # Null

-----------------------------------------------------------------------------
(* Prize entries and plays *)

\* The loans that an attendee can still enter.  The attendee is named by badge
\* number in every convention, and only collections to win from are listed;
\* the model has one convention and one such collection.
PrizeEntries(table, a) ==
    {i \in DOMAIN table :
        table[i].attendee = a /\ table[i].checkIn # Null /\ ~table[i].submitted}

\* Every row of the table is a play, also one that is out and has no players.
Plays(table) ==
    [i \in DOMAIN table |->
        [timeOut |-> table[i].checkOut, timeIn |-> table[i].checkIn,
         players |-> table[i].players]]

-----------------------------------------------------------------------------
(* The length of a loan *)

Second == 1000
Minute == 60 * Second
Hour == 60 * Minute
Day == 24 * Hour

\* splitCheckoutLength: a negative length counts as none.
SplitCheckoutLength(lengthMs) ==
    LET diff == IF lengthMs < 0 THEN 0 ELSE lengthMs
    IN  [days |-> diff \div Day,
         hours |-> (diff % Day) \div Hour,
         minutes |-> (diff % Hour) \div Minute,
         seconds |-> (diff % Minute) \div Second]

-----------------------------------------------------------------------------
\* Two loans of one copy overlap: the later one's request had read the copy
\* before the earlier one was inserted.
LentTogether(i, j) ==
    \/ i < j /\ checkOuts[j].copySeen < i
    \/ j < i /\ checkOuts[i].copySeen < j

(* The answer to a check-in says that the copy is in (IsCheckedOut: false,
   CurrentCheckout: null) without reading it again.  A loan that is open all
   the same was lent together with the one checked in, or else this check-in
   came late: another one had brought the copy back, which was lent again after
   this one had read it, and it only dates the old loan once more. *)
CheckInAnswersTruly ==
    \A r \in Requests :
        LET i == requests[r].row IN
        (/\ requests[r].pc = "update"
         /\ requests'[r] = Idle
         /\ checkOuts'[i].checkIn = requests[r].stamp) =>
            \A j \in CurrentCheckouts(checkOuts', checkOuts[i].copy) :
                \/ LentTogether(i, j)
                \/ ~Open(i) /\ requests[r].copySeen < j

(* An entry that was offered to an attendee is offered until it is submitted,
   and never again after. *)
EntriesOffered ==
    \A a \in Attendees, i \in DOMAIN checkOuts :
        /\ i \in PrizeEntries(checkOuts, a) =>
                (i \in PrizeEntries(checkOuts', a) \/ checkOuts'[i].submitted)
        /\ checkOuts[i].submitted => i \notin PrizeEntries(checkOuts', a)

(***************************************************************************)
(* What the desk was told stays true while it works with it: the answer to *)
(* a check-in and the entries on offer follow the loans.  Where the answer *)
(* to a check-in does not, two check-outs overlapped, or two check-ins and *)
(* a check-out between them.                                               *)
(***************************************************************************)
ReportsFollowTheDesk ==
    [][CheckInAnswersTruly /\ EntriesOffered]_vars

(***************************************************************************)
(* The games page and the look-up of a copy say the same (the schema: "An  *)
(* open check-out has a null checkIn").  The code does not: a copy that    *)
(* was lent once is out on the games page ever after.                      *)
(***************************************************************************)
PagesAgree ==
    \A c \in Copies : IsCheckedOut(checkOuts, c) <=> IsCheckedOutOnGamesPage(checkOuts, c)
=============================================================================
