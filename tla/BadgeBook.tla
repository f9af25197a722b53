------------------------------ MODULE BadgeBook ------------------------------
(***************************************************************************)
(* What badge replacement and transfer promise at the registration desk,   *)
(* with no transactions: a replacement moves the holder and every record   *)
(* of a badge to an unassigned badge at once.  The promise is for writers  *)
(* of different badges; overlapping writers of one badge dispute it.       *)
(***************************************************************************)
EXTENDS Integers

CONSTANTS Badges, People, Blank, NoOne

VARIABLES
    book,           \* for each badge, the name printed on it and its owner
    records,        \* the badge of every check-out, win and player, by id
    disputed        \* two writers of a badge overlapped, or a sync overruled one

\* The name of a badge, with the number of times it was marked as lost.
Name == [who : People \cup {Blank}, marks : Nat]

Entry == [name : Name, email : People \cup {NoOne}, user : People \cup {NoOne}]

Init ==
    /\ book \in [Badges -> Entry]
    /\ records \in [DOMAIN records -> Badges]
    /\ disputed = FALSE

Marked(entry) ==
    [name |-> [entry.name EXCEPT !.marks = @ + 1], email |-> NoOne, user |-> NoOne]

Replace(old, new) ==
    /\ book[new].name.who = Blank
    /\ book' = [book EXCEPT ![old] = Marked(book[old]), ![new] = book[old]]
    /\ records' = [i \in DOMAIN records |-> IF records[i] = old THEN new ELSE records[i]]

Transfer(b, p) ==
    /\ book' = [book EXCEPT ![b] = [name |-> [who |-> p, marks |-> 0],
                                    email |-> p, user |-> NoOne]]
    /\ UNCHANGED records

Record(b) ==
    \E id \in DOMAIN records' \ DOMAIN records :
        /\ records' = [i \in DOMAIN records \cup {id} |-> IF i = id THEN b ELSE records[i]]
        /\ UNCHANGED book

\* A dispute ends the promise for good.
Next ==
    \/ /\ \/ \E old, new \in Badges : Replace(old, new)
          \/ \E b \in Badges : Record(b) \/ \E p \in People : Transfer(b, p)
       /\ disputed' = disputed
       /\ ~disputed
    \/ disputed'

Spec == Init /\ [][Next]_<<book, records, disputed>>
=============================================================================
