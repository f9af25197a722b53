------------------------------- MODULE Ledger -------------------------------
(***************************************************************************)
(* What the play-and-win desk promises, with no requests and no database:  *)
(* a growing list of loans, each of which is handed out, comes back and    *)
(* may then be entered for a prize, in that order and never backwards.  A  *)
(* copy is handed out only when none of its loans is out, except in a race *)
(* with an earlier loan of it.                                             *)
(***************************************************************************)
EXTENDS Integers, Sequences

CONSTANTS Copies, Attendees

VARIABLE loans

Phases == {"out", "back", "entered"}

Loan == [copy : Copies, attendee : Attendees, phase : Phases, raced : BOOLEAN]

LoansOf(c) == {i \in DOMAIN loans : loans[i].copy = c}

Init == loans = <<>>

Lend(c, a, raced) ==
    /\ IF raced THEN LoansOf(c) # {}
       ELSE \A i \in LoansOf(c) : loans[i].phase # "out"
    /\ loans' = Append(loans, [copy |-> c, attendee |-> a, phase |-> "out",
                               raced |-> raced])

Return(i) ==
    /\ loans[i].phase = "out"
    /\ loans' = [loans EXCEPT ![i].phase = "back"]

Enter(i) ==
    /\ loans[i].phase = "back"
    /\ loans' = [loans EXCEPT ![i].phase = "entered"]

Next ==
    \/ \E c \in Copies, a \in Attendees, raced \in BOOLEAN : Lend(c, a, raced)
    \/ \E i \in DOMAIN loans : Return(i) \/ Enter(i)

Spec == Init /\ [][Next]_loans
=============================================================================
