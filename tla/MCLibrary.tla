----------------------------- MODULE MCLibrary -----------------------------
(* Up to two copies and two attendees, one or two handlers in flight.  No   *)
(* party, an accepted party and one too large are each tried, and a clock   *)
(* that goes on, stands still and steps back.                               *)
EXTENDS Reports, TLC

CONSTANTS r1, r2, c1, c2, a1, a2

MCPartyLimit == [c \in Copies |-> 2]
MCParties == {0, 2, 3}
MCDates == {1, 2}

(* The parts of a length put together again are the length, to the second. *)
ASSUME LengthsAddUp ==
    \A ms \in {-1, 0, 999, 1000, 59999, 60000, Hour - 1, Hour, Day - 1, Day,
               3 * Day + 7 * Hour + 59 * Minute + 1} :
        LET s == SplitCheckoutLength(ms)
            whole == s.days * Day + s.hours * Hour + s.minutes * Minute + s.seconds * Second
        IN  /\ s.hours \in 0 .. 23 /\ s.minutes \in 0 .. 59 /\ s.seconds \in 0 .. 59
            /\ (IF ms < 0 THEN 0 ELSE ms) - whole \in 0 .. Second - 1

Symmetric ==
    Permutations(Requests) \cup Permutations(Copies) \cup Permutations(Attendees)
=============================================================================
