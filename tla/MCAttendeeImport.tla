-------------------------- MODULE MCAttendeeImport --------------------------
(* Two registrations, one to a page, and a number for a third; the type of  *)
(* the third may be created while an import runs.                           *)
EXTENDS AttendeeImport

CONSTANTS adult, patron

MCFirstRoll ==
    <<[number |-> 1, type |-> adult, version |-> 1],
      [number |-> 2, type |-> adult, version |-> 1]>>
=============================================================================
