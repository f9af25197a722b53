------------------------ MODULE AttendeeImportProofs ------------------------
(***************************************************************************)
(* Theorems about module AttendeeImport, for any registrations, page size, *)
(* changes of the ticket system and attendees renumbered by hand, and any  *)
(* number of imports.                                                      *)
(***************************************************************************)
EXTENDS AttendeeImport, SequenceTheorems, TLAPS

-----------------------------------------------------------------------------
(* The inductive invariant.                                                 *)

\* The import that was started last may run, under the flag.
Alone ==
    \A k \in Imports :
        /\ imports[k].pc = "off" => k > started
        /\ Running(k) => k = started /\ importInProgress

\* Every registration has a number of its own; what is stored is not newer.
RollInv ==
    /\ \A i, j \in DOMAIN roll : roll[i].number = roll[j].number => i = j
    /\ \A i \in DOMAIN roll : synced[roll[i].number] <= roll[i].version

\* The badges of one number come in the order of their revisions, from the
\* stored one to the one on the roll.
InOrder(badges) ==
    /\ \A i \in DOMAIN badges : synced[badges[i].number] <= badges[i].version
    /\ \A i, j \in DOMAIN badges :
            i < j /\ badges[i].number = badges[j].number => badges[i].version <= badges[j].version
    /\ \A i \in DOMAIN badges, j \in DOMAIN roll :
            badges[i].number = roll[j].number => badges[i].version <= roll[j].version

Ordered(import) == InOrder(import.badges)

\* A registration is still to be upserted, or it is stored.
Due(r, import) == \E i \in DOMAIN import.badges : import.badges[i] = r

\* A registration is on a page that is still to be read.
Ahead(r, import) == \E i \in DOMAIN roll : roll[i] = r /\ i > (import.page - 1) * PageSize

Stored(r, import) ==
    /\ synced[r.number] = r.version
    /\ import.byHand \/ numbered[r.number] = r.number

\* What the import has done for the registrations it has to store.
Reading(import) ==
    LET badges == import.badges IN
    /\ import.page >= 1
    /\ import.ok => import.pc = "settled"
    /\ import.pc \notin {"badges", "products", "upsert", "settled"} => import.kept = {}
    /\ import.pc \notin {"badges", "products", "upsert", "settled"} => badges = <<>>
    /\ import.pc = "badges" /\ import.page = 1 => import.kept = {} /\ badges = <<>>
    /\ import.kept \subseteq OnRoll
    /\ \A r \in import.kept : \A i \in DOMAIN badges : badges[i].number = r.number => badges[i] = r
    /\ import.pc = "badges" /\ ~import.shifted =>
            \A r \in import.kept : Due(r, import) \/ Ahead(r, import)
    /\ import.pc = "products" /\ ~import.shifted =>
            \A r \in import.kept : Due(r, import)
    /\ import.pc = "upsert" /\ ~import.shifted =>
            \A r \in import.kept : Due(r, import) \/ Stored(r, import)
    /\ import.pc = "settled" /\ import.ok /\ ~import.shifted =>
            \A r \in import.kept : Stored(r, import)

ImportInv ==
    /\ TypeOK
    /\ Alone
    /\ RollInv
    /\ \A k \in Imports : Running(k) => Ordered(imports[k]) /\ Reading(imports[k])

-----------------------------------------------------------------------------
(* Pages.                                                                   *)

\* A number lies between the multiples of a divisor.
LEMMA Division ==
    ASSUME NEW a \in Nat, NEW b \in Nat \ {0}
    PROVE  /\ a \div b \in Nat
           /\ (a \div b) * b <= a
           /\ a < (a \div b) * b + b
  OBVIOUS

\* No registration is behind the last page.
LEMMA LastPage ==
    ASSUME roll \in Seq(Registration), NEW p \in Nat, p >= TotalPages
    PROVE  Len(roll) <= p * PageSize
<1>1. PageSize \in Nat \ {0} /\ Len(roll) \in Nat
  BY AttendeeImportAssumption
<1>2. PICK full \in Nat : full = Len(roll) + PageSize - 1
  BY <1>1
<1>3. PICK total \in Nat : total = full \div PageSize /\ full < total * PageSize + PageSize
  BY <1>1, <1>2, Division
<1>4. p >= total
  BY <1>2, <1>3 DEF TotalPages
<1>5. PICK more \in Nat : p = total + more
  BY <1>4
<1>6. p * PageSize = total * PageSize + more * PageSize /\ more * PageSize \in Nat
  BY <1>1, <1>5
<1>7. total * PageSize \in Nat
  BY <1>1
<1>8. QED
  BY <1>1, <1>2, <1>3, <1>6, <1>7

\* A page holds the registrations at its places of the roll, and all of them.
LEMMA PageFacts ==
    ASSUME roll \in Seq(Registration), NEW p \in Nat \ {0}
    PROVE  /\ (p - 1) * PageSize \in Nat
           /\ Page(p) \in Seq(Registration)
           /\ \A n \in DOMAIN Page(p) :
                /\ (p - 1) * PageSize + n \in DOMAIN roll
                /\ Page(p)[n] = roll[(p - 1) * PageSize + n]
           /\ \A m \in DOMAIN roll :
                (p - 1) * PageSize < m /\ m <= p * PageSize =>
                    \E n \in DOMAIN Page(p) : Page(p)[n] = roll[m]
<1>1. /\ PageSize \in Nat \ {0} /\ Len(roll) \in Nat /\ DOMAIN roll = 1 .. Len(roll)
      /\ \A i \in DOMAIN roll : roll[i] \in Registration
  BY AttendeeImportAssumption, ElementOfSeq
<1>2. PICK before \in Nat : before = (p - 1) * PageSize
  BY <1>1
<1>3. PICK through \in Nat : through = p * PageSize /\ through = before + PageSize
  BY <1>1, <1>2
<1>4. PICK len \in Nat : len = Len(roll)
  BY <1>1
<1>5. PICK last \in Nat : last = IF through < len THEN through ELSE len
  OBVIOUS
<1>6. PICK page : page = SubSeq(roll, before + 1, last)
  OBVIOUS
<1>7. page = Page(p)
  BY <1>2, <1>3, <1>4, <1>6, <1>5 DEF Page
<1>8. PageSize \in Nat /\ last <= len /\ last <= through
  BY <1>1, <1>5
<1>9. \A i \in before + 1 .. last : roll[i] \in Registration
  BY <1>1, <1>4, <1>8
<1>10. /\ page \in Seq(Registration)
       /\ Len(page) = IF before + 1 <= last THEN last - (before + 1) + 1 ELSE 0
       /\ \A i \in 1 .. last - (before + 1) + 1 : page[i] = roll[before + 1 + i - 1]
  BY <1>6, <1>9, SubSeqProperties
<1>11. QED
  <2>1. DOMAIN page = 1 .. Len(page)
    BY <1>10
  <2>2. ASSUME NEW n \in DOMAIN page
        PROVE  before + n \in DOMAIN roll /\ page[n] = roll[before + n]
    BY <1>1, <1>4, <1>8, <1>10, <2>1, <2>2
  <2>3. ASSUME NEW m \in DOMAIN roll, before < m, m <= before + PageSize
        PROVE  \E n \in DOMAIN page : page[n] = roll[m]
    <3>1. m \in 1 .. len /\ len \in Nat
      BY <1>1, <1>4
    <3>2. m <= through /\ through \in Nat
      BY <1>3, <2>3
    <3>3. m <= last
      BY <1>5, <3>1, <3>2
    <3>4. m - before \in 1 .. last - (before + 1) + 1 /\ before + 1 <= last
      BY <1>1, <2>3, <3>3
    <3>5. page[m - before] = roll[m] /\ m - before \in DOMAIN page
      BY <1>1, <1>10, <2>1, <3>4
    <3>6. QED
      BY <3>5
  <2>4. QED
    BY <1>2, <1>3, <1>7, <1>10, <2>2, <2>3

\* The places of a page on the roll, from before to through.
Holds(page, before, through) ==
    /\ \A n \in DOMAIN page : before + n \in DOMAIN roll /\ page[n] = roll[before + n]
    /\ \A m \in DOMAIN roll :
            before < m /\ m <= through => \E n \in DOMAIN page : page[n] = roll[m]

LEMMA PageHolds ==
    ASSUME roll \in Seq(Registration), NEW p \in Nat \ {0}
    PROVE  \E page \in Seq(Registration), before, through \in Nat :
                /\ page = Page(p)
                /\ before = (p - 1) * PageSize /\ through = p * PageSize
                /\ p = 1 => before = 0
                /\ Holds(page, before, through)
<1>1. PageSize \in Nat \ {0}
  BY AttendeeImportAssumption
<1>2. PICK before \in Nat : before = (p - 1) * PageSize
  BY <1>1
<1>3. PICK through \in Nat : through = p * PageSize
  BY <1>1
<1>4. PICK page \in Seq(Registration) : page = Page(p)
  BY PageFacts
<1>5. Holds(page, before, through)
  BY <1>2, <1>3, <1>4, PageFacts DEF Holds
<1>6. p = 1 => before = 0
  BY <1>1, <1>2
<1>7. QED
  BY <1>2, <1>3, <1>4, <1>5, <1>6

\* What has been fetched with the next page: each badge is one fetched before
\* or on the roll, the latter behind the former.
Follows(got, badges, before, through) ==
    /\ got \in Seq(Registration)
    /\ \A i \in DOMAIN got :
         \/ i \in DOMAIN badges /\ got[i] = badges[i]
         \/ \E m \in DOMAIN roll : m = before + i - Len(badges) /\ got[i] = roll[m]
    /\ \A i \in DOMAIN badges : i \in DOMAIN got /\ got[i] = badges[i]
    /\ \A m \in DOMAIN roll :
         before < m /\ m <= through => \E n \in DOMAIN got : got[n] = roll[m]
    /\ got = <<>> => badges = <<>>

LEMMA NextPage ==
    ASSUME roll \in Seq(Registration),
           NEW badges \in Seq(Registration),
           NEW page \in Seq(Registration), NEW before \in Nat, NEW through \in Nat,
           Holds(page, before, through),
           NEW got, got = badges \o page
    PROVE  Follows(got, badges, before, through)
<1>1. /\ \A n \in DOMAIN page : before + n \in DOMAIN roll /\ page[n] = roll[before + n]
      /\ \A m \in DOMAIN roll :
            before < m /\ m <= through => \E n \in DOMAIN page : page[n] = roll[m]
  BY DEF Holds
<1>2. PICK len \in Nat : len = Len(badges) /\ DOMAIN badges = 1 .. len
  BY LenProperties
<1>3. PICK more \in Nat : more = Len(page) /\ DOMAIN page = 1 .. more
  BY <1>1, LenProperties
<1>4. /\ got \in Seq(Registration)
      /\ Len(got) = len + more
      /\ \A i \in 1 .. len + more : got[i] = IF i <= len THEN badges[i] ELSE page[i - len]
  BY <1>2, <1>3, ConcatProperties
<1>5. DOMAIN got = 1 .. len + more
  BY <1>4, LenProperties
<1>6. ASSUME NEW i \in DOMAIN got
      PROVE  \/ i \in DOMAIN badges /\ got[i] = badges[i]
             \/ \E m \in DOMAIN roll : m = before + i - len /\ got[i] = roll[m]
  <2>1. CASE i <= len
    BY <1>2, <1>4, <1>5, <1>6, <2>1
  <2>2. CASE ~(i <= len)
    <3>1. i - len \in 1 .. more /\ got[i] = page[i - len]
      BY <1>2, <1>4, <1>5, <1>6, <2>2
    <3>2. before + (i - len) \in DOMAIN roll /\ got[i] = roll[before + (i - len)]
      BY <1>1, <1>3, <3>1
    <3>3. before + (i - len) = before + i - len
      BY <3>1
    <3>4. QED
      BY <3>2, <3>3
  <2>3. QED
    BY <2>1, <2>2
<1>7. ASSUME NEW i \in DOMAIN badges
      PROVE  i \in DOMAIN got /\ got[i] = badges[i]
  BY <1>2, <1>4, <1>5, <1>7
<1>8. ASSUME NEW m \in DOMAIN roll, before < m, m <= through
      PROVE  \E n \in DOMAIN got : got[n] = roll[m]
  <2>1. PICK n \in 1 .. more : page[n] = roll[m]
    BY <1>1, <1>3, <1>8
  <2>2. len + n \in DOMAIN got /\ got[len + n] = roll[m]
    BY <1>2, <1>3, <1>4, <1>5, <2>1
  <2>3. QED
    BY <2>2
<1>9. ASSUME got = <<>>
      PROVE  badges = <<>>
  <2>1. len = 0
    BY <1>2, <1>3, <1>4, <1>9
  <2>2. QED
    BY <1>2, <2>1
<1>10. QED
  BY <1>2, <1>4, <1>6, <1>7, <1>8, <1>9 DEF Follows

-----------------------------------------------------------------------------
(* An import takes a step of its own.                                       *)

LEMMA RunMoves ==
    ASSUME ImportInv,
           NEW k \in Imports, Running(k),
           NEW import \in Import, Put(k, import), import.pc \notin {"off", "ended"},
           UNCHANGED <<roll, types, changes, started, importInProgress, crashed>>,
           synced' \in [Numbers -> 0 .. MaxVersion],
           numbered' \in [Numbers -> Numbers \cup {0}],
           uploaded' \subseteq Numbers,
           RollInv', Ordered(import)', Reading(import)'
    PROVE  ImportInv'
<1>1. imports \in [Imports -> Import]
  BY DEF ImportInv, TypeOK
<1>2. /\ imports' \in [Imports -> Import]
      /\ imports'[k] = import
      /\ \A j \in Imports : j # k => imports'[j] = imports[j]
  BY <1>1 DEF Put
<1>3. \A j \in Imports : Running(j) => j = k
  <2>1. \A j \in Imports : Running(j) => j = started
    BY DEF ImportInv, Alone
  <2>2. QED
    BY <2>1
<1>4. TypeOK'
  BY <1>2 DEF ImportInv, TypeOK
<1>5. Alone'
  <2>1. k = started /\ importInProgress
    BY DEF ImportInv, Alone
  <2>2. \A j \in Imports : Running(j)' => j = k
    BY <1>2, <1>3 DEF Running
  <2>3. \A j \in Imports : imports'[j].pc = "off" => imports[j].pc = "off"
    BY <1>2
  <2>4. QED
    BY <2>1, <2>2, <2>3 DEF ImportInv, Alone
<1>6. ASSUME NEW j \in Imports, Running(j)'
      PROVE  Ordered(imports[j])' /\ Reading(imports[j])'
  <2>1. imports'[j] = import
    BY <1>2, <1>3, <1>6 DEF Running
  <2>2. Ordered(imports[j])'
    BY <2>1 DEF Ordered
  <2>3. Reading(imports[j])'
    BY <2>1 DEF Reading, Due, Ahead, Stored
  <2>4. QED
    BY <2>2, <2>3
<1>7. QED
  BY <1>4, <1>5, <1>6 DEF ImportInv

Unmoved ==
    UNCHANGED <<roll, types, changes, synced, numbered, started, importInProgress, crashed>>

LEMMA RunStep ==
    ASSUME ImportInv,
           NEW k \in Imports, Running(k),
           NEW import \in Import, Put(k, import),
           import.pc \notin {"off", "ended"}, Ordered(import), Reading(import),
           Unmoved, uploaded' \subseteq Numbers
    PROVE  ImportInv'
<1>1. RollInv'
  BY DEF ImportInv, RollInv, Unmoved
<1>2. Ordered(import)'
  BY DEF Ordered, InOrder, Unmoved
<1>3. Reading(import)'
  BY DEF Reading, OnRoll, Due, Ahead, Stored, Unmoved
<1>4. QED
  BY <1>1, <1>2, <1>3, RunMoves DEF Unmoved, ImportInv, TypeOK

\* An import that runs, as its steps find it.
LEMMA Found ==
    ASSUME ImportInv, NEW k \in Imports, Running(k)
    PROVE  /\ imports[k] \in Import
           /\ Ordered(imports[k])
           /\ Reading(imports[k])
           /\ roll \in Seq(Registration)
           /\ types \subseteq BadgeTypes
           /\ OnRoll \subseteq Registration
<1>1. /\ imports[k] \in Import
      /\ Ordered(imports[k])
      /\ Reading(imports[k])
      /\ roll \in Seq(Registration)
      /\ types \subseteq BadgeTypes
  BY DEF ImportInv, TypeOK
<1>2. OnRoll \subseteq Registration
  BY <1>1, LenProperties, ElementOfSeq DEF OnRoll
<1>3. QED
  BY <1>1, <1>2

LEMMA SettleStep ==
    ASSUME ImportInv, NEW k \in Imports, Running(k),
           Put(k, Settled(imports[k], FALSE)),
           Unmoved, uploaded' \subseteq Numbers
    PROVE  ImportInv'
<1>1. /\ imports[k] \in Import
      /\ Ordered(imports[k])
      /\ Reading(imports[k])
  BY Found
<1>2. PICK q : q = [imports[k] EXCEPT !.pc = "settled", !.ok = FALSE]
  OBVIOUS
<1>3. /\ q \in Import /\ q.pc = "settled" /\ ~q.ok
      /\ q.page = imports[k].page /\ q.badges = imports[k].badges
      /\ q.kept = imports[k].kept
  BY <1>1, <1>2 DEF Import, Phases
<1>4. Put(k, q)
  BY <1>2 DEF Settled
<1>5. Ordered(q)
  BY <1>1, <1>3 DEF Ordered
<1>6. Reading(q)
  BY <1>1, <1>3 DEF Reading
<1>7. QED
  BY <1>3, <1>4, <1>5, <1>6, RunStep

\* Nothing has been fetched yet, so nothing is owed.
LEMMA NothingFetched ==
    ASSUME NEW import \in Import, import.page >= 1, ~import.ok \/ import.pc = "settled",
           import.badges = <<>>, import.kept = {}
    PROVE  Ordered(import) /\ Reading(import)
  BY DEF Ordered, InOrder, Reading

LEMMA ParseCSVStep ==
    ASSUME ImportInv, NEW k \in Imports, ParseCSV(k)
    PROVE  ImportInv'
<1>1. imports[k].pc = "csv" /\ Running(k)
  BY DEF ParseCSV, Running
<1>2. /\ imports[k] \in Import
      /\ Reading(imports[k])
  BY <1>1, Found
<1>3. Unmoved /\ uploaded' \subseteq Numbers
  BY DEF ParseCSV, Unmoved, external, Attendees, Process, ImportInv, TypeOK
<1>4. ASSUME NEW m \in Numbers, NEW n \in Numbers,
             Put(k, [imports[k] EXCEPT !.pc = "create", !.rows = <<m, n>>])
      PROVE  ImportInv'
  <2>1. PICK rows \in Seq(Numbers) : rows = <<m, n>>
    <3>1. <<m, n>> \in Seq(Numbers)
      BY <1>4
    <3>2. QED
      BY <3>1
  <2>2. PICK q : q = [imports[k] EXCEPT !.pc = "create", !.rows = rows]
    OBVIOUS
  <2>3. q \in Import /\ q.pc = "create" /\ Put(k, q)
    BY <1>2, <1>4, <2>1, <2>2 DEF Import, Phases
  <2>4. q.page >= 1 /\ ~q.ok /\ q.badges = <<>> /\ q.kept = {}
    BY <1>1, <1>2, <2>2 DEF Reading, Import
  <2>5. Ordered(q) /\ Reading(q)
    BY <2>3, <2>4, NothingFetched
  <2>6. QED
    BY <1>1, <1>3, <2>3, <2>5, RunStep
<1>5. CASE Put(k, Settled(imports[k], FALSE))
  BY <1>1, <1>3, <1>5, SettleStep
<1>6. QED
  BY <1>4, <1>5 DEF ParseCSV

LEMMA CreateAttendeeStep ==
    ASSUME ImportInv, NEW k \in Imports, CreateAttendee(k)
    PROVE  ImportInv'
<1>1. imports[k].pc = "create" /\ Running(k)
  BY DEF CreateAttendee, Running
<1>2. /\ imports[k] \in Import
      /\ Reading(imports[k])
  BY <1>1, Found
<1>3. Unmoved
  BY DEF CreateAttendee, Unmoved, external, Process
<1>4. CASE imports[k].rows = <<>>
  <2>1. PICK q : q = [imports[k] EXCEPT !.pc = "settled", !.ok = TRUE]
    OBVIOUS
  <2>2. q \in Import /\ q.pc = "settled"
    BY <1>2, <2>1 DEF Import, Phases
  <2>3. Put(k, q) /\ uploaded' \subseteq Numbers
    BY <1>4, <2>1 DEF CreateAttendee, Settled, ImportInv, TypeOK
  <2>4. q.page >= 1 /\ q.badges = <<>> /\ q.kept = {}
    BY <1>1, <1>2, <2>1 DEF Reading, Import
  <2>5. Ordered(q) /\ Reading(q)
    BY <2>2, <2>4, NothingFetched
  <2>6. QED
    BY <1>1, <1>3, <2>2, <2>3, <2>5, RunStep
<1>5. CASE imports[k].rows # <<>>
  <2>1. imports[k].rows \in Seq(Numbers)
    BY <1>2 DEF Import
  <2>2. PICK rest \in Seq(Numbers) : rest = Tail(imports[k].rows)
    BY <1>5, <2>1, HeadTailProperties
  <2>3. Head(imports[k].rows) \in Numbers
    BY <1>5, <2>1, HeadTailProperties
  <2>4. PICK q : q = [imports[k] EXCEPT !.rows = rest]
    OBVIOUS
  <2>5. q \in Import /\ q.pc = "create"
    BY <1>1, <1>2, <2>4 DEF Import
  <2>6. Put(k, q)
    BY <1>5, <2>2, <2>4 DEF CreateAttendee
  <2>7. uploaded' \subseteq Numbers
    BY <1>5, <2>3 DEF CreateAttendee, ImportInv, TypeOK
  <2>8. q.page >= 1 /\ ~q.ok /\ q.badges = <<>> /\ q.kept = {}
    BY <1>1, <1>2, <2>4 DEF Reading, Import
  <2>9. Ordered(q) /\ Reading(q)
    BY <2>5, <2>8, NothingFetched
  <2>10. QED
    BY <1>1, <1>3, <2>5, <2>6, <2>7, <2>9, RunStep
<1>6. QED
  BY <1>4, <1>5

-----------------------------------------------------------------------------
(* An import ends, with the process or by itself, or starts.                *)

\* No import runs after the step, and those that have started stay so.
LEMMA NoneRuns ==
    ASSUME ImportInv,
           imports' \in [Imports -> Import],
           \A j \in Imports : ~Running(j)' /\ (imports'[j].pc = "off" => imports[j].pc = "off"),
           importInProgress' = FALSE, crashed' \in BOOLEAN,
           UNCHANGED <<roll, types, changes, synced, numbered, uploaded, started>>
    PROVE  ImportInv'
<1>1. TypeOK'
  BY DEF ImportInv, TypeOK
<1>2. Alone'
  BY DEF ImportInv, Alone
<1>3. RollInv'
  BY DEF ImportInv, RollInv
<1>4. QED
  BY <1>1, <1>2, <1>3 DEF ImportInv

LEMMA CrashStep ==
    ASSUME ImportInv, Crash, UNCHANGED <<external, Attendees, started>>
    PROVE  ImportInv'
<1>1. imports \in [Imports -> Import]
  BY DEF ImportInv, TypeOK
<1>2. ASSUME NEW j \in Imports
      PROVE  /\ imports'[j] \in Import /\ imports'[j].pc \in {"off", "ended"}
             /\ imports'[j].pc = "off" => imports[j].pc = "off"
  <2>1. imports'[j] = IF Running(j) THEN [imports[j] EXCEPT !.pc = "ended"] ELSE imports[j]
    BY <1>2 DEF Crash
  <2>2. imports[j] \in Import
    BY <1>1, <1>2
  <2>3. CASE Running(j)
    <3>1. PICK q : q = [imports[j] EXCEPT !.pc = "ended"]
      OBVIOUS
    <3>2. q \in Import /\ q.pc = "ended"
      BY <2>2, <3>1 DEF Import, Phases
    <3>3. QED
      BY <2>1, <2>3, <3>1, <3>2
  <2>4. CASE ~Running(j)
    BY <2>1, <2>2, <2>4 DEF Running
  <2>5. QED
    BY <2>3, <2>4
<1>3. DOMAIN imports' = Imports /\ imports' = [j \in Imports |-> imports'[j]]
  BY DEF Crash
<1>4. imports' \in [Imports -> Import]
  BY <1>2, <1>3
<1>5. \A j \in Imports : ~Running(j)' /\ (imports'[j].pc = "off" => imports[j].pc = "off")
  BY <1>2 DEF Running
<1>6. importInProgress' = FALSE /\ crashed' \in BOOLEAN
  BY DEF Crash
<1>7. UNCHANGED <<roll, types, changes, synced, numbered, uploaded, started>>
  BY DEF external, Attendees
<1>8. QED
  BY <1>4, <1>5, <1>6, <1>7, NoneRuns

LEMMA EndImportStep ==
    ASSUME ImportInv, NEW k \in Imports, EndImport(k)
    PROVE  ImportInv'
<1>1. imports \in [Imports -> Import] /\ crashed \in BOOLEAN
  BY DEF ImportInv, TypeOK
<1>2. imports[k].pc = "settled" /\ Running(k)
  BY DEF EndImport, Running
<1>3. PICK q : q = [imports[k] EXCEPT !.pc = "ended"]
  OBVIOUS
<1>4. q \in Import /\ q.pc = "ended"
  BY <1>1, <1>3 DEF Import, Phases
<1>5. imports' = [imports EXCEPT ![k] = q]
  BY <1>3 DEF EndImport, Put
<1>6. /\ imports' \in [Imports -> Import]
      /\ imports'[k] = q
      /\ \A j \in Imports : j # k => imports'[j] = imports[j]
  BY <1>1, <1>4, <1>5
<1>7. \A j \in Imports : Running(j) => j = k
  <2>1. \A j \in Imports : Running(j) => j = started
    BY DEF ImportInv, Alone
  <2>2. QED
    BY <1>2, <2>1
<1>8. \A j \in Imports : ~Running(j)' /\ (imports'[j].pc = "off" => imports[j].pc = "off")
  BY <1>4, <1>6, <1>7 DEF Running
<1>9. importInProgress' = FALSE /\ crashed' = crashed
  BY DEF EndImport
<1>10. UNCHANGED <<roll, types, changes, synced, numbered, uploaded, started>>
  BY DEF EndImport, external, Attendees
<1>11. QED
  BY <1>1, <1>6, <1>8, <1>9, <1>10, NoneRuns

LEMMA StartStep ==
    ASSUME ImportInv, NEW import \in Import, Start(import),
           import.pc \notin {"off", "ended"}, import.page >= 1, ~import.ok,
           import.badges = <<>>, import.kept = {}
    PROVE  ImportInv'
<1>1. /\ imports \in [Imports -> Import] /\ started \in 0 .. MaxImports /\ MaxImports \in Nat
  BY AttendeeImportAssumption DEF ImportInv, TypeOK
<1>2. PICK k \in Imports : k = started + 1
  BY <1>1 DEF Start, Imports
<1>3. /\ imports' \in [Imports -> Import]
      /\ imports'[k] = import
      /\ \A j \in Imports : j # k => imports'[j] = imports[j]
  BY <1>1, <1>2 DEF Start, Put
<1>4. started' = k /\ importInProgress' = TRUE /\ started' \in 0 .. MaxImports
  BY <1>1, <1>2 DEF Start
<1>5. UNCHANGED <<roll, types, changes, synced, numbered, uploaded, crashed>>
  BY DEF Start, external, Attendees
<1>6. \A j \in Imports : ~Running(j)
  BY DEF Start, ImportInv, Alone
<1>7. \A j \in Imports : Running(j)' => j = k
  BY <1>3, <1>6 DEF Running
<1>8. TypeOK'
  BY <1>3, <1>4, <1>5 DEF ImportInv, TypeOK
<1>9. Alone'
  <2>1. ASSUME NEW j \in Imports, imports'[j].pc = "off"
        PROVE  j > started'
    <3>1. j # k /\ imports[j].pc = "off"
      BY <1>3, <2>1
    <3>2. j > started /\ j \in Int
      BY <2>1, <3>1 DEF ImportInv, Alone, Imports
    <3>3. QED
      BY <1>1, <1>2, <1>4, <3>1, <3>2
  <2>2. QED
    BY <1>4, <1>7, <2>1 DEF Alone
<1>10. RollInv'
  BY <1>5 DEF ImportInv, RollInv
<1>11. Ordered(import) /\ Reading(import)
  BY NothingFetched
<1>12. ASSUME NEW j \in Imports, Running(j)'
       PROVE  Ordered(imports[j])' /\ Reading(imports[j])'
  <2>1. imports'[j] = import
    BY <1>3, <1>7, <1>12
  <2>2. Ordered(imports[j])'
    BY <1>5, <1>11, <2>1 DEF Ordered, InOrder
  <2>3. Reading(imports[j])'
    BY <1>5, <1>11, <2>1 DEF Reading, OnRoll, Due, Ahead, Stored
  <2>4. QED
    BY <2>2, <2>3
<1>13. QED
  BY <1>8, <1>9, <1>10, <1>12 DEF ImportInv

\* An import starts with nothing fetched.
LEMMA StartSteps ==
    ASSUME ImportInv, StartImportCSV \/ StartSync
    PROVE  ImportInv'
<1>1. Off \in Import
  <2>1. <<>> \in Seq(Registration) /\ <<>> \in Seq(Numbers)
    BY EmptySeq
  <2>2. QED
    BY <2>1 DEF Off, Import, Phases
<1>2. CASE StartImportCSV
  <2>1. PICK q : q = [Off EXCEPT !.pc = "csv"]
    OBVIOUS
  <2>2. q \in Import /\ q.pc = "csv"
    BY <1>1, <2>1 DEF Import, Phases
  <2>3. q.page >= 1 /\ ~q.ok /\ q.badges = <<>> /\ q.kept = {}
    BY <2>1 DEF Off
  <2>4. Start(q)
    BY <1>2, <2>1 DEF StartImportCSV
  <2>5. QED
    BY <2>2, <2>3, <2>4, StartStep
<1>3. CASE StartSync
  <2>1. PICK n \in Numbers \cup {0} : Start([Off EXCEPT !.pc = "session", !.single = n])
    BY <1>3 DEF StartSync
  <2>2. PICK q : q = [Off EXCEPT !.pc = "session", !.single = n]
    OBVIOUS
  <2>3. q \in Import /\ q.pc = "session"
    BY <1>1, <2>1, <2>2 DEF Import, Phases
  <2>4. q.page >= 1 /\ ~q.ok /\ q.badges = <<>> /\ q.kept = {}
    BY <2>2 DEF Off
  <2>5. Start(q)
    BY <2>1, <2>2
  <2>6. QED
    BY <2>3, <2>4, <2>5, StartStep
<1>4. QED
  BY <1>2, <1>3

-----------------------------------------------------------------------------
(* Tabletop.Events.                                                         *)

LEMMA GetSessionStep ==
    ASSUME ImportInv, NEW k \in Imports, GetSession(k)
    PROVE  ImportInv'
<1>1. imports[k].pc = "session" /\ Running(k)
  BY DEF GetSession, Running
<1>2. imports[k] \in Import /\ Reading(imports[k])
  BY <1>1, Found
<1>3. uploaded' \subseteq Numbers
  BY DEF GetSession, Attendees, ImportInv, TypeOK
<1>4. CASE Put(k, [imports[k] EXCEPT !.pc = "types"]) /\ UNCHANGED Process
  <2>1. PICK q : q = [imports[k] EXCEPT !.pc = "types"]
    OBVIOUS
  <2>2. q \in Import /\ q.pc = "types" /\ Put(k, q)
    BY <1>2, <1>4, <2>1 DEF Import, Phases
  <2>3. q.page >= 1 /\ ~q.ok /\ q.badges = <<>> /\ q.kept = {}
    BY <1>1, <1>2, <2>1 DEF Reading, Import
  <2>4. Ordered(q) /\ Reading(q)
    BY <2>2, <2>3, NothingFetched
  <2>5. Unmoved
    BY <1>4 DEF GetSession, Unmoved, external, Attendees, Process
  <2>6. QED
    BY <1>1, <1>3, <2>2, <2>4, <2>5, RunStep
<1>5. CASE Put(k, Settled(imports[k], FALSE)) /\ UNCHANGED Process
  <2>1. Unmoved
    BY <1>5 DEF GetSession, Unmoved, external, Attendees, Process
  <2>2. QED
    BY <1>1, <1>3, <1>5, <2>1, SettleStep
<1>6. CASE Crash /\ UNCHANGED started
  BY <1>6, CrashStep DEF GetSession
<1>7. QED
  BY <1>4, <1>5, <1>6 DEF GetSession

LEMMA GetBadgeTypesStep ==
    ASSUME ImportInv, NEW k \in Imports, GetBadgeTypes(k)
    PROVE  ImportInv'
<1>1. imports[k].pc = "types" /\ Running(k)
  BY DEF GetBadgeTypes, Running
<1>2. imports[k] \in Import /\ Reading(imports[k]) /\ types \subseteq BadgeTypes
  BY <1>1, Found
<1>3. uploaded' \subseteq Numbers
  BY DEF GetBadgeTypes, Attendees, ImportInv, TypeOK
<1>4. CASE types = {} /\ Put(k, Settled(imports[k], FALSE)) /\ UNCHANGED Process
  <2>1. Unmoved
    BY <1>4 DEF GetBadgeTypes, Unmoved, external, Attendees, Process
  <2>2. QED
    BY <1>1, <1>3, <1>4, <2>1, SettleStep
<1>5. ASSUME NEW pc \in {"badges", "badge"},
             Put(k, [imports[k] EXCEPT !.pc = pc, !.types = types]), UNCHANGED Process
      PROVE  ImportInv'
  <2>1. PICK q : q = [imports[k] EXCEPT !.pc = pc, !.types = types]
    OBVIOUS
  <2>2. q \in Import /\ q.pc = pc /\ Put(k, q)
    BY <1>2, <1>5, <2>1 DEF Import, Phases
  <2>3. q.page >= 1 /\ ~q.ok /\ q.badges = <<>> /\ q.kept = {}
    BY <1>1, <1>2, <2>1 DEF Reading, Import
  <2>4. Ordered(q) /\ Reading(q)
    BY <2>2, <2>3, NothingFetched
  <2>5. Unmoved
    BY <1>5 DEF GetBadgeTypes, Unmoved, external, Attendees, Process
  <2>6. q.pc \notin {"off", "ended"}
    BY <1>5, <2>2
  <2>7. QED
    BY <1>1, <1>3, <2>2, <2>4, <2>5, <2>6, RunStep
<1>6. CASE Crash /\ UNCHANGED started
  BY <1>6, CrashStep DEF GetBadgeTypes
<1>7. PICK pc \in {"badges", "badge"} : pc = IF imports[k].single = 0 THEN "badges" ELSE "badge"
  OBVIOUS
<1>8. QED
  BY <1>4, <1>5, <1>6, <1>7 DEF GetBadgeTypes

LEMMA GetBadgeStep ==
    ASSUME ImportInv, NEW k \in Imports, GetBadge(k)
    PROVE  ImportInv'
<1>1. imports[k].pc = "badge" /\ Running(k)
  BY DEF GetBadge, Running
<1>2. /\ imports[k] \in Import /\ Reading(imports[k])
      /\ roll \in Seq(Registration) /\ OnRoll \subseteq Registration
  BY <1>1, Found
<1>3. Unmoved /\ uploaded' \subseteq Numbers
  BY DEF GetBadge, Unmoved, external, Attendees, Process, ImportInv, TypeOK
<1>4. ASSUME NEW r \in OnRoll,
             Put(k, [imports[k] EXCEPT !.pc = "products", !.badges = <<r>>, !.kept = {r}])
      PROVE  ImportInv'
  <2>1. r \in Registration
    BY <1>2, <1>4
  <2>2. PICK one \in Seq(Registration) : one = <<r>> /\ DOMAIN one = {1} /\ one[1] = r
    <3>1. <<r>> \in Seq(Registration) /\ DOMAIN <<r>> = {1} /\ <<r>>[1] = r
      BY <2>1
    <3>2. QED
      BY <3>1
  <2>3. PICK q : q = [imports[k] EXCEPT !.pc = "products", !.badges = one, !.kept = {r}]
    OBVIOUS
  <2>4. q \in Import /\ Put(k, q)
    BY <1>2, <1>4, <2>1, <2>2, <2>3 DEF Import, Phases
  <2>5. q.pc = "products" /\ q.badges = one /\ q.kept = {r} /\ q.page >= 1 /\ ~q.ok
    BY <1>1, <1>2, <2>3 DEF Reading, Import
  <2>6. PICK m \in DOMAIN roll : r = roll[m]
    BY <1>4 DEF OnRoll
  <2>7. \A j \in DOMAIN roll : r.number = roll[j].number => j = m
    BY <2>6 DEF ImportInv, RollInv
  <2>8. synced[r.number] <= r.version /\ r.version <= r.version
    BY <2>1, <2>6 DEF ImportInv, RollInv, Registration
  <2>9. Ordered(q)
    BY <2>2, <2>5, <2>6, <2>7, <2>8 DEF Ordered, InOrder
  <2>10. Due(r, q)
    BY <2>2, <2>5 DEF Due
  <2>11. Reading(q)
    BY <1>4, <2>2, <2>5, <2>10 DEF Reading
  <2>12. QED
    BY <1>1, <1>3, <2>4, <2>5, <2>9, <2>11, RunStep
<1>5. CASE Put(k, Settled(imports[k], FALSE))
  BY <1>1, <1>3, <1>5, SettleStep
<1>6. QED
  BY <1>4, <1>5 DEF GetBadge

LEMMA GetSoldProductsStep ==
    ASSUME ImportInv, NEW k \in Imports, GetSoldProducts(k)
    PROVE  ImportInv'
<1>1. imports[k].pc = "products" /\ Running(k)
  BY DEF GetSoldProducts, Running
<1>2. imports[k] \in Import /\ Ordered(imports[k]) /\ Reading(imports[k])
  BY <1>1, Found
<1>3. Unmoved /\ uploaded' \subseteq Numbers
  BY DEF GetSoldProducts, Unmoved, external, Attendees, Process, ImportInv, TypeOK
<1>4. CASE Put(k, [imports[k] EXCEPT !.pc = "upsert"])
  <2>1. PICK q : q = [imports[k] EXCEPT !.pc = "upsert"]
    OBVIOUS
  <2>2. q \in Import /\ q.pc = "upsert" /\ Put(k, q)
    BY <1>2, <1>4, <2>1 DEF Import, Phases
  <2>3. /\ q.page = imports[k].page /\ q.ok = imports[k].ok /\ q.badges = imports[k].badges
        /\ q.kept = imports[k].kept /\ q.shifted = imports[k].shifted
    BY <1>2, <2>1 DEF Import
  <2>4. Ordered(q)
    BY <1>2, <2>3 DEF Ordered
  <2>5. Reading(q)
    BY <1>1, <1>2, <2>2, <2>3 DEF Reading, Due
  <2>6. QED
    BY <1>1, <1>3, <2>2, <2>4, <2>5, RunStep
<1>5. CASE Put(k, Settled(imports[k], FALSE))
  BY <1>1, <1>3, <1>5, SettleStep
<1>6. QED
  BY <1>4, <1>5 DEF GetSoldProducts

\* The next page keeps what has been fetched in order, and nothing on the pages
\* up to it is left out.
LEMMA FetchedInOrder ==
    ASSUME ImportInv, NEW k \in Imports, imports[k].pc = "badges",
           NEW page \in Seq(Registration), NEW before \in Nat, NEW through \in Nat,
           Holds(page, before, through),
           NEW got, got = imports[k].badges \o page
    PROVE  InOrder(got)
<1>1. Running(k)
  BY DEF Running
<1>2. PICK badges \in Seq(Registration) : badges = imports[k].badges
  BY <1>1, Found DEF Import
<1>3. roll \in Seq(Registration) /\ got = badges \o page
  BY <1>1, <1>2, Found
<1>4. PICK len \in Nat : len = Len(badges) /\ DOMAIN badges = 1 .. len
  BY LenProperties
<1>5. Follows(got, badges, before, through)
  BY <1>3, NextPage
<1>6. \A i \in DOMAIN got :
        \/ i \in DOMAIN badges /\ got[i] = badges[i]
        \/ \E m \in DOMAIN roll : m = before + i - len /\ got[i] = roll[m]
  BY <1>4, <1>5 DEF Follows
<1>7. /\ \A i \in DOMAIN badges : synced[badges[i].number] <= badges[i].version
      /\ \A i, j \in DOMAIN badges :
            i < j /\ badges[i].number = badges[j].number => badges[i].version <= badges[j].version
      /\ \A i \in DOMAIN badges, j \in DOMAIN roll :
            badges[i].number = roll[j].number => badges[i].version <= roll[j].version
  BY <1>1, <1>2, Found DEF Ordered, InOrder
<1>8. /\ \A i, j \in DOMAIN roll : roll[i].number = roll[j].number => i = j
      /\ \A i \in DOMAIN roll : synced[roll[i].number] <= roll[i].version
      /\ \A i \in DOMAIN roll : roll[i].version \in Int
  <2>1. \A i \in DOMAIN roll : roll[i] \in Registration
    BY <1>3, ElementOfSeq, LenProperties
  <2>2. QED
    BY <2>1 DEF ImportInv, RollInv, Registration
<1>9. ASSUME NEW i \in DOMAIN got, NEW j \in DOMAIN got,
             i < j, got[i].number = got[j].number
      PROVE  got[i].version <= got[j].version
  <2>1. DOMAIN got = 1 .. Len(got) /\ Len(got) \in Nat
    BY <1>5, LenProperties DEF Follows
  <2>2. CASE i \in DOMAIN badges /\ got[i] = badges[i]
    BY <1>6, <1>7, <1>9, <2>2
  <2>3. CASE \E m \in DOMAIN roll : m = before + i - len /\ got[i] = roll[m]
    <3>1. PICK m \in DOMAIN roll : m = before + i - len /\ got[i] = roll[m]
      BY <2>3
    <3>2. CASE j \in DOMAIN badges /\ got[j] = badges[j]
      <4>1. i \in DOMAIN badges
        BY <1>4, <1>9, <2>1, <3>2
      <4>2. got[i] = badges[i]
        BY <1>5, <4>1 DEF Follows
      <4>3. QED
        BY <1>7, <1>9, <3>2, <4>1, <4>2
    <3>3. CASE \E n \in DOMAIN roll : n = before + j - len /\ got[j] = roll[n]
      <4>1. PICK n \in DOMAIN roll : n = before + j - len /\ got[j] = roll[n]
        BY <3>3
      <4>2. m = n
        BY <1>8, <1>9, <3>1, <4>1
      <4>3. QED
        BY <1>8, <3>1, <4>1, <4>2
    <3>4. QED
      BY <1>6, <1>9, <3>2, <3>3
  <2>4. QED
    BY <1>6, <1>9, <2>2, <2>3
<1>10. ASSUME NEW i \in DOMAIN got
       PROVE  /\ synced[got[i].number] <= got[i].version
              /\ \A j \in DOMAIN roll :
                    got[i].number = roll[j].number => got[i].version <= roll[j].version
  <2>1. CASE i \in DOMAIN badges /\ got[i] = badges[i]
    BY <1>7, <2>1
  <2>2. CASE \E m \in DOMAIN roll : got[i] = roll[m]
    BY <1>8, <2>2
  <2>3. QED
    BY <1>6, <1>10, <2>1, <2>2
<1>11. QED
  BY <1>9, <1>10 DEF InOrder

\* What has to be stored is on the roll, and it has been fetched or comes
\* behind the pages read.
NoneSkipped(import, kept, badges, through) ==
    /\ kept \subseteq OnRoll
    /\ \A r \in kept : \A i \in DOMAIN badges : badges[i].number = r.number => badges[i] = r
    /\ ~import.shifted => \A r \in kept :
         \/ \E i \in DOMAIN badges : badges[i] = r
         \/ \E i \in DOMAIN roll : roll[i] = r /\ i > through

LEMMA FetchedAll ==
    ASSUME ImportInv, NEW k \in Imports, imports[k].pc = "badges",
           NEW page \in Seq(Registration), NEW before \in Nat, NEW through \in Nat,
           Holds(page, before, through),
           NEW got, got = imports[k].badges \o page,
           imports[k].page = 1 => before = 0,
           \A r : Ahead(r, imports[k]) => \E i \in DOMAIN roll : roll[i] = r /\ i > before,
           NEW kept, kept = IF imports[k].page = 1 THEN OnRoll ELSE imports[k].kept
    PROVE  NoneSkipped(imports[k], kept, got, through)
<1>1. Running(k)
  BY DEF Running
<1>2. PICK badges \in Seq(Registration) : badges = imports[k].badges
  BY <1>1, Found DEF Import
<1>3. PICK p : p = imports[k].page
  OBVIOUS
<1>4. roll \in Seq(Registration) /\ got = badges \o page
  BY <1>1, <1>2, Found
<1>5. kept = IF p = 1 THEN OnRoll ELSE imports[k].kept
  BY <1>3
<1>6. /\ \A i \in DOMAIN got :
            \/ i \in DOMAIN badges /\ got[i] = badges[i]
            \/ \E m \in DOMAIN roll : got[i] = roll[m]
      /\ \A i \in DOMAIN badges : \E n \in DOMAIN got : got[n] = badges[i]
      /\ \A m \in DOMAIN roll :
            before < m /\ m <= through => \E n \in DOMAIN got : got[n] = roll[m]
  <2>1. Follows(got, badges, before, through)
    BY <1>4, NextPage
  <2>2. QED
    BY <2>1 DEF Follows
<1>7. \A i, j \in DOMAIN roll : roll[i].number = roll[j].number => i = j
  BY DEF ImportInv, RollInv
<1>8. DOMAIN roll \subseteq Nat \ {0}
  BY <1>4, LenProperties
<1>9. kept \subseteq OnRoll
  BY <1>1, <1>5, Found DEF Reading
<1>10. ASSUME NEW r \in kept, NEW i \in DOMAIN got, got[i].number = r.number
       PROVE  got[i] = r
  <2>1. PICK m \in DOMAIN roll : roll[m] = r
    BY <1>9, <1>10 DEF OnRoll
  <2>2. CASE i \in DOMAIN badges /\ got[i] = badges[i]
    <3>1. p # 1 \/ badges = <<>>
      BY <1>1, <1>2, <1>3, Found DEF Reading
    <3>2. badges # <<>>
      BY <2>2
    <3>3. r \in imports[k].kept
      BY <1>5, <1>10, <3>1, <3>2
    <3>4. QED
      BY <1>1, <1>2, <1>10, <2>2, <3>3, Found DEF Reading
  <2>3. CASE \E n \in DOMAIN roll : got[i] = roll[n]
    BY <1>7, <1>10, <2>1, <2>3
  <2>4. QED
    BY <1>6, <1>10, <2>2, <2>3
<1>11. ASSUME ~imports[k].shifted, NEW r \in kept
       PROVE  \/ \E i \in DOMAIN got : got[i] = r
              \/ \E i \in DOMAIN roll : roll[i] = r /\ i > through
  <2>1. ASSUME NEW m \in DOMAIN roll, roll[m] = r, m > before
        PROVE  \/ \E i \in DOMAIN got : got[i] = r
               \/ \E i \in DOMAIN roll : roll[i] = r /\ i > through
    <3>1. m \in Nat
      BY <1>8, <2>1
    <3>2. CASE m <= through
      <4>1. before < m
        BY <2>1, <3>1
      <4>2. PICK n \in DOMAIN got : got[n] = roll[m]
        BY <1>6, <2>1, <3>2, <4>1
      <4>3. QED
        BY <2>1, <4>2
    <3>3. CASE m > through
      BY <2>1, <3>3
    <3>4. QED
      BY <3>1, <3>2, <3>3
  <2>2. CASE p = 1
    <3>1. before = 0
      BY <1>3, <2>2
    <3>2. PICK m \in DOMAIN roll : roll[m] = r
      BY <1>9, <1>11 DEF OnRoll
    <3>3. m > before
      BY <1>8, <3>1
    <3>4. QED
      BY <2>1, <3>2, <3>3
  <2>3. CASE p # 1
    <3>1. r \in imports[k].kept
      BY <1>5, <1>11, <2>3
    <3>2. Due(r, imports[k]) \/ Ahead(r, imports[k])
      BY <1>1, <1>11, <3>1, Found DEF Reading
    <3>3. CASE Due(r, imports[k])
      <4>1. PICK i \in DOMAIN badges : badges[i] = r
        BY <1>2, <3>3 DEF Due
      <4>2. QED
        BY <1>6, <4>1
    <3>4. CASE Ahead(r, imports[k])
      BY <2>1, <3>4
    <3>5. QED
      BY <3>2, <3>3, <3>4
  <2>4. QED
    BY <2>2, <2>3
<1>12. QED
  BY <1>9, <1>10, <1>11 DEF NoneSkipped

LEMMA GetBadgesStep ==
    ASSUME ImportInv, NEW k \in Imports, GetBadges(k)
    PROVE  ImportInv'
<1>1. imports[k].pc = "badges" /\ Running(k)
  BY DEF GetBadges, Running
<1>2. /\ imports[k] \in Import /\ Ordered(imports[k]) /\ Reading(imports[k])
      /\ roll \in Seq(Registration) /\ OnRoll \subseteq Registration
  BY <1>1, Found
<1>3. Unmoved /\ uploaded' \subseteq Numbers
  BY DEF GetBadges, Unmoved, external, Attendees, Process, ImportInv, TypeOK
<1>4. PICK p \in Nat \ {0} : p = imports[k].page
  BY <1>2 DEF Import, Reading
<1>5. PICK page \in Seq(Registration), before \in Nat, through \in Nat :
            /\ page = Page(p)
            /\ before = (p - 1) * PageSize /\ through = p * PageSize
            /\ p = 1 => before = 0
            /\ Holds(page, before, through)
  BY <1>2, PageHolds
<1>6. PICK badges : badges = imports[k].badges \o page
  OBVIOUS
<1>7. Follows(badges, imports[k].badges, before, through)
  BY <1>2, <1>5, <1>6, NextPage DEF Import
<1>8. badges \in Seq(Registration)
  BY <1>7 DEF Follows
<1>9. PICK kept : kept = IF imports[k].page = 1 THEN OnRoll ELSE imports[k].kept
  OBVIOUS
<1>10. PICK next : next = p + 1 /\ next \in Nat /\ next # 1 /\ next >= 1 /\ next - 1 = p
  BY <1>4
<1>11. \A r : Ahead(r, imports[k]) => \E i \in DOMAIN roll : roll[i] = r /\ i > before
  BY <1>4, <1>5 DEF Ahead
<1>12. /\ kept \subseteq OnRoll
       /\ \A r \in kept : \A i \in DOMAIN badges : badges[i].number = r.number => badges[i] = r
       /\ ~imports[k].shifted => \A r \in kept :
            \/ \E i \in DOMAIN badges : badges[i] = r
            \/ \E i \in DOMAIN roll : roll[i] = r /\ i > through
  <2>1. NoneSkipped(imports[k], kept, badges, through)
    BY <1>1, <1>4, <1>5, <1>6, <1>9, <1>11, FetchedAll
  <2>2. QED
    BY <2>1 DEF NoneSkipped
<1>13. InOrder(badges)
  BY <1>1, <1>5, <1>6, FetchedInOrder
<1>14. ASSUME NEW q \in Import, Put(k, q), q.pc \in {"badges", "products"},
              q.page = next, q.badges = badges, q.kept = kept, ~q.ok,
              q.shifted = imports[k].shifted,
              q.pc = "products" => p >= TotalPages
       PROVE  ImportInv'
  <2>1. Ordered(q)
    BY <1>13, <1>14 DEF Ordered
  <2>2. CASE q.pc = "badges"
    <3>1. ~q.shifted => \A r \in q.kept : Due(r, q) \/ Ahead(r, q)
      <4>1. \A r : (\E i \in DOMAIN roll : roll[i] = r /\ i > through) => Ahead(r, q)
        BY <1>5, <1>10, <1>14 DEF Ahead
      <4>2. \A r : (\E i \in DOMAIN badges : badges[i] = r) => Due(r, q)
        BY <1>14 DEF Due
      <4>3. QED
        BY <1>12, <1>14, <4>1, <4>2
    <3>2. Reading(q)
      BY <1>10, <1>12, <1>14, <2>2, <3>1 DEF Reading
    <3>3. QED
      BY <1>1, <1>3, <1>14, <2>1, <2>2, <3>2, RunStep
  <2>3. CASE q.pc = "products"
    <3>1. Len(roll) <= through
      BY <1>2, <1>5, <1>14, <2>3, LastPage
    <3>2. \A i \in DOMAIN roll : ~(i > through)
      <4>1. DOMAIN roll = 1 .. Len(roll) /\ Len(roll) \in Nat
        BY <1>2, LenProperties
      <4>2. \A i \in 1 .. Len(roll) : ~(i > through)
        BY <3>1, <4>1
      <4>3. QED
        BY <4>1, <4>2
    <3>3. ~q.shifted => \A r \in q.kept : Due(r, q)
      BY <1>12, <1>14, <3>2 DEF Due
    <3>4. Reading(q)
      BY <1>10, <1>12, <1>14, <2>3, <3>3 DEF Reading
    <3>5. QED
      BY <1>1, <1>3, <1>14, <2>1, <2>3, <3>4, RunStep
  <2>4. QED
    BY <1>14, <2>2, <2>3
<1>15. kept \subseteq Registration
  BY <1>2, <1>12
<1>16. PICK got : got = [imports[k] EXCEPT !.badges = badges, !.page = next, !.kept = kept]
  OBVIOUS
<1>17. /\ got \in Import /\ got.pc = "badges" /\ got.page = next /\ got.badges = badges
       /\ got.kept = kept /\ ~got.ok /\ got.shifted = imports[k].shifted
  BY <1>1, <1>2, <1>8, <1>10, <1>15, <1>16 DEF Import, Reading
<1>18. PICK last : last = [got EXCEPT !.pc = "products"]
  OBVIOUS
<1>19. /\ last \in Import /\ last.pc = "products" /\ last.page = next /\ last.badges = badges
       /\ last.kept = kept /\ ~last.ok /\ last.shifted = imports[k].shifted
  BY <1>17, <1>18 DEF Import, Phases
<1>20. \/ p < TotalPages /\ Put(k, got)
       \/ ~(p < TotalPages) /\ Put(k, last)
       \/ Put(k, Settled(imports[k], FALSE))
  <2>1. got = [imports[k] EXCEPT !.badges = imports[k].badges \o Page(imports[k].page),
                                 !.page = imports[k].page + 1,
                                 !.kept = IF imports[k].page = 1 THEN OnRoll ELSE imports[k].kept]
    BY <1>4, <1>5, <1>6, <1>9, <1>10, <1>16
  <2>2. QED
    BY <1>4, <1>5, <1>6, <1>18, <2>1 DEF GetBadges
<1>21. TotalPages \in Int
  <2>1. PageSize \in Nat \ {0} /\ Len(roll) \in Nat
    BY <1>2, AttendeeImportAssumption, LenProperties
  <2>2. PICK full \in Nat : full = Len(roll) + PageSize - 1
    BY <2>1
  <2>3. QED
    BY <2>1, <2>2, Division DEF TotalPages
<1>22. CASE p < TotalPages /\ Put(k, got)
  BY <1>14, <1>17, <1>22
<1>23. CASE ~(p < TotalPages) /\ Put(k, last)
  <2>1. p >= TotalPages
    BY <1>21, <1>23
  <2>2. QED
    BY <1>14, <1>19, <1>23, <2>1
<1>24. CASE Put(k, Settled(imports[k], FALSE))
  BY <1>1, <1>3, <1>24, SettleStep
<1>25. QED
  BY <1>20, <1>22, <1>23, <1>24

\* The next badge is stored: what is still to be stored comes behind it.
LEMMA StoreBadge ==
    ASSUME ImportInv, NEW k \in Imports, imports[k].pc = "upsert",
           NEW badges \in Seq(Registration), badges = imports[k].badges, badges # <<>>,
           NEW b, b = Head(badges), NEW rest, rest = Tail(badges),
           synced' = [synced EXCEPT ![b.number] = b.version],
           numbered' = [numbered EXCEPT ![b.number] = b.number],
           NEW q \in Import, Put(k, q), q.pc = "upsert", q.badges = rest,
           q.page = imports[k].page, q.kept = imports[k].kept, q.ok = imports[k].ok,
           q.shifted = imports[k].shifted, q.byHand = imports[k].byHand,
           UNCHANGED <<roll, types, changes, uploaded, started, importInProgress, crashed>>
    PROVE  ImportInv'
<1>1. Running(k)
  BY DEF Running
<1>2. /\ imports[k] \in Import /\ Ordered(imports[k]) /\ Reading(imports[k])
      /\ roll \in Seq(Registration)
  BY <1>1, Found
<1>3. /\ synced \in [Numbers -> 0 .. MaxVersion] /\ numbered \in [Numbers -> Numbers \cup {0}]
      /\ uploaded \subseteq Numbers /\ RollInv
  BY DEF ImportInv, TypeOK
<1>4. PICK len \in Nat \ {0} : len = Len(badges) /\ DOMAIN badges = 1 .. len
  BY LenProperties, EmptySeq
<1>5. b = badges[1] /\ b \in Registration /\ 1 \in DOMAIN badges
  BY <1>4, HeadTailProperties, ElementOfSeq
<1>6. /\ rest \in Seq(Registration) /\ DOMAIN rest = 1 .. len - 1
      /\ \A i \in DOMAIN rest : i + 1 \in DOMAIN badges /\ rest[i] = badges[i + 1]
  <2>1. rest \in Seq(Registration) /\ Len(rest) = len - 1
    BY <1>4, HeadTailProperties
  <2>2. DOMAIN rest = 1 .. len - 1
    BY <2>1, LenProperties
  <2>3. QED
    BY <1>4, <2>1, <2>2, HeadTailProperties
<1>7. InOrder(badges)
  BY <1>2 DEF Ordered
<1>8. /\ b.number \in Numbers /\ b.version \in 1 .. MaxVersion
      /\ \A i \in DOMAIN badges : badges[i].number \in Numbers
      /\ \A i \in DOMAIN roll : roll[i].number \in Numbers
  <2>1. /\ \A i \in DOMAIN badges : badges[i] \in Registration
        /\ \A i \in DOMAIN roll : roll[i] \in Registration
    BY <1>2, LenProperties, ElementOfSeq
  <2>2. QED
    BY <1>5, <2>1 DEF Registration
<1>9. /\ synced' \in [Numbers -> 0 .. MaxVersion]
      /\ numbered' \in [Numbers -> Numbers \cup {0}]
      /\ synced'[b.number] = b.version /\ numbered'[b.number] = b.number
      /\ \A n \in Numbers : n # b.number => synced'[n] = synced[n] /\ numbered'[n] = numbered[n]
  BY <1>3, <1>8
<1>10. RollInv'
  BY <1>3, <1>5, <1>7, <1>8, <1>9 DEF RollInv, InOrder
<1>11. Ordered(q)'
  <2>1. ASSUME NEW i \in DOMAIN rest
        PROVE  synced'[rest[i].number] <= rest[i].version
    <3>1. i + 1 \in DOMAIN badges /\ rest[i] = badges[i + 1] /\ 1 < i + 1
      BY <1>6, <2>1
    <3>2. CASE rest[i].number = b.number
      BY <1>5, <1>7, <1>9, <3>1, <3>2 DEF InOrder
    <3>3. CASE rest[i].number # b.number
      BY <1>7, <1>8, <1>9, <3>1, <3>3 DEF InOrder
    <3>4. QED
      BY <3>2, <3>3
  <2>2. ASSUME NEW i \in DOMAIN rest, NEW j \in DOMAIN rest, i < j, rest[i].number = rest[j].number
        PROVE  rest[i].version <= rest[j].version
    <3>1. /\ i + 1 \in DOMAIN badges /\ rest[i] = badges[i + 1]
          /\ j + 1 \in DOMAIN badges /\ rest[j] = badges[j + 1]
          /\ i + 1 < j + 1
      BY <1>6, <2>2
    <3>2. QED
      BY <1>7, <2>2, <3>1 DEF InOrder
  <2>3. \A i \in DOMAIN rest, j \in DOMAIN roll :
            rest[i].number = roll[j].number => rest[i].version <= roll[j].version
    BY <1>6, <1>7 DEF InOrder
  <2>4. QED
    BY <2>1, <2>2, <2>3 DEF Ordered, InOrder
<1>12. \A r \in q.kept : \A i \in DOMAIN badges : badges[i].number = r.number => badges[i] = r
  BY <1>2 DEF Reading
<1>13. ASSUME ~q.shifted, NEW r \in q.kept
       PROVE  Due(r, q) \/ Stored(r, q)'
  <2>1. r.number \in Numbers
    <3>1. \E i \in DOMAIN roll : roll[i] = r
      BY <1>2, <1>13 DEF Reading, OnRoll
    <3>2. QED
      BY <1>8, <3>1
  <2>2. CASE r.number = b.number
    <3>1. r = b
      BY <1>5, <1>12, <1>13, <2>2
    <3>2. QED
      BY <1>9, <3>1 DEF Stored
  <2>3. CASE r.number # b.number
    <3>1. Due(r, imports[k]) \/ Stored(r, imports[k])
      BY <1>2, <1>13 DEF Reading
    <3>2. CASE Due(r, imports[k])
      <4>1. PICK i \in DOMAIN badges : badges[i] = r
        BY <3>2 DEF Due
      <4>2. i # 1 /\ i \in 1 .. len
        BY <1>4, <1>5, <2>3, <4>1
      <4>3. PICK j \in 1 .. len - 1 : j + 1 = i
        BY ONLY <4>2
      <4>4. j \in DOMAIN rest /\ rest[j] = badges[j + 1]
        BY <1>6
      <4>5. QED
        BY <4>1, <4>3, <4>4 DEF Due
    <3>3. CASE Stored(r, imports[k])
      BY <1>9, <2>1, <2>3, <3>3 DEF Stored
    <3>4. QED
      BY <3>1, <3>2, <3>3
  <2>4. QED
    BY <2>2, <2>3
<1>14. Reading(q)'
  <2>1. \A r \in q.kept : \A i \in DOMAIN rest : rest[i].number = r.number => rest[i] = r
    BY <1>6, <1>12
  <2>2. q.kept \subseteq OnRoll'
    BY <1>2 DEF Reading, OnRoll
  <2>3. q.page >= 1 /\ ~q.ok
    BY <1>2 DEF Reading
  <2>4. \A r \in q.kept : ~q.shifted => Due(r, q) \/ Stored(r, q)'
    BY <1>13
  <2>5. QED
    BY <2>1, <2>2, <2>3, <2>4 DEF Reading, Due, Stored
<1>15. QED
  BY <1>1, <1>3, <1>9, <1>10, <1>11, <1>14, RunMoves

LEMMA SyncAttendeeStep ==
    ASSUME ImportInv, NEW k \in Imports, SyncAttendee(k)
    PROVE  ImportInv'
<1>1. imports[k].pc = "upsert" /\ Running(k)
  BY DEF SyncAttendee, Running
<1>2. imports[k] \in Import /\ Ordered(imports[k]) /\ Reading(imports[k])
  BY <1>1, Found
<1>3. /\ UNCHANGED <<roll, types, changes, uploaded, started, importInProgress, crashed>>
      /\ uploaded' \subseteq Numbers
  BY DEF SyncAttendee, external, Process, ImportInv, TypeOK
<1>4. CASE imports[k].badges = <<>>
  <2>1. PICK q : q = [imports[k] EXCEPT !.pc = "settled", !.ok = TRUE]
    OBVIOUS
  <2>2. q \in Import /\ q.pc = "settled"
    BY <1>2, <2>1 DEF Import, Phases
  <2>3. CASE Put(k, q) /\ UNCHANGED <<synced, numbered>>
    <3>1. /\ q.page = imports[k].page /\ q.badges = imports[k].badges
          /\ q.kept = imports[k].kept /\ q.shifted = imports[k].shifted
          /\ q.byHand = imports[k].byHand
      BY <1>2, <2>1 DEF Import
    <3>2. Ordered(q)
      BY <1>2, <3>1 DEF Ordered
    <3>3. ASSUME ~q.shifted, NEW r \in q.kept
          PROVE  Stored(r, q)
      <4>1. Due(r, imports[k]) \/ Stored(r, imports[k])
        BY <1>1, <1>2, <3>1, <3>3 DEF Reading
      <4>2. ~Due(r, imports[k])
        BY <1>4 DEF Due
      <4>3. QED
        BY <3>1, <4>1, <4>2 DEF Stored
    <3>4. Reading(q)
      BY <1>2, <2>2, <3>1, <3>3 DEF Reading
    <3>5. Unmoved
      BY <1>3, <2>3 DEF Unmoved
    <3>6. QED
      BY <1>1, <1>3, <2>2, <2>3, <3>2, <3>4, <3>5, RunStep
  <2>4. Put(k, q) /\ UNCHANGED <<synced, numbered>>
    BY <1>4, <2>1 DEF SyncAttendee, Settled
  <2>5. QED
    BY <2>3, <2>4
<1>5. CASE imports[k].badges # <<>>
  <2>1. PICK badges \in Seq(Registration) : badges = imports[k].badges
    BY <1>2 DEF Import
  <2>2. PICK b : b = Head(badges)
    OBVIOUS
  <2>3. PICK rest \in Seq(Registration) : rest = Tail(badges)
    BY <1>5, <2>1, HeadTailProperties
  <2>4. PICK q : q = [imports[k] EXCEPT !.badges = rest]
    OBVIOUS
  <2>5. /\ q \in Import /\ q.pc = "upsert" /\ q.badges = rest
        /\ q.page = imports[k].page /\ q.kept = imports[k].kept /\ q.ok = imports[k].ok
        /\ q.shifted = imports[k].shifted /\ q.byHand = imports[k].byHand
    BY <1>1, <1>2, <2>4 DEF Import
  <2>6. \/ /\ synced' = [synced EXCEPT ![b.number] = b.version]
           /\ numbered' = [numbered EXCEPT ![b.number] = b.number]
           /\ Put(k, q)
        \/ Put(k, Settled(imports[k], FALSE)) /\ UNCHANGED <<synced, numbered>>
    BY <1>5, <2>1, <2>2, <2>3, <2>4 DEF SyncAttendee
  <2>7. CASE /\ synced' = [synced EXCEPT ![b.number] = b.version]
             /\ numbered' = [numbered EXCEPT ![b.number] = b.number]
             /\ Put(k, q)
    BY <1>1, <1>3, <1>5, <2>1, <2>2, <2>3, <2>5, <2>7, StoreBadge
  <2>8. CASE Put(k, Settled(imports[k], FALSE)) /\ UNCHANGED <<synced, numbered>>
    <3>1. Unmoved
      BY <1>3, <2>8 DEF Unmoved
    <3>2. QED
      BY <1>1, <1>3, <2>8, <3>1, SettleStep
  <2>9. QED
    BY <2>6, <2>7, <2>8
<1>6. QED
  BY <1>4, <1>5

-----------------------------------------------------------------------------
(* What happens beside the import.                                          *)

LEMMA OthersMove ==
    ASSUME ImportInv,
           imports' \in [Imports -> Import],
           \A k \in Imports : imports'[k].pc = imports[k].pc,
           UNCHANGED <<synced, started, importInProgress, crashed>>,
           roll' \in Seq(Registration), types' \subseteq BadgeTypes,
           changes' \in 0 .. MaxChanges,
           numbered' \in [Numbers -> Numbers \cup {0}],
           uploaded' \subseteq Numbers,
           RollInv',
           \A k \in Imports : Running(k) => Ordered(imports[k])' /\ Reading(imports[k])'
    PROVE  ImportInv'
<1>1. TypeOK'
  BY DEF ImportInv, TypeOK
<1>2. \A k \in Imports : Running(k)' <=> Running(k)
  BY DEF Running
<1>3. Alone'
  BY <1>2 DEF ImportInv, Alone
<1>4. QED
  BY <1>1, <1>2, <1>3 DEF ImportInv

\* One more change is within the bound.
LEMMA OneMoreChange ==
    ASSUME changes \in 0 .. MaxChanges, changes < MaxChanges, changes' = changes + 1
    PROVE  changes' \in 0 .. MaxChanges
  BY AttendeeImportAssumption

LEMMA AddAttendeeStep ==
    ASSUME ImportInv, AddAttendee
    PROVE  ImportInv'
<1>1. TypeOK /\ RollInv
  BY DEF ImportInv
<1>2. /\ UNCHANGED <<roll, types, synced, numbered, imports, started, importInProgress, crashed>>
      /\ uploaded' \subseteq Numbers
  BY <1>1 DEF AddAttendee, Process, TypeOK
<1>3. changes' \in 0 .. MaxChanges
  BY <1>1, OneMoreChange DEF AddAttendee, TypeOK
<1>4. RollInv'
  BY <1>1, <1>2 DEF RollInv
<1>5. \A k \in Imports : Running(k) => Ordered(imports[k])' /\ Reading(imports[k])'
  BY <1>2 DEF ImportInv, Ordered, InOrder, Reading, OnRoll, Due, Ahead, Stored
<1>6. QED
  BY <1>1, <1>2, <1>3, <1>4, <1>5, OthersMove DEF TypeOK

LEMMA UpdateAttendeeStep ==
    ASSUME ImportInv, UpdateAttendee
    PROVE  ImportInv'
<1>1. TypeOK /\ RollInv
  BY DEF ImportInv
<1>2. PICK m \in Taken \ {0}, n \in Numbers \ Taken :
        /\ changes < MaxChanges
        /\ changes' = changes + 1
        /\ uploaded' = IF m \in uploaded THEN (uploaded \ {m}) \cup {n} ELSE uploaded
        /\ numbered' = [i \in Numbers |-> IF numbered[i] = m THEN n ELSE numbered[i]]
        /\ imports' = [k \in Imports |-> [imports[k] EXCEPT !.byHand = @ \/ Running(k)]]
        /\ UNCHANGED <<roll, types, synced, started, importInProgress, crashed>>
  BY DEF UpdateAttendee, Process
<1>3. changes' \in 0 .. MaxChanges
  BY <1>1, <1>2, OneMoreChange DEF TypeOK
<1>4. uploaded' \subseteq Numbers
  BY <1>1, <1>2 DEF TypeOK
<1>5. numbered' \in [Numbers -> Numbers \cup {0}]
  BY <1>1, <1>2 DEF TypeOK
<1>6. RollInv'
  BY <1>1, <1>2 DEF RollInv
<1>7. ASSUME NEW k \in Imports
      PROVE  /\ imports'[k] \in Import /\ imports'[k].pc = imports[k].pc
             /\ imports'[k].page = imports[k].page /\ imports'[k].badges = imports[k].badges
             /\ imports'[k].kept = imports[k].kept /\ imports'[k].ok = imports[k].ok
             /\ imports'[k].shifted = imports[k].shifted
             /\ Running(k) => imports'[k].byHand
  <2>1. imports[k] \in Import
    BY <1>1, <1>7 DEF TypeOK
  <2>2. PICK mark \in BOOLEAN : mark <=> imports[k].byHand \/ Running(k)
    OBVIOUS
  <2>3. mark = (imports[k].byHand \/ Running(k))
    BY <2>2, Zenon
  <2>4. PICK q : q = [imports[k] EXCEPT !.byHand = mark]
    OBVIOUS
  <2>5. imports'[k] = q
    <3>1. imports'[k] = [imports[k] EXCEPT !.byHand = imports[k].byHand \/ Running(k)]
      BY <1>2, <1>7, Zenon
    <3>2. QED
      BY <2>3, <2>4, <3>1, Zenon
  <2>6. /\ q \in Import /\ q.pc = imports[k].pc
        /\ q.page = imports[k].page /\ q.badges = imports[k].badges
        /\ q.kept = imports[k].kept /\ q.ok = imports[k].ok
        /\ q.shifted = imports[k].shifted /\ q.byHand = mark
    BY <2>1, <2>4 DEF Import
  <2>7. QED
    BY <2>2, <2>5, <2>6
<1>8. imports' \in [Imports -> Import]
  <2>1. DOMAIN imports' = Imports /\ imports' = [k \in Imports |-> imports'[k]]
    BY <1>2, Zenon
  <2>2. QED
    BY <1>7, <2>1
<1>9. ASSUME NEW k \in Imports, Running(k)
      PROVE  Ordered(imports[k])' /\ Reading(imports[k])'
  <2>1. Ordered(imports[k]) /\ Reading(imports[k])
    BY <1>9, Found
  <2>2. roll' = roll /\ synced' = synced
    BY <1>2
  <2>3. Ordered(imports[k])'
    BY <1>7, <1>9, <2>1, <2>2 DEF Ordered, InOrder
  <2>4. \A r : (Due(r, imports[k]) => Due(r, imports[k])')
            /\ (Ahead(r, imports[k]) => Ahead(r, imports[k])')
            /\ (Stored(r, imports[k]) => Stored(r, imports[k])')
    BY <1>7, <1>9, <2>2 DEF Due, Ahead, Stored
  <2>5. Reading(imports[k])'
    BY <1>7, <1>9, <2>1, <2>2, <2>4 DEF Reading, OnRoll
  <2>6. QED
    BY <2>3, <2>5
<1>10. QED
  BY <1>1, <1>2, <1>3, <1>4, <1>5, <1>6, <1>7, <1>8, <1>9, OthersMove DEF TypeOK

\* A registration is not older than the one that had its number, or no import
\* has its number.
Newer(r) ==
    \/ \E m \in DOMAIN roll : roll[m].number = r.number /\ roll[m].version <= r.version
    \/ \A k \in Imports : \A i \in DOMAIN imports[k].badges : imports[k].badges[i].number # r.number

\* The roll changes: what is left of it unamended has not moved to an earlier
\* page, unless a registration was withdrawn.
LEMMA RollMoves ==
    ASSUME ImportInv,
           NEW kept \in SUBSET Registration, NEW withdrawn \in BOOLEAN, Change(kept, withdrawn),
           NEW next \in Seq(Registration), roll' = next, types' \subseteq BadgeTypes,
           RollInv', kept \subseteq OnRoll',
           \A j \in DOMAIN next : Newer(next[j]),
           ~withdrawn => \A i \in DOMAIN roll :
                roll[i] \in kept => \E j \in DOMAIN next : next[j] = roll[i] /\ j >= i
    PROVE  ImportInv'
<1>1. TypeOK /\ RollInv
  BY DEF ImportInv
<1>2. /\ changes < MaxChanges /\ changes' = changes + 1
      /\ imports' = [k \in Imports |->
            IF Running(k) THEN [imports[k] EXCEPT !.kept = @ \cap kept,
                                                  !.shifted = @ \/ withdrawn]
            ELSE imports[k]]
      /\ UNCHANGED <<synced, numbered, uploaded, started, importInProgress, crashed>>
  BY DEF Change, Attendees, Process
<1>3. changes' \in 0 .. MaxChanges
  BY <1>1, <1>2, OneMoreChange DEF TypeOK
<1>4. ASSUME NEW k \in Imports, Running(k)
      PROVE  /\ imports'[k] \in Import /\ imports'[k].pc = imports[k].pc
             /\ imports'[k].page = imports[k].page /\ imports'[k].badges = imports[k].badges
             /\ imports'[k].ok = imports[k].ok /\ imports'[k].byHand = imports[k].byHand
             /\ imports'[k].kept = imports[k].kept \cap kept
             /\ ~imports'[k].shifted => ~imports[k].shifted /\ ~withdrawn
  <2>1. imports[k] \in Import
    BY <1>1, <1>4 DEF TypeOK
  <2>2. PICK mark \in BOOLEAN : mark <=> imports[k].shifted \/ withdrawn
    OBVIOUS
  <2>3. mark = (imports[k].shifted \/ withdrawn)
    BY <2>2, Zenon
  <2>4. PICK left : left = imports[k].kept \cap kept
    OBVIOUS
  <2>5. PICK q : q = [imports[k] EXCEPT !.kept = left, !.shifted = mark]
    OBVIOUS
  <2>6. imports'[k] = q
    <3>1. imports'[k] = IF Running(k)
                        THEN [imports[k] EXCEPT !.kept = imports[k].kept \cap kept,
                                                !.shifted = imports[k].shifted \/ withdrawn]
                        ELSE imports[k]
      BY <1>2, <1>4, Zenon
    <3>2. imports'[k] = [imports[k] EXCEPT !.kept = imports[k].kept \cap kept,
                                           !.shifted = imports[k].shifted \/ withdrawn]
      BY <1>4, <3>1, Zenon
    <3>3. QED
      BY <2>3, <2>4, <2>5, <3>2, Zenon
  <2>7. left \subseteq Registration
    BY <2>4
  <2>8. /\ q \in Import /\ q.pc = imports[k].pc
        /\ q.page = imports[k].page /\ q.badges = imports[k].badges
        /\ q.ok = imports[k].ok /\ q.byHand = imports[k].byHand
        /\ q.kept = left /\ q.shifted = mark
    BY <2>1, <2>5, <2>7 DEF Import
  <2>9. QED
    BY <2>2, <2>4, <2>6, <2>8
<1>5. ASSUME NEW k \in Imports, ~Running(k)
      PROVE  imports'[k] = imports[k]
  BY <1>2, <1>5, Zenon
<1>6. imports' \in [Imports -> Import]
  <2>1. DOMAIN imports' = Imports /\ imports' = [k \in Imports |-> imports'[k]]
    BY <1>2, Zenon
  <2>2. \A k \in Imports : imports'[k] \in Import
    BY <1>1, <1>4, <1>5 DEF TypeOK
  <2>3. QED
    BY <2>1, <2>2
<1>7. \A k \in Imports : imports'[k].pc = imports[k].pc
  BY <1>4, <1>5
<1>8. ASSUME NEW k \in Imports, Running(k)
      PROVE  Ordered(imports[k])' /\ Reading(imports[k])'
  <2>1. /\ imports[k] \in Import /\ Ordered(imports[k]) /\ Reading(imports[k])
        /\ roll \in Seq(Registration)
    BY <1>8, Found
  <2>2. PICK badges \in Seq(Registration) : badges = imports[k].badges /\ badges = imports'[k].badges
    BY <1>4, <1>8, <2>1 DEF Import
  <2>3. InOrder(badges) /\ synced' = synced
    BY <1>2, <2>1, <2>2 DEF Ordered
  <2>4. ASSUME NEW i \in DOMAIN badges, NEW j \in DOMAIN next, badges[i].number = next[j].number
        PROVE  badges[i].version <= next[j].version
    <3>1. PICK m \in DOMAIN roll :
            roll[m].number = next[j].number /\ roll[m].version <= next[j].version
      <4>1. Newer(next[j])
        BY <2>4
      <4>2. ~ \A i1 \in DOMAIN imports[k].badges : imports[k].badges[i1].number # next[j].number
        BY <2>2, <2>4
      <4>3. QED
        BY <1>8, <4>1, <4>2, Zenon DEF Newer
    <3>2. badges[i].version <= roll[m].version
      BY <2>3, <2>4, <3>1 DEF InOrder
    <3>3. badges[i].version \in Int /\ roll[m].version \in Int /\ next[j].version \in Int
      <4>1. badges[i] \in Registration /\ roll[m] \in Registration /\ next[j] \in Registration
        BY <2>1, <2>4, LenProperties, ElementOfSeq
      <4>2. QED
        BY <4>1 DEF Registration
    <3>4. QED
      BY <3>1, <3>2, <3>3
  <2>5. InOrder(badges)'
    BY <2>3, <2>4 DEF InOrder
  <2>6. Ordered(imports[k])'
    BY <2>2, <2>5 DEF Ordered
  <2>7. imports'[k].kept \subseteq OnRoll'
    BY <1>4, <1>8
  <2>8. \A r \in imports'[k].kept :
            \A i \in DOMAIN badges : badges[i].number = r.number => badges[i] = r
    BY <1>4, <1>8, <2>1, <2>2 DEF Reading
  <2>9. \A r : (Due(r, imports[k]) => Due(r, imports[k])')
            /\ (Stored(r, imports[k]) => Stored(r, imports[k])')
    BY <1>2, <1>4, <1>8 DEF Due, Stored
  <2>10. ASSUME ~imports'[k].shifted, NEW r \in imports'[k].kept, Ahead(r, imports[k])
         PROVE  Ahead(r, imports[k])'
    <3>1. ~withdrawn /\ r \in kept
      BY <1>4, <1>8, <2>10
    <3>2. PICK start : start = (imports[k].page - 1) * PageSize
      OBVIOUS
    <3>3. PICK i \in DOMAIN roll : roll[i] = r /\ i > start
      BY <2>10, <3>2 DEF Ahead
    <3>4. PICK j \in DOMAIN next : next[j] = r /\ j >= i
      BY <3>1, <3>3
    <3>5. i \in Int /\ j \in Int
      BY <2>1, LenProperties
    <3>6. start \in Int
      BY <2>1, <3>2, AttendeeImportAssumption DEF Import
    <3>7. j > start
      BY <3>3, <3>4, <3>5, <3>6
    <3>8. start = (imports'[k].page - 1) * PageSize
      BY <1>4, <1>8, <3>2
    <3>9. QED
      BY <3>4, <3>7, <3>8 DEF Ahead
  <2>11. \A r \in imports'[k].kept : r \in imports[k].kept
    BY <1>4, <1>8
  <2>12. ~imports'[k].shifted => ~imports[k].shifted
    BY <1>4, <1>8
  <2>13. imports'[k].pc = "badges" /\ ~imports'[k].shifted =>
            \A r \in imports'[k].kept : Due(r, imports[k])' \/ Ahead(r, imports[k])'
    BY <1>7, <1>8, <2>1, <2>9, <2>10, <2>11, <2>12 DEF Reading
  <2>14. imports'[k].pc = "products" /\ ~imports'[k].shifted =>
            \A r \in imports'[k].kept : Due(r, imports[k])'
    BY <1>7, <1>8, <2>1, <2>9, <2>11, <2>12 DEF Reading
  <2>15. imports'[k].pc = "upsert" /\ ~imports'[k].shifted =>
            \A r \in imports'[k].kept : Due(r, imports[k])' \/ Stored(r, imports[k])'
    BY <1>7, <1>8, <2>1, <2>9, <2>11, <2>12 DEF Reading
  <2>16. imports'[k].pc = "settled" /\ imports'[k].ok /\ ~imports'[k].shifted =>
            \A r \in imports'[k].kept : Stored(r, imports[k])'
    BY <1>4, <1>8, <2>1, <2>9, <2>11, <2>12 DEF Reading
  <2>17. /\ imports'[k].page >= 1
         /\ imports'[k].ok => imports'[k].pc = "settled"
         /\ imports'[k].pc \notin {"badges", "products", "upsert", "settled"} =>
                imports'[k].kept = {} /\ badges = <<>>
         /\ imports'[k].pc = "badges" /\ imports'[k].page = 1 =>
                imports'[k].kept = {} /\ badges = <<>>
    BY <1>4, <1>8, <2>1, <2>2, <2>11 DEF Reading
  <2>18. Reading(imports[k])'
    BY <2>2, <2>7, <2>8, <2>13, <2>14, <2>15, <2>16, <2>17 DEF Reading
  <2>19. QED
    BY <2>6, <2>18
<1>9. QED
  BY <1>1, <1>2, <1>3, <1>6, <1>7, <1>8, OthersMove DEF TypeOK

\* A registration more, at either end of the list: at place, and those behind it
\* one further.
Grows(next, old, r, len) ==
    \E place \in {1, len + 1}, shift \in {0, 1} :
        \A j \in 1 .. len + 1 :
            /\ j = place => next[j] = r
            /\ j # place => j - shift \in 1 .. len /\ next[j] = old[j - shift]
            /\ \A i \in 1 .. len : i + shift \in 1 .. len + 1 /\ i + shift # place

LEMMA Grown ==
    ASSUME NEW old \in Seq(Registration), NEW r \in Registration,
           NEW next \in {Append(old, r), <<r>> \o old},
           NEW len \in Nat, len = Len(old)
    PROVE  /\ next \in Seq(Registration)
           /\ DOMAIN next = 1 .. len + 1
           /\ Grows(next, old, r, len)
<1>1. CASE next = Append(old, r)
  <2>1. /\ next \in Seq(Registration) /\ Len(next) = len + 1
        /\ \A i \in 1 .. len : next[i] = old[i]
        /\ next[len + 1] = r
    BY <1>1, AppendProperties
  <2>2. DOMAIN next = 1 .. len + 1
    BY <2>1, LenProperties
  <2>3. \A j \in 1 .. len + 1 :
            /\ j = len + 1 => next[j] = r
            /\ j # len + 1 => j - 0 \in 1 .. len /\ next[j] = old[j - 0]
            /\ \A i \in 1 .. len : i + 0 \in 1 .. len + 1 /\ i + 0 # len + 1
    BY <2>1
  <2>4. QED
    BY <2>1, <2>2, <2>3 DEF Grows
<1>2. CASE next = <<r>> \o old
  <2>1. PICK one \in Seq(Registration) : one = <<r>> /\ Len(one) = 1 /\ one[1] = r
    <3>1. <<r>> \in Seq(Registration) /\ Len(<<r>>) = 1 /\ <<r>>[1] = r
      OBVIOUS
    <3>2. QED
      BY <3>1
  <2>2. /\ next \in Seq(Registration) /\ Len(next) = 1 + len
        /\ \A j \in 1 .. 1 + len : next[j] = IF j <= 1 THEN one[j] ELSE old[j - 1]
    BY <1>2, <2>1, ConcatProperties
  <2>3. DOMAIN next = 1 .. len + 1
    BY <2>2, LenProperties
  <2>4. \A j \in 1 .. len + 1 :
            /\ j = 1 => next[j] = r
            /\ j # 1 => j - 1 \in 1 .. len /\ next[j] = old[j - 1]
            /\ \A i \in 1 .. len : i + 1 \in 1 .. len + 1 /\ i + 1 # 1
    BY <2>1, <2>2
  <2>5. QED
    BY <2>2, <2>3, <2>4 DEF Grows
<1>3. QED
  BY <1>1, <1>2

LEMMA RegisterStep ==
    ASSUME ImportInv, Register
    PROVE  ImportInv'
<1>1. TypeOK /\ RollInv
  BY DEF ImportInv
<1>2. PICK n, t, r :
        /\ n \in Numbers /\ t \in BadgeTypes
        /\ r = [number |-> n, type |-> t, version |-> 1]
        /\ \A s \in OnRoll : s.number # n
        /\ synced[n] = 0
        /\ \A k \in Imports : \A i \in DOMAIN imports[k].badges : imports[k].badges[i].number # n
        /\ roll' \in {Append(roll, r), <<r>> \o roll}
        /\ types' = types \cup {t}
        /\ Change(OnRoll, FALSE)
  BY DEF Register
<1>3. r \in Registration /\ r.number = n /\ r.version = 1
  BY <1>2, AttendeeImportAssumption DEF Registration
<1>4. PICK old \in Seq(Registration) : old = roll
  BY <1>1 DEF TypeOK
<1>5. PICK len \in Nat : len = Len(old) /\ DOMAIN old = 1 .. len
  BY LenProperties
<1>6. PICK next : next = roll'
  OBVIOUS
<1>7. /\ next \in Seq(Registration)
      /\ DOMAIN next = 1 .. len + 1
      /\ Grows(next, old, r, len)
  <2>1. next \in {Append(old, r), <<r>> \o old}
    BY <1>2, <1>4, <1>6
  <2>2. QED
    BY <1>3, <1>5, <2>1, Grown
<1>8. PICK place \in {1, len + 1}, shift \in {0, 1} :
            \A j \in 1 .. len + 1 :
                /\ j = place => next[j] = r
                /\ j # place => j - shift \in 1 .. len /\ next[j] = old[j - shift]
                /\ \A i \in 1 .. len : i + shift \in 1 .. len + 1 /\ i + shift # place
  BY <1>7 DEF Grows
<1>9. \A i \in 1 .. len : old[i].number # n
  BY <1>2, <1>4, <1>5 DEF OnRoll
<1>10. /\ \A i, j \in 1 .. len : old[i].number = old[j].number => i = j
       /\ \A i \in 1 .. len : synced[old[i].number] <= old[i].version
  BY <1>1, <1>4, <1>5 DEF RollInv
<1>11. \A i \in 1 .. len : \E j \in DOMAIN next : next[j] = old[i] /\ j >= i
  <2>1. ASSUME NEW i \in 1 .. len
        PROVE  \E j \in DOMAIN next : next[j] = old[i] /\ j >= i
    <3>1. PICK j : j = i + shift
      OBVIOUS
    <3>2. j \in 1 .. len + 1 /\ j # place /\ j >= i /\ j - shift = i
      BY <1>8, <2>1, <3>1
    <3>3. next[j] = old[i]
      BY <1>8, <3>2
    <3>4. QED
      BY <1>7, <3>2, <3>3
  <2>2. QED
    BY <2>1
<1>12. ASSUME NEW i \in 1 .. len + 1, NEW j \in 1 .. len + 1, next[i].number = next[j].number
       PROVE  i = j
  <2>1. CASE i = place
    BY <1>3, <1>8, <1>9, <1>12, <2>1
  <2>2. CASE j = place
    BY <1>3, <1>8, <1>9, <1>12, <2>2
  <2>3. CASE i # place /\ j # place
    <3>1. /\ i - shift \in 1 .. len /\ next[i] = old[i - shift]
          /\ j - shift \in 1 .. len /\ next[j] = old[j - shift]
      BY <1>8, <1>12, <2>3
    <3>2. i - shift = j - shift
      BY <1>10, <1>12, <3>1
    <3>3. QED
      BY <3>2
  <2>4. QED
    BY <2>1, <2>2, <2>3
<1>13. ASSUME NEW j \in 1 .. len + 1
       PROVE  synced[next[j].number] <= next[j].version /\ Newer(next[j])
  <2>1. CASE j = place
    <3>1. next[j] = r
      BY <1>8, <1>13, <2>1
    <3>2. synced[next[j].number] <= next[j].version
      BY <1>2, <1>3, <3>1
    <3>3. Newer(next[j])
      BY <1>2, <1>3, <3>1 DEF Newer
    <3>4. QED
      BY <3>2, <3>3
  <2>2. CASE j # place
    <3>1. PICK m : m = j - shift
      OBVIOUS
    <3>2. m \in 1 .. len /\ next[j] = old[m]
      BY <1>8, <1>13, <2>2, <3>1
    <3>3. synced[next[j].number] <= next[j].version
      BY <1>10, <3>2
    <3>4. m \in DOMAIN roll /\ roll[m] = next[j]
      BY <1>4, <1>5, <3>2
    <3>5. roll[m].version <= next[j].version
      <4>1. old[m] \in Registration
        BY <1>5, <3>2, ElementOfSeq
      <4>2. QED
        BY <1>4, <3>2, <4>1 DEF Registration
    <3>6. Newer(next[j])
      BY <3>4, <3>5 DEF Newer
    <3>7. QED
      BY <3>3, <3>6
  <2>3. QED
    BY <2>1, <2>2
<1>14. synced' = synced
  BY <1>2 DEF Change, Attendees
<1>15. RollInv'
  BY <1>6, <1>7, <1>12, <1>13, <1>14 DEF RollInv
<1>16. PICK kept : kept = OnRoll
  OBVIOUS
<1>17. kept \in SUBSET Registration
  BY <1>4, <1>5, <1>16, ElementOfSeq DEF OnRoll
<1>18. kept \subseteq OnRoll'
  BY <1>4, <1>5, <1>6, <1>11, <1>16 DEF OnRoll
<1>19. \A i \in DOMAIN roll : \E j \in DOMAIN next : next[j] = roll[i] /\ j >= i
  BY <1>4, <1>5, <1>11
<1>20. types' \subseteq BadgeTypes
  BY <1>1, <1>2 DEF TypeOK
<1>21. \A j \in DOMAIN next : Newer(next[j])
  BY <1>7, <1>13
<1>22. Change(kept, FALSE) /\ FALSE \in BOOLEAN /\ roll' = next /\ next \in Seq(Registration)
  BY <1>2, <1>6, <1>7, <1>16
<1>23. QED
  BY <1>15, <1>17, <1>18, <1>19, <1>20, <1>21, <1>22, RollMoves

\* A registration less: those behind it one closer.
Shrinks(next, old, place, len) ==
    /\ next \in Seq(Registration)
    /\ DOMAIN next = 1 .. len - 1
    /\ \A j \in 1 .. len - 1 : next[j] = IF j < place THEN old[j] ELSE old[j + 1]

LEMMA Shrunk ==
    ASSUME NEW old \in Seq(Registration), NEW len \in Nat, len = Len(old), NEW place \in 1 .. len,
           NEW next, next = SubSeq(old, 1, place - 1) \o SubSeq(old, place + 1, len)
    PROVE  Shrinks(next, old, place, len)
<1>1. \A i \in 1 .. len : old[i] \in Registration
  BY ElementOfSeq
<1>2. PICK front : front = SubSeq(old, 1, place - 1)
  OBVIOUS
<1>3. PICK back : back = SubSeq(old, place + 1, len)
  OBVIOUS
<1>4. /\ front \in Seq(Registration) /\ Len(front) = place - 1
      /\ \A i \in 1 .. place - 1 : front[i] = old[i]
  <2>1. \A i \in 1 .. place - 1 : old[i] \in Registration
    BY <1>1
  <2>2. /\ front \in Seq(Registration)
        /\ Len(front) = IF 1 <= place - 1 THEN place - 1 - 1 + 1 ELSE 0
        /\ \A i \in 1 .. place - 1 - 1 + 1 : front[i] = old[1 + i - 1]
    BY <1>2, <2>1, SubSeqProperties
  <2>3. QED
    BY <2>2
<1>5. /\ back \in Seq(Registration) /\ Len(back) = len - place
      /\ \A i \in 1 .. len - place : back[i] = old[place + i]
  <2>1. \A i \in place + 1 .. len : old[i] \in Registration
    BY <1>1
  <2>2. /\ back \in Seq(Registration)
        /\ Len(back) = IF place + 1 <= len THEN len - (place + 1) + 1 ELSE 0
        /\ \A i \in 1 .. len - (place + 1) + 1 : back[i] = old[place + 1 + i - 1]
    BY <1>3, <2>1, SubSeqProperties
  <2>3. QED
    BY <2>2
<1>6. next = front \o back
  BY <1>2, <1>3
<1>7. PICK before \in Nat : before = place - 1 /\ before = Len(front)
  BY <1>4
<1>8. PICK behind \in Nat : behind = len - place /\ behind = Len(back)
  BY <1>5, LenProperties
<1>9. /\ next \in Seq(Registration) /\ Len(next) = before + behind
      /\ \A j \in 1 .. before + behind :
            next[j] = IF j <= before THEN front[j] ELSE back[j - before]
  <2>1. front \in Seq(Registration) /\ back \in Seq(Registration)
    BY <1>4, <1>5
  <2>2. /\ front \o back \in Seq(Registration)
        /\ Len(front \o back) = Len(front) + Len(back)
        /\ \A j \in 1 .. Len(front) + Len(back) :
            (front \o back)[j] = IF j <= Len(front) THEN front[j] ELSE back[j - Len(front)]
    BY <2>1, ConcatProperties
  <2>3. QED
    BY <1>6, <1>7, <1>8, <2>2
<1>10. before + behind = len - 1
  BY <1>7, <1>8
<1>11. DOMAIN next = 1 .. len - 1
  BY <1>9, <1>10, LenProperties
<1>12. ASSUME NEW j \in 1 .. len - 1
       PROVE  next[j] = IF j < place THEN old[j] ELSE old[j + 1]
  <2>1. CASE j < place
    <3>1. j <= before /\ j \in 1 .. place - 1 /\ j \in 1 .. before + behind
      BY <1>7, <1>10, <1>12, <2>1
    <3>2. QED
      BY <1>4, <1>9, <2>1, <3>1
  <2>2. CASE ~(j < place)
    <3>1. /\ ~(j <= before) /\ j \in 1 .. before + behind
          /\ j - before \in 1 .. len - place /\ place + (j - before) = j + 1
      BY <1>7, <1>10, <1>12, <2>2
    <3>2. QED
      BY <1>5, <1>9, <2>2, <3>1
  <2>3. QED
    BY <2>1, <2>2
<1>13. QED
  BY <1>9, <1>11, <1>12 DEF Shrinks

LEMMA WithdrawStep ==
    ASSUME ImportInv, Withdraw
    PROVE  ImportInv'
<1>1. TypeOK /\ RollInv
  BY DEF ImportInv
<1>2. PICK place \in DOMAIN roll :
        /\ roll' = SubSeq(roll, 1, place - 1) \o SubSeq(roll, place + 1, Len(roll))
        /\ Change(OnRoll \ {roll[place]}, TRUE)
        /\ UNCHANGED types
  BY DEF Withdraw
<1>3. PICK old \in Seq(Registration) : old = roll
  BY <1>1 DEF TypeOK
<1>4. PICK len \in Nat : len = Len(old) /\ DOMAIN old = 1 .. len
  BY LenProperties
<1>5. place \in 1 .. len
  BY <1>2, <1>3, <1>4
<1>6. PICK next : next = roll'
  OBVIOUS
<1>7. /\ next \in Seq(Registration)
      /\ DOMAIN next = 1 .. len - 1
      /\ \A j \in 1 .. len - 1 : next[j] = IF j < place THEN old[j] ELSE old[j + 1]
  <2>1. next = SubSeq(old, 1, place - 1) \o SubSeq(old, place + 1, len)
    BY <1>2, <1>3, <1>4, <1>6
  <2>2. Shrinks(next, old, place, len)
    BY <1>4, <1>5, <2>1, Shrunk
  <2>3. QED
    BY <2>2 DEF Shrinks
<1>8. /\ \A i, j \in 1 .. len : old[i].number = old[j].number => i = j
      /\ \A i \in 1 .. len : synced[old[i].number] <= old[i].version
  BY <1>1, <1>3, <1>4 DEF RollInv
<1>9. ASSUME NEW i \in 1 .. len - 1, NEW j \in 1 .. len - 1, next[i].number = next[j].number
      PROVE  i = j
  <2>1. PICK m : m = IF i < place THEN i ELSE i + 1
    OBVIOUS
  <2>2. PICK n : n = IF j < place THEN j ELSE j + 1
    OBVIOUS
  <2>3. m \in 1 .. len /\ next[i] = old[m]
    BY <1>5, <1>7, <1>9, <2>1
  <2>4. n \in 1 .. len /\ next[j] = old[n]
    BY <1>5, <1>7, <1>9, <2>2
  <2>5. m = n
    BY <1>8, <1>9, <2>3, <2>4
  <2>6. QED
    BY <1>5, <1>9, <2>1, <2>2, <2>5
<1>10. ASSUME NEW j \in 1 .. len - 1
       PROVE  \E m \in 1 .. len : next[j] = old[m]
  BY <1>5, <1>7, <1>10
<1>11. ASSUME NEW j \in 1 .. len - 1
       PROVE  synced[next[j].number] <= next[j].version /\ Newer(next[j])
  <2>1. PICK m \in 1 .. len : next[j] = old[m]
    BY <1>10, <1>11
  <2>2. synced[next[j].number] <= next[j].version
    BY <1>8, <2>1
  <2>3. m \in DOMAIN roll /\ roll[m] = next[j]
    BY <1>3, <1>4, <2>1
  <2>4. roll[m].version <= next[j].version
    <3>1. old[m] \in Registration
      BY <1>4, <2>1, ElementOfSeq
    <3>2. QED
      BY <1>3, <2>1, <3>1 DEF Registration
  <2>5. QED
    BY <2>2, <2>3, <2>4 DEF Newer
<1>12. \A i \in 1 .. len : i # place => \E j \in DOMAIN next : next[j] = old[i]
  <2>1. ASSUME NEW i \in 1 .. len, i # place
        PROVE  \E j \in DOMAIN next : next[j] = old[i]
    <3>1. CASE i < place
      <4>1. i \in 1 .. len - 1
        BY <1>5, <2>1, <3>1
      <4>2. next[i] = old[i]
        BY <1>7, <3>1, <4>1
      <4>3. QED
        BY <1>7, <4>1, <4>2
    <3>2. CASE i > place
      <4>1. i - 1 \in 1 .. len - 1 /\ ~(i - 1 < place) /\ (i - 1) + 1 = i
        BY <1>5, <2>1, <3>2
      <4>2. next[i - 1] = old[(i - 1) + 1]
        BY <1>7, <4>1
      <4>3. QED
        BY <1>7, <4>1, <4>2
    <3>3. QED
      BY <1>5, <2>1, <3>1, <3>2
  <2>2. QED
    BY <2>1
<1>13. synced' = synced
  BY <1>2 DEF Change, Attendees
<1>14. RollInv'
  BY <1>6, <1>7, <1>9, <1>11, <1>13 DEF RollInv
<1>15. PICK kept : kept = OnRoll \ {roll[place]}
  OBVIOUS
<1>16. kept \in SUBSET Registration
  BY <1>3, <1>4, <1>15, ElementOfSeq DEF OnRoll
<1>17. kept \subseteq OnRoll'
  BY <1>3, <1>4, <1>6, <1>12, <1>15 DEF OnRoll
<1>18. types' \subseteq BadgeTypes
  BY <1>1, <1>2 DEF TypeOK
<1>19. \A j \in DOMAIN next : Newer(next[j])
  BY <1>7, <1>11
<1>20. Change(kept, TRUE) /\ TRUE \in BOOLEAN /\ roll' = next /\ next \in Seq(Registration)
  BY <1>2, <1>6, <1>7, <1>15
<1>21. QED
  BY <1>14, <1>16, <1>17, <1>18, <1>19, <1>20, RollMoves

LEMMA AmendStep ==
    ASSUME ImportInv, Amend
    PROVE  ImportInv'
<1>1. TypeOK /\ RollInv
  BY DEF ImportInv
<1>2. PICK place \in DOMAIN roll :
        /\ roll[place].version < MaxVersion
        /\ roll' = [roll EXCEPT ![place].version = @ + 1]
        /\ Change(OnRoll \ {roll[place]}, FALSE)
        /\ UNCHANGED types
  BY DEF Amend
<1>3. PICK old \in Seq(Registration) : old = roll
  BY <1>1 DEF TypeOK
<1>4. PICK len \in Nat : len = Len(old) /\ DOMAIN old = 1 .. len
  BY LenProperties
<1>5. place \in 1 .. len
  BY <1>2, <1>3, <1>4
<1>6. \A i \in 1 .. len : old[i] \in Registration
  BY <1>4, ElementOfSeq
<1>7. PICK version \in Int : version = old[place].version + 1
  BY <1>5, <1>6 DEF Registration
<1>8. PICK newer : newer = [old[place] EXCEPT !.version = version]
  OBVIOUS
<1>9. newer \in Registration /\ newer.number = old[place].number /\ newer.version = version
  <2>1. version \in 1 .. MaxVersion
    BY <1>2, <1>3, <1>5, <1>6, <1>7, AttendeeImportAssumption DEF Registration
  <2>2. QED
    BY <1>5, <1>6, <1>8, <2>1 DEF Registration
<1>10. PICK next : next = roll'
  OBVIOUS
<1>11. /\ next \in Seq(Registration)
       /\ DOMAIN next = 1 .. len
       /\ next[place] = newer
       /\ \A j \in 1 .. len : j # place => next[j] = old[j]
  <2>1. next = [old EXCEPT ![place] = newer]
    BY <1>2, <1>3, <1>7, <1>8, <1>10
  <2>2. /\ next \in Seq(Registration) /\ Len(next) = len
        /\ \A j \in 1 .. len : next[j] = IF j = place THEN newer ELSE old[j]
    BY <1>4, <1>5, <1>9, <2>1, ExceptSeq
  <2>3. QED
    BY <1>5, <2>2, LenProperties
<1>12. /\ \A i, j \in 1 .. len : old[i].number = old[j].number => i = j
       /\ \A i \in 1 .. len : synced[old[i].number] <= old[i].version
  BY <1>1, <1>3, <1>4 DEF RollInv
<1>13. ASSUME NEW j \in 1 .. len
       PROVE  /\ next[j].number = old[j].number
              /\ old[j].version \in Int /\ next[j].version \in Int
              /\ old[j].version <= next[j].version
  <2>1. old[j].version \in Int
    BY <1>6, <1>13 DEF Registration
  <2>2. CASE j = place
    BY <1>7, <1>9, <1>11, <2>1, <2>2
  <2>3. CASE j # place
    BY <1>11, <1>13, <2>1, <2>3
  <2>4. QED
    BY <2>2, <2>3
<1>14. \A i, j \in 1 .. len : next[i].number = next[j].number => i = j
  BY <1>12, <1>13
<1>15. ASSUME NEW j \in 1 .. len
       PROVE  synced[next[j].number] <= next[j].version /\ Newer(next[j])
  <2>1. old[j].number \in Numbers
    BY <1>6, <1>15 DEF Registration
  <2>2. synced[old[j].number] \in Int
    BY <1>1, <2>1 DEF TypeOK
  <2>3. synced[next[j].number] <= next[j].version
    BY <1>12, <1>13, <1>15, <2>2
  <2>4. Newer(next[j])
    BY <1>3, <1>4, <1>13, <1>15 DEF Newer
  <2>5. QED
    BY <2>3, <2>4
<1>16. synced' = synced
  BY <1>2 DEF Change, Attendees
<1>17. RollInv'
  BY <1>10, <1>11, <1>14, <1>15, <1>16 DEF RollInv
<1>18. PICK kept : kept = OnRoll \ {roll[place]}
  OBVIOUS
<1>19. kept \in SUBSET Registration
  BY <1>3, <1>4, <1>6, <1>18 DEF OnRoll
<1>20. \A i \in 1 .. len : i # place => i \in DOMAIN next /\ next[i] = old[i]
  BY <1>11
<1>21. \A i \in DOMAIN roll :
            roll[i] \in kept => \E j \in DOMAIN next : next[j] = roll[i] /\ j >= i
  <2>1. ASSUME NEW i \in DOMAIN roll, roll[i] \in kept
        PROVE  \E j \in DOMAIN next : next[j] = roll[i] /\ j >= i
    <3>1. i \in 1 .. len /\ i # place
      BY <1>3, <1>4, <1>18, <2>1
    <3>2. i \in DOMAIN next /\ next[i] = roll[i] /\ i >= i
      BY <1>3, <1>20, <3>1
    <3>3. QED
      BY <3>2
  <2>2. QED
    BY <2>1
<1>22. kept \subseteq OnRoll'
  BY <1>10, <1>18, <1>21 DEF OnRoll
<1>23. types' \subseteq BadgeTypes
  BY <1>1, <1>2 DEF TypeOK
<1>24. \A j \in DOMAIN next : Newer(next[j])
  BY <1>11, <1>15
<1>25. Change(kept, FALSE) /\ FALSE \in BOOLEAN /\ roll' = next /\ next \in Seq(Registration)
  BY <1>2, <1>10, <1>11, <1>18
<1>26. QED
  BY <1>17, <1>19, <1>21, <1>22, <1>23, <1>24, <1>25, RollMoves

-----------------------------------------------------------------------------
(* The theorems.                                                            *)

LEMMA ImportInit ==
    Init => ImportInv
<1>1. SUFFICES ASSUME Init
               PROVE  ImportInv
  OBVIOUS
<1>2. Off \in Import /\ Off.pc = "off"
  <2>1. <<>> \in Seq(Registration) /\ <<>> \in Seq(Numbers)
    BY EmptySeq
  <2>2. QED
    BY <2>1 DEF Off, Import, Phases
<1>3. \A k \in Imports : imports[k] = Off
  BY <1>1 DEF Init
<1>4. TypeOK
  <2>1. imports \in [Imports -> Import]
    BY <1>1, <1>2 DEF Init
  <2>2. synced \in [Numbers -> 0 .. MaxVersion]
    BY <1>1, AttendeeImportAssumption DEF Init
  <2>3. numbered \in [Numbers -> Numbers \cup {0}]
    BY <1>1 DEF Init
  <2>4. roll \in Seq(Registration) /\ types \subseteq BadgeTypes /\ uploaded \subseteq Numbers
    BY <1>1, AttendeeImportAssumption DEF Init
  <2>5. changes \in 0 .. MaxChanges /\ started \in 0 .. MaxImports
    BY <1>1, AttendeeImportAssumption DEF Init
  <2>6. importInProgress \in BOOLEAN /\ crashed \in BOOLEAN
    BY <1>1 DEF Init
  <2>7. QED
    BY <2>1, <2>2, <2>3, <2>4, <2>5, <2>6 DEF TypeOK
<1>5. Alone
  BY <1>1, <1>2, <1>3, AttendeeImportAssumption DEF Init, Alone, Imports, Running
<1>6. RollInv
  <2>1. roll \in Seq(Registration) /\ roll = FirstRoll
    BY <1>1, AttendeeImportAssumption DEF Init
  <2>2. \A i \in DOMAIN roll : roll[i] \in Registration
    BY <2>1, LenProperties, ElementOfSeq
  <2>3. \A i \in DOMAIN roll : synced[roll[i].number] = 0 /\ 0 <= roll[i].version
    BY <1>1, <2>2 DEF Init, Registration
  <2>4. QED
    BY <2>1, <2>3, AttendeeImportAssumption DEF RollInv
<1>7. \A k \in Imports : ~Running(k)
  BY <1>2, <1>3 DEF Running
<1>8. QED
  BY <1>4, <1>5, <1>6, <1>7 DEF ImportInv

LEMMA ImportStep ==
    ImportInv /\ [Next]_vars => ImportInv'
<1>1. SUFFICES ASSUME ImportInv, [Next]_vars
               PROVE  ImportInv'
  OBVIOUS
<1>2. ASSUME UNCHANGED vars
      PROVE  ImportInv'
  <2>1. UNCHANGED <<roll, types, changes, synced, numbered, uploaded, imports, started,
                    importInProgress, crashed>>
    BY <1>2 DEF vars, external
  <2>2. TypeOK' /\ Alone' /\ RollInv'
    BY <1>1, <2>1 DEF ImportInv, TypeOK, Alone, RollInv, Running
  <2>3. \A k \in Imports : Running(k)' => Ordered(imports[k])' /\ Reading(imports[k])'
    BY <1>1, <2>1
       DEF ImportInv, Running, Ordered, InOrder, Reading, OnRoll, Due, Ahead, Stored
  <2>4. QED
    BY <2>2, <2>3 DEF ImportInv
<1>3. ASSUME NEW k \in Imports, Step(k)
      PROVE  ImportInv'
  BY <1>1, <1>3, ParseCSVStep, CreateAttendeeStep, GetSessionStep, GetBadgeTypesStep,
     GetBadgeStep, GetBadgesStep, GetSoldProductsStep, SyncAttendeeStep, EndImportStep
     DEF Step, Remote, Local
<1>4. CASE StartImportCSV \/ StartSync
  BY <1>1, <1>4, StartSteps
<1>5. CASE AddAttendee
  BY <1>1, <1>5, AddAttendeeStep
<1>6. CASE UpdateAttendee
  BY <1>1, <1>6, UpdateAttendeeStep
<1>7. CASE Register
  BY <1>1, <1>7, RegisterStep
<1>8. CASE Withdraw
  BY <1>1, <1>8, WithdrawStep
<1>9. CASE Amend
  BY <1>1, <1>9, AmendStep
<1>10. CASE Quiet
  BY <1>2, <1>10 DEF Quiet
<1>11. QED
  BY <1>1, <1>2, <1>3, <1>4, <1>5, <1>6, <1>7, <1>8, <1>9, <1>10 DEF Next

(***************************************************************************)
(* The invariant holds in every behaviour: one import at a time, the       *)
(* fetched badges in order, nothing to be stored left out.                 *)
(***************************************************************************)
THEOREM ImportInvariance == Spec => []ImportInv
<1>1. QED
  BY ImportInit, ImportStep, PTL DEF Spec

(***************************************************************************)
(* The variables of the imports keep their types.                          *)
(***************************************************************************)
THEOREM ImportTypeCorrectness == Spec => []TypeOK
<1>1. ImportInv => TypeOK
  BY DEF ImportInv
<1>2. QED
  BY <1>1, ImportInvariance, PTL

(***************************************************************************)
(* Only one import of attendees runs at a time, also after one that failed *)
(* or took the process with it (importInProgress of ConventionService, set *)
(* before the first await and cleared when the import settles).            *)
(***************************************************************************)
THEOREM OneImportAtATime == Spec => []ImportsDoNotOverlap
<1>1. ImportInv => ImportsDoNotOverlap
  <2>1. SUFFICES ASSUME ImportInv, NEW j \in Imports, NEW k \in Imports, Running(j), Running(k)
                 PROVE  j = k
    BY DEF ImportsDoNotOverlap
  <2>2. j = started /\ k = started
    BY <2>1 DEF ImportInv, Alone
  <2>3. QED
    BY <2>2
<1>2. QED
  BY <1>1, ImportInvariance, PTL

(***************************************************************************)
(* A sync that ends well has stored all that was on the roll, unamended,   *)
(* while it read it page by page, unless a withdrawal moved the pages      *)
(* under it; whatever was registered, amended or renumbered meanwhile.     *)
(***************************************************************************)
THEOREM SyncsAreComplete == Spec => []SyncIsComplete
<1>1. ImportInv => SyncIsComplete
  <2>1. SUFFICES ASSUME ImportInv, NEW k \in Imports, imports[k].pc = "settled",
                        imports[k].ok, ~imports[k].shifted, NEW r \in imports[k].kept
                 PROVE  /\ synced[r.number] = r.version
                        /\ imports[k].byHand \/ numbered[r.number] = r.number
    BY DEF SyncIsComplete
  <2>2. Running(k)
    BY <2>1 DEF Running
  <2>3. Reading(imports[k])
    BY <2>1, <2>2, Found
  <2>4. Stored(r, imports[k])
    BY <2>1, <2>3 DEF Reading
  <2>5. QED
    BY <2>4 DEF Stored
<1>2. QED
  BY <1>1, ImportInvariance, PTL

(***************************************************************************)
(* No sync puts an attendee back to an older revision: the badges of one   *)
(* number are stored in the order in which they were fetched, and no other *)
(* import fetches meanwhile (syncAttendee and its upsert).                 *)
(***************************************************************************)
THEOREM RevisionsNeverGoBack == Spec => NeverOlder
<1>1. ASSUME ImportInv, [Next]_vars, NEW n \in Numbers
      PROVE  synced'[n] >= synced[n]
  <2>1. synced \in [Numbers -> 0 .. MaxVersion] /\ synced[n] \in Int
    BY <1>1 DEF ImportInv, TypeOK
  <2>2. CASE synced' = synced
    BY <2>1, <2>2
  <2>3. ASSUME NEW k \in Imports, SyncAttendee(k)
        PROVE  synced'[n] >= synced[n]
    <3>1. imports[k].pc = "upsert" /\ Running(k)
      BY <2>3 DEF SyncAttendee, Running
    <3>2. imports[k] \in Import /\ Ordered(imports[k])
      BY <1>1, <2>3, <3>1, Found
    <3>3. PICK badges \in Seq(Registration) : badges = imports[k].badges
      BY <3>2 DEF Import
    <3>4. CASE badges = <<>>
      BY <2>2, <2>3, <3>3, <3>4 DEF SyncAttendee
    <3>5. CASE badges # <<>>
      <4>1. PICK b \in Registration : b = Head(badges)
        BY <3>5, HeadTailProperties
      <4>2. 1 \in DOMAIN badges /\ b = badges[1]
        <5>1. Len(badges) \in Nat \ {0}
          BY <3>5, EmptySeq
        <5>2. QED
          BY <4>1, <5>1, LenProperties
      <4>3. synced[b.number] <= b.version
        BY <3>2, <3>3, <4>2 DEF Ordered, InOrder
      <4>4. synced' = [synced EXCEPT ![b.number] = b.version] \/ synced' = synced
        BY <2>3, <3>3, <3>5, <4>1 DEF SyncAttendee
      <4>5. CASE synced' = [synced EXCEPT ![b.number] = b.version]
        <5>1. b.number \in Numbers /\ b.version \in Int
          BY <4>1 DEF Registration
        <5>2. QED
          BY <2>1, <4>3, <4>5, <5>1
      <4>6. QED
        BY <2>2, <4>4, <4>5
    <3>6. QED
      BY <3>4, <3>5
  <2>4. ASSUME NEW k \in Imports, Step(k)
        PROVE  synced' = synced \/ SyncAttendee(k)
    BY <2>4 DEF Step, Remote, Local, ParseCSV, CreateAttendee, GetSession, GetBadgeTypes,
                GetBadge, GetBadges,
                GetSoldProducts, EndImport, Attendees
  <2>5. synced' = synced \/ \E k \in Imports : Step(k)
    BY <1>1 DEF Next, StartImportCSV, StartSync, Start, AddAttendee, UpdateAttendee,
                Register, Withdraw, Amend, Change, Quiet, Attendees, vars
  <2>6. QED
    BY <2>2, <2>3, <2>4, <2>5
<1>2. ImportInv /\ [Next]_vars => [\A n \in Numbers : synced'[n] >= synced[n]]_vars
  BY <1>1
<1>3. QED
  BY <1>2, ImportInvariance, PTL DEF Spec, NeverOlder

=============================================================================
