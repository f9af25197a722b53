--------------------------- MODULE AttendeeImport ---------------------------
(***************************************************************************)
(* The background attendee imports of ConventionService, from              *)
(* Tabletop.Events and from a CSV file, with the paged client of           *)
(* TabletopeventsService and a ticket system whose registrations change    *)
(* while they are read, page by page.  Attendees are also made and         *)
(* renumbered by hand; a convention has each badge number once.            *)
(***************************************************************************)
EXTENDS Integers, Sequences, FiniteSets

CONSTANTS
    Numbers,        \* badge numbers, of Tabletop.Events and of the CSV file
    BadgeTypes,
    FirstRoll,      \* the registrations when the behaviour starts
    FirstTypes,     \* the badge types the convention has then
    PageSize,       \* _items_per_page
    MaxVersion,     \* bound: how often a registration is amended
    MaxChanges,     \* bound: changes to the registrations and by hand
    MaxImports      \* bound: imports started

\* A registration: its badge number, its badge type and its revision.
Registration == [number : Numbers, type : BadgeTypes, version : 1 .. MaxVersion]

\* A badge number is given once.
ASSUME AttendeeImportAssumption ==
    /\ FirstRoll \in Seq(Registration)
    /\ \A i, j \in DOMAIN FirstRoll : FirstRoll[i].number = FirstRoll[j].number => i = j
    /\ FirstTypes \subseteq BadgeTypes
    /\ PageSize \in Nat \ {0}
    /\ MaxVersion \in Nat \ {0}
    /\ {MaxChanges, MaxImports} \subseteq Nat

VARIABLES
    roll,           \* Tabletop.Events: the registrations in the order of its pages
    types,          \* Tabletop.Events: the badge types
    changes,
    synced,         \* Attendee rows with a tteBadgeNumber: their revision, or 0
    numbered,       \* the badgeNumber of those rows, or 0
    uploaded,       \* the badge numbers of the Attendee rows without one
    imports,        \* the state of every import
    started,
    importInProgress,
    crashed

external == <<roll, types, changes>>

vars == <<external, synced, numbered, uploaded, imports, started, importInProgress, crashed>>

-----------------------------------------------------------------------------
Phases == {"off", "csv", "create", "session", "types", "badge", "badges",
           "products", "upsert", "settled", "ended"}

\* types and badges: what the import has fetched; rows: the CSV rows left;
\* kept and shifted are history: the registrations that have been on the roll,
\* unamended, since the import began to read it, whether one was withdrawn since
\* and whether an attendee was renumbered by hand.
Import ==
    [pc : Phases, single : Numbers \cup {0}, page : Nat, types : SUBSET BadgeTypes,
     badges : Seq(Registration), rows : Seq(Numbers), ok : BOOLEAN,
     kept : SUBSET Registration, shifted : BOOLEAN, byHand : BOOLEAN]

Off == [pc |-> "off", single |-> 0, page |-> 1, types |-> {}, badges |-> <<>>,
        rows |-> <<>>, ok |-> FALSE, kept |-> {}, shifted |-> FALSE, byHand |-> FALSE]

Imports == 1 .. MaxImports

Running(k) == imports[k].pc \notin {"off", "ended"}

TypeOK ==
    /\ roll \in Seq(Registration)
    /\ types \subseteq BadgeTypes
    /\ changes \in 0 .. MaxChanges
    /\ synced \in [Numbers -> 0 .. MaxVersion]
    /\ numbered \in [Numbers -> Numbers \cup {0}]
    /\ uploaded \subseteq Numbers
    /\ imports \in [Imports -> Import]
    /\ started \in 0 .. MaxImports
    /\ importInProgress \in BOOLEAN
    /\ crashed \in BOOLEAN

OnRoll == {roll[i] : i \in DOMAIN roll}

Put(k, import) == imports' = [imports EXCEPT ![k] = import]

\* The promise of the import is resolved or rejected.
Settled(import, ok) == [import EXCEPT !.pc = "settled", !.ok = ok]

Attendees == <<synced, numbered, uploaded>>

\* The badge numbers of all attendees but the one synced from registration n.
TakenBesides(n) == uploaded \cup {numbered[m] : m \in Numbers \ {n}}

Taken == uploaded \cup {numbered[m] : m \in Numbers}

Process == <<started, importInProgress, crashed>>

-----------------------------------------------------------------------------
Init ==
    /\ roll = FirstRoll
    /\ types = FirstTypes
    /\ changes = 0
    /\ synced = [n \in Numbers |-> 0]
    /\ numbered = [n \in Numbers |-> 0]
    /\ uploaded = {}
    /\ imports = [k \in Imports |-> Off]
    /\ started = 0
    /\ importInProgress = FALSE
    /\ crashed = FALSE

\* Mutation: importInProgress is not tested.
StartUntested(import) ==
    /\ started < MaxImports
    /\ started' = started + 1
    /\ importInProgress' = TRUE
    /\ Put(started + 1, import)
    /\ UNCHANGED <<external, Attendees, crashed>>

\* Both launchers answer 409 while an import is in progress.
Start(import) ==
    /\ ~importInProgress
    /\ started < MaxImports
    /\ started' = started + 1
    /\ importInProgress' = TRUE
    /\ Put(started + 1, import)
    /\ UNCHANGED <<external, Attendees, crashed>>

StartImportCSV == Start([Off EXCEPT !.pc = "csv"])

\* With a badge number only that badge is synced (the legacy route).
StartSync == \E n \in Numbers \cup {0} : Start([Off EXCEPT !.pc = "session", !.single = n])

\* Mutation: the flag is cleared only when the import has succeeded.
EndImportWell(k) ==
    /\ imports[k].pc = "settled"
    /\ IF imports[k].ok
       THEN /\ Put(k, [imports[k] EXCEPT !.pc = "ended"])
            /\ importInProgress' = FALSE
            /\ UNCHANGED <<external, Attendees, started, crashed>>
       ELSE UNCHANGED vars

EndImport(k) ==
    /\ imports[k].pc = "settled"
    /\ Put(k, [imports[k] EXCEPT !.pc = "ended"])
    /\ importInProgress' = FALSE
    /\ UNCHANGED <<external, Attendees, started, crashed>>

\* A rejection nobody handles ends the process, which is started again.
Crash ==
    /\ imports' = [k \in Imports |-> IF Running(k) THEN [imports[k] EXCEPT !.pc = "ended"]
                                     ELSE imports[k]]
    /\ importInProgress' = FALSE
    /\ crashed' = TRUE

-----------------------------------------------------------------------------
(* CSV *)

ParseCSV(k) ==
    /\ imports[k].pc = "csv"
    /\ \/ \E m, n \in Numbers : Put(k, [imports[k] EXCEPT !.pc = "create", !.rows = <<m, n>>])
       \/ Put(k, Settled(imports[k], FALSE))
    /\ UNCHANGED <<external, Attendees, Process>>

\* A row that cannot be created is logged and passed over.
CreateAttendee(k) ==
    LET import == imports[k] IN
    /\ import.pc = "create"
    /\ IF import.rows = <<>> THEN Put(k, Settled(import, TRUE)) /\ UNCHANGED uploaded
       ELSE /\ Put(k, [import EXCEPT !.rows = Tail(@)])
            /\ \/ /\ Head(import.rows) \notin Taken
                  /\ uploaded' = uploaded \cup {Head(import.rows)}
               \/ UNCHANGED uploaded
    /\ UNCHANGED <<external, synced, numbered, Process>>

-----------------------------------------------------------------------------
(* Tabletop.Events *)

\* A convention without a tteConventionId or a session without an id rejects.
\* getSession and getBadgeTypes do not pass a failed call on: their promise
\* never settles, and the rejection of its executor is not handled.
GetSession(k) ==
    LET import == imports[k] IN
    /\ import.pc = "session"
    /\ \/ Put(k, [import EXCEPT !.pc = "types"]) /\ UNCHANGED Process
       \/ Put(k, Settled(import, FALSE)) /\ UNCHANGED Process
       \/ Crash /\ UNCHANGED started
    /\ UNCHANGED <<external, Attendees>>

GetBadgeTypes(k) ==
    LET import == imports[k] IN
    /\ import.pc = "types"
    /\ \/ /\ Put(k, IF types = {} THEN Settled(import, FALSE)
                    ELSE [import EXCEPT !.pc = IF import.single = 0 THEN "badges" ELSE "badge",
                                        !.types = types])
          /\ UNCHANGED Process
       \/ Crash /\ UNCHANGED started
    /\ UNCHANGED <<external, Attendees>>

\* Mutation: a badge that does not match is passed on as an empty one.
GetBadgeUnmatched(k) ==
    LET import == imports[k]
        badge == [number |-> import.single, type |-> CHOOSE t \in types : TRUE, version |-> 0] IN
    /\ import.pc = "badge"
    /\ Put(k, [import EXCEPT !.pc = "products", !.badges = <<badge>>])
    /\ UNCHANGED <<external, Attendees, Process>>

\* A badge that does not match is null, which the next statement trips over.
GetBadge(k) ==
    LET import == imports[k] IN
    /\ import.pc = "badge"
    /\ \/ \E r \in OnRoll :
            /\ r.number = import.single
            /\ Put(k, [import EXCEPT !.pc = "products", !.badges = <<r>>, !.kept = {r}])
       \/ Put(k, Settled(import, FALSE))
    /\ UNCHANGED <<external, Attendees, Process>>

TotalPages == (Len(roll) + PageSize - 1) \div PageSize

Page(i) == SubSeq(roll, (i - 1) * PageSize + 1,
                  IF i * PageSize < Len(roll) THEN i * PageSize ELSE Len(roll))

\* Mutation: the last page is not requested.
GetBadgesShort(k) ==
    LET import == imports[k] IN
    /\ import.pc = "badges"
    /\ Put(k, [import EXCEPT !.pc = IF import.page + 1 < TotalPages THEN @ ELSE "products",
                             !.badges = @ \o Page(import.page),
                             !.page = @ + 1,
                             !.kept = IF import.page = 1 THEN OnRoll ELSE @])
    /\ UNCHANGED <<external, Attendees, Process>>

\* total_pages is read anew with every page.
GetBadges(k) ==
    LET import == imports[k]
        badges == import.badges \o Page(import.page)
        got == [import EXCEPT !.badges = badges,
                              !.page = @ + 1,
                              !.kept = IF import.page = 1 THEN OnRoll ELSE @] IN
    /\ import.pc = "badges"
    /\ \/ Put(k, IF import.page < TotalPages THEN got
                 ELSE IF badges = <<>> THEN Settled(import, FALSE)
                 ELSE [got EXCEPT !.pc = "products"])
       \/ Put(k, Settled(import, FALSE))
    /\ UNCHANGED <<external, Attendees, Process>>

\* A badge of a type that was not fetched fails the import before any upsert.
GetSoldProducts(k) ==
    LET import == imports[k]
        typed == \A i \in DOMAIN import.badges : import.badges[i].type \in import.types IN
    /\ import.pc = "products"
    /\ \/ typed /\ Put(k, [import EXCEPT !.pc = "upsert"])
       \/ Put(k, Settled(import, FALSE))
    /\ UNCHANGED <<external, Attendees, Process>>

\* The upsert finds its row by tteBadgeNumber and writes the badge number too.
\* The first one that fails ends the import: another attendee, of a CSV file or
\* made by hand, has the badge number, or any failed call.
SyncAttendee(k) ==
    LET import == imports[k]
        b == Head(import.badges) IN
    /\ import.pc = "upsert"
    /\ \/ /\ import.badges = <<>>
          /\ Put(k, Settled(import, TRUE))
          /\ UNCHANGED <<synced, numbered>>
       \/ /\ import.badges # <<>>
          /\ b.number \notin TakenBesides(b.number)
          /\ synced' = [synced EXCEPT ![b.number] = b.version]
          /\ numbered' = [numbered EXCEPT ![b.number] = b.number]
          /\ Put(k, [import EXCEPT !.badges = Tail(@)])
       \/ /\ import.badges # <<>>
          /\ Put(k, Settled(import, FALSE))
          /\ UNCHANGED <<synced, numbered>>
    /\ UNCHANGED <<external, uploaded, Process>>

-----------------------------------------------------------------------------
(* Attendees made and renumbered by hand; a number that is taken is refused.  *)

AddAttendee ==
    \E n \in Numbers \ Taken :
        /\ changes < MaxChanges
        /\ changes' = changes + 1
        /\ uploaded' = uploaded \cup {n}
        /\ UNCHANGED <<roll, types, synced, numbered, imports, Process>>

UpdateAttendee ==
    \E m \in Taken \ {0}, n \in Numbers \ Taken :
        /\ changes < MaxChanges
        /\ changes' = changes + 1
        /\ uploaded' = IF m \in uploaded THEN (uploaded \ {m}) \cup {n} ELSE uploaded
        /\ numbered' = [i \in Numbers |-> IF numbered[i] = m THEN n ELSE numbered[i]]
        /\ imports' = [k \in Imports |-> [imports[k] EXCEPT !.byHand = @ \/ Running(k)]]
        /\ UNCHANGED <<roll, types, synced, Process>>

-----------------------------------------------------------------------------
(* The ticket system changes at any time. *)

Change(kept, withdrawn) ==
    /\ changes < MaxChanges
    /\ changes' = changes + 1
    /\ imports' = [k \in Imports |->
            IF Running(k) THEN [imports[k] EXCEPT !.kept = @ \cap kept,
                                                  !.shifted = @ \/ withdrawn]
            ELSE imports[k]]
    /\ UNCHANGED <<Attendees, Process>>

\* New registrations go to the end of the list, or to its front.
Register ==
    \E n \in Numbers, t \in BadgeTypes :
        LET r == [number |-> n, type |-> t, version |-> 1] IN
        /\ \A s \in OnRoll : s.number # n
        /\ synced[n] = 0
        /\ \A k \in Imports : \A i \in DOMAIN imports[k].badges : imports[k].badges[i].number # n
        /\ roll' \in {Append(roll, r), <<r>> \o roll}
        /\ types' = types \cup {t}
        /\ Change(OnRoll, FALSE)

Withdraw ==
    \E i \in DOMAIN roll :
        /\ roll' = SubSeq(roll, 1, i - 1) \o SubSeq(roll, i + 1, Len(roll))
        /\ Change(OnRoll \ {roll[i]}, TRUE)
        /\ UNCHANGED types

Amend ==
    \E i \in DOMAIN roll :
        /\ roll[i].version < MaxVersion
        /\ roll' = [roll EXCEPT ![i].version = @ + 1]
        /\ Change(OnRoll \ {roll[i]}, FALSE)
        /\ UNCHANGED types

-----------------------------------------------------------------------------
\* The calls to Tabletop.Events, which have no time limit.
Remote(k) ==
    \/ GetSession(k) \/ GetBadgeTypes(k) \/ GetBadge(k) \/ GetBadges(k)
    \/ GetSoldProducts(k)

Local(k) == ParseCSV(k) \/ CreateAttendee(k) \/ SyncAttendee(k) \/ EndImport(k)

Step(k) == Remote(k) \/ Local(k)

Quiet ==
    /\ started = MaxImports
    /\ \A k \in Imports : ~Running(k)
    /\ UNCHANGED vars

Next ==
    \/ StartImportCSV \/ StartSync
    \/ \E k \in Imports : Step(k)
    \/ AddAttendee \/ UpdateAttendee
    \/ Register \/ Withdraw \/ Amend
    \/ Quiet

Spec == Init /\ [][Next]_vars

\* Database calls settle, and the event loop runs what awaits them.  A call to
\* Tabletop.Events may never be answered.
FairSpec == Spec /\ \A k \in Imports : WF_vars(Local(k))

-----------------------------------------------------------------------------
(***************************************************************************)
(* Only one import runs at a time (TABLETOPEVENTS.md: 'both TTE and CSV    *)
(* imports write attendees to a convention, so only one import may run'),  *)
(* also after one that failed or took the process with it.                 *)
(***************************************************************************)
ImportsDoNotOverlap ==
    \A j, k \in Imports : (Running(j) /\ Running(k)) => j = k

(***************************************************************************)
(* An import that ends well has stored every registration that was on the  *)
(* roll, unamended, from its first page to its end, unless another one was *)
(* withdrawn meanwhile and moved it to a page already read; and each under *)
(* its own badge number, whatever it was given by hand before.             *)
(***************************************************************************)
SyncIsComplete ==
    \A k \in Imports :
        (imports[k].pc = "settled" /\ imports[k].ok /\ ~imports[k].shifted) =>
            \A r \in imports[k].kept :
                /\ synced[r.number] = r.version
                /\ imports[k].byHand \/ numbered[r.number] = r.number

(***************************************************************************)
(* Repeated syncs never put an attendee back to an older revision, which   *)
(* rests on imports not overlapping.                                       *)
(***************************************************************************)
NeverOlder == [][\A n \in Numbers : synced'[n] >= synced[n]]_vars

\* Import k awaits an answer of Tabletop.Events.
Awaits(k) == imports[k].pc \in {"session", "types", "badge", "badges", "products"}

\* The flag clears, whatever the import meets ('the flag always clears'), unless
\* from some point on the import does nothing but await Tabletop.Events: its calls
\* follow one another, so that one of them is never answered.
FlagClears ==
    importInProgress ~> (~importInProgress \/ \E k \in Imports : []Awaits(k))

-----------------------------------------------------------------------------
(* 'getSession(userName, password, apiKey) -> TTE session id; bail on       *)
(* failure (`invalid tte session`)': the process goes on.                   *)
BailsOnFailure == ~crashed
=============================================================================
