------------------------------- MODULE Access -------------------------------
(***************************************************************************)
(* Accounts, permissions and the guards that stand before every route.     *)
(*                                                                         *)
(* A request is authenticated (JwtStrategy.validate, which creates the     *)
(* account of an identity it has not seen, the first one as super admin),  *)
(* then its guard reads what the route names: a permission row, a          *)
(* convention with its users, an organization with its users.  Each read   *)
(* is a call of its own, so that permissions are granted, changed and      *)
(* deleted by other requests between the reads, and between the last read  *)
(* and what the handler does.  The user that the guards look at is the row *)
(* the authentication has read.                                            *)
(***************************************************************************)
EXTENDS Integers, Sequences, FiniteSets

CONSTANTS
    Requests,       \* the requests that can be in flight together
    People,         \* the identities that sign in, and so the e-mail addresses
    NoOne,
    Routes,         \* the routes that are called
    Starts,         \* the states of the four tables to start from
    Items,          \* the organization of convention type, game, copy, collection 1, 2, ...
    Attachments,    \* the pairs of a collection and a convention it is attached to
    MaxRequests,    \* bound: the requests that arrive in a behaviour
    MaxRows         \* bound: the rows of each table

VARIABLES
    users,          \* the User table: no row, an account, a super admin
    owners,         \* the Organization table: the owner of organization 1, 2, ...
    conventions,    \* the Convention table: the organization of convention 1, 2, ...
    grants,         \* UserOrganizationPermissions and UserConventionPermissions
    requests,       \* the local state of every request
    received,       \* the requests received so far
    homes,          \* history: the organizations that what the request names was in
    ever,           \* history: the caller has been entitled at some time of the request
    always,         \* history: the ways the caller has been entitled all through it
    early,          \* history: who called before there was any account
    missed,         \* history: a call that makes a super admin has failed
    rewritten       \* history: the accounts whose flag an attendee's update has set

tables == <<users, owners, conventions, grants>>
vars == <<tables, requests, received, homes, ever, always, early, missed, rewritten>>

-----------------------------------------------------------------------------
(* The tables *)

\* A row of one of the two permission tables.  The flags are tested as
\* admin || geekGuide || ..., so the highest one that is set says all.
Roles == {"admin", "geekGuide", "basic", "none"}

Grant == [table : {"org", "con"}, user : People, of : Nat \ {0}, role : Roles,
          live : BOOLEAN]

Has(p) == users[p] # "none"

NoAccounts == \A p \in People : ~Has(p)

Row(table, g) == g \in DOMAIN grants /\ grants[g].live /\ grants[g].table = table

RolesIn(table, n, p) ==
    {grants[g].role : g \in {h \in DOMAIN grants :
        grants[h].live /\ grants[h].table = table /\ grants[h].of = n /\ grants[h].user = p}}

Parents(table, orgs, cons) == DOMAIN (IF table = "org" THEN orgs ELSE cons)

SamePlace(g, h) == g.table = h.table /\ g.user = h.user /\ g.of = h.of

\* What the foreign keys and the unique keys of the permission tables say.
Consistent(accounts, orgs, cons, rows) ==
    /\ \A o \in DOMAIN orgs : accounts[orgs[o]] # "none"
    /\ \A c \in DOMAIN cons : cons[c] \in DOMAIN orgs
    /\ \A g \in DOMAIN rows :
        accounts[rows[g].user] # "none" /\ rows[g].of \in Parents(rows[g].table, orgs, cons)
    /\ \A g, h \in DOMAIN rows :
        rows[g].live /\ rows[h].live /\ SamePlace(rows[g], rows[h]) => g = h

\* organizationWithUsers, as the guards use it.
OrganizationRoles(o, p) ==
    IF o \notin DOMAIN owners THEN {}
    ELSE RolesIn("org", o, p) \cup (IF owners[o] = p THEN {"owner"} ELSE {})

\* conventionWithUsers, as the guards use it.
ConventionRoles(c, p) ==
    IF c \notin DOMAIN conventions THEN {} ELSE RolesIn("con", c, p)

\* The organization of convention type, game, copy or collection n; 0 while
\* there is none.
ItemOrganization(n) ==
    IF n \in DOMAIN Items /\ Items[n] \in DOMAIN owners THEN Items[n] ELSE 0

-----------------------------------------------------------------------------
(* The guards: what they look up first, the roles that pass in a convention *)
(* and in an organization (its owner always does), whether the convention   *)
(* must belong to the organization of the path.                             *)

OrganizationReadGuard ==
    [first |-> "org", con |-> {}, org |-> {"admin", "geekGuide", "basic"}, tied |-> FALSE]

OrganizationWriteGuard ==
    [first |-> "org", con |-> {}, org |-> {"admin"}, tied |-> FALSE]

OrganizationAdminGuard ==
    [first |-> "org", con |-> {}, org |-> {"admin"}, tied |-> FALSE]

ConventionReadGuard ==
    [first |-> "con", con |-> {"admin", "geekGuide", "basic"}, org |-> {"admin", "geekGuide"},
     tied |-> FALSE]

ConventionWriteGuard ==
    [first |-> "con", con |-> {"admin"}, org |-> {"admin"}, tied |-> FALSE]

ConventionAdminGuard ==
    [first |-> "con", con |-> {"admin"}, org |-> {"admin"}, tied |-> FALSE]

\* Mutation: the convention may belong to another organization.
CheckOutGuardUntied ==
    [first |-> "con", con |-> {"admin", "geekGuide"}, org |-> {"admin", "geekGuide"},
     tied |-> FALSE]

CheckOutGuard ==
    [first |-> "con", con |-> {"admin", "geekGuide"}, org |-> {"admin", "geekGuide"},
     tied |-> TRUE]

PrizeEntryGuard ==
    [first |-> "con", con |-> {"admin", "geekGuide", "basic"}, org |-> {"admin", "geekGuide"},
     tied |-> TRUE]

\* The row named by the path (a convention type) leads to the organization.
ConventionTypeGuard ==
    [first |-> "item", con |-> {}, org |-> {"admin"}, tied |-> FALSE]

\* The same for a game.
GameGuard ==
    [first |-> "item", con |-> {}, org |-> {"admin"}, tied |-> FALSE]

OrganizationPermissionsGuard ==
    [first |-> "orgGrant", con |-> {}, org |-> {"admin"}, tied |-> FALSE]

ConventionPermissionsGuard ==
    [first |-> "conGrant", con |-> {}, org |-> {"admin"}, tied |-> FALSE]

ConventionCreatePermissionsGuard ==
    [first |-> "con", con |-> {}, org |-> {"admin"}, tied |-> FALSE]

\* The row of a copy or of a collection is read before the super admin's bypass,
\* to test whether it is archived (module Collections).
CollectionWriteGuard ==
    [first |-> "item", con |-> {}, org |-> {"admin"}, tied |-> FALSE]

CopyGuard ==
    [first |-> "item", con |-> {}, org |-> {"admin"}, tied |-> FALSE]

\* Not a public collection, which is everybody's.
CollectionReadGuard ==
    [first |-> "collection", con |-> {}, org |-> {"admin", "geekGuide", "basic"},
     tied |-> FALSE]

\* One attendee per convention, under its number; whom is the row's user.
AttendeeGuard ==
    [first |-> "attendee", con |-> {"admin", "geekGuide"}, org |-> {"admin", "geekGuide"},
     tied |-> FALSE]

\* The path names a user: whom.
UserGuard ==
    [first |-> "self", con |-> {}, org |-> {}, tied |-> FALSE]

UserSelfGuard ==
    [first |-> "self", con |-> {}, org |-> {}, tied |-> FALSE]

SuperAdminGuard ==
    [first |-> "super", con |-> {}, org |-> {}, tied |-> FALSE]

GuardOf(name) ==
    CASE name = "OrganizationReadGuard" -> OrganizationReadGuard
      [] name = "OrganizationWriteGuard" -> OrganizationWriteGuard
      [] name = "OrganizationAdminGuard" -> OrganizationAdminGuard
      [] name = "ConventionReadGuard" -> ConventionReadGuard
      [] name = "ConventionWriteGuard" -> ConventionWriteGuard
      [] name = "ConventionAdminGuard" -> ConventionAdminGuard
      [] name = "CheckOutGuard" -> CheckOutGuard
      [] name = "PrizeEntryGuard" -> PrizeEntryGuard
      [] name = "ConventionTypeGuard" -> ConventionTypeGuard
      [] name = "GameGuard" -> GameGuard
      [] name = "OrganizationPermissionsGuard" -> OrganizationPermissionsGuard
      [] name = "ConventionPermissionsGuard" -> ConventionPermissionsGuard
      [] name = "ConventionCreatePermissionsGuard" -> ConventionCreatePermissionsGuard
      [] name = "CollectionWriteGuard" -> CollectionWriteGuard
      [] name = "CopyGuard" -> CopyGuard
      [] name = "CollectionReadGuard" -> CollectionReadGuard
      [] name = "AttendeeGuard" -> AttendeeGuard
      [] name = "UserGuard" -> UserGuard
      [] name = "UserSelfGuard" -> UserSelfGuard
      [] name = "SuperAdminGuard" -> SuperAdminGuard

\* The guards that do not return at once for a super admin.
Unbypassed == {"CollectionWriteGuard", "CopyGuard", "AttendeeGuard", "UserSelfGuard"}

-----------------------------------------------------------------------------
(* The routes: the guard, the number it finds in the path or body (id), the *)
(* organization of the path where there is one too (org), what the handler  *)
(* does, and to which row (thing and number).  whom and role are the input  *)
(* of a new or changed grant.                                               *)

\* The table in which a guard looks up the number; an attendee leads to his
\* convention, and the rows of the other tables to their organization.
Reads(name) ==
    LET first == GuardOf(name).first IN
    CASE first \in {"con", "attendee"} -> "con"
      [] first \in {"item", "collection"} -> "item"
      [] first \in {"self", "super"} -> "nothing"
      [] OTHER -> first

Things == {"org", "con", "item", "orgGrant", "conGrant", "nothing"}

\* Most handlers work on the row that their guard has looked up.
Route(guard, id, op) ==
    [guard |-> guard, id |-> id, org |-> 0, op |-> op, table |-> "org", whom |-> NoOne,
     role |-> "none", thing |-> Reads(guard), number |-> id]

NoRoute ==
    [guard |-> "none", id |-> 0, org |-> 0, op |-> "use", table |-> "org", whom |-> NoOne,
     role |-> "none", thing |-> "nothing", number |-> 0]

\* Any other route: what it does is modelled elsewhere or reads only.
Use(guard, id) == Route(guard, id, "use")

\* The row that the path names is p's, or the path names p.
UseOf(guard, n, p) == [Route(guard, n, "use") EXCEPT !.whom = p]

PutAttendee(n, p) == [Route("AttendeeGuard", n, "updateAttendee") EXCEPT !.whom = p]

\* The guard of this route reads the organization's number as a convention type's.
GetConventionTypes(o) == [Use("ConventionTypeGuard", o) EXCEPT !.thing = "org"]

\* Nothing in this path has the name that the guard looks for.
ExportPlays(n) == [Use("CollectionReadGuard", 0) EXCEPT !.number = n]

\* The path names an organization, which the first of the route's two guards
\* looks up, and a collection, on which the handler works.
UseCollectionOf(o, n) ==
    [Route("OrganizationAdminGuard", o, "useCollection") EXCEPT !.thing = "item", !.number = n]

UseInOrganization(guard, o, c) == [Route(guard, c, "use") EXCEPT !.org = o]

PostOrganization == Route("SuperAdminGuard", 0, "createOrganization")

PostConvention(o) == Route("OrganizationAdminGuard", o, "createConvention")

\* The body may name another organization, the new one.
PutConvention(c, o) == [Route("ConventionAdminGuard", c, "updateConvention") EXCEPT !.org = o]

PostOrganizationPermission(o, p, role) ==
    [Route("OrganizationWriteGuard", o, "createGrant") EXCEPT !.whom = p, !.role = role]

PostConventionPermission(c, p, role) ==
    [Route("ConventionCreatePermissionsGuard", c, "createGrant")
        EXCEPT !.whom = p, !.role = role, !.table = "con"]

DeleteOrganizationPermission(g) == Route("OrganizationPermissionsGuard", g, "deleteGrant")

DeleteConventionPermission(g) == Route("ConventionPermissionsGuard", g, "deleteGrant")

PutOrganizationPermission(g, role) ==
    [Route("OrganizationPermissionsGuard", g, "updateGrant") EXCEPT !.role = role]

PutConventionPermission(g, role) ==
    [Route("ConventionPermissionsGuard", g, "updateGrant") EXCEPT !.role = role]

AddUserToOrganization(o, p, role) ==
    [Route("OrganizationAdminGuard", o, "addUser") EXCEPT !.whom = p, !.role = role]

\* The guard of this route reads the convention's number as an organization's.
AddUserToConvention(c, p, role) ==
    [Route("OrganizationAdminGuard", c, "addUser")
        EXCEPT !.whom = p, !.role = role, !.table = "con", !.thing = "con"]

Guards ==
    {"OrganizationReadGuard", "OrganizationWriteGuard", "OrganizationAdminGuard",
     "ConventionReadGuard", "ConventionWriteGuard", "ConventionAdminGuard", "CheckOutGuard",
     "PrizeEntryGuard", "ConventionTypeGuard", "GameGuard", "OrganizationPermissionsGuard",
     "ConventionPermissionsGuard", "ConventionCreatePermissionsGuard", "CollectionWriteGuard",
     "CopyGuard", "CollectionReadGuard", "AttendeeGuard", "UserGuard", "UserSelfGuard",
     "SuperAdminGuard"}

Ops == {"use", "useCollection", "updateAttendee", "createOrganization", "createConvention",
        "updateConvention", "createGrant", "addUser", "updateGrant", "deleteGrant"}

AnyRoute == [guard : Guards, id : Nat, org : Nat, op : Ops, table : {"org", "con"},
             whom : People \cup {NoOne}, role : Roles, thing : Things, number : Nat]

\* The guard judges the caller by another row than the one the handler works on.
Misread(route) ==
    \/ <<route.thing, route.number>> # <<Reads(route.guard), route.id>>
    \/ route.op = "useCollection"

Tied(name) == name \in {"CheckOutGuard", "PrizeEntryGuard"}

\* What the controllers' declarations say of their routes: a permission is made
\* for a person, one is changed or deleted behind the guard of its table, and
\* the tied guards and the update of a convention are all that read an
\* organization's number besides the one they look up.
WellFormed(route) ==
    /\ route.op \in {"createGrant", "addUser"} => route.whom \in People
    /\ route.op \in {"updateGrant", "deleteGrant"} =>
            route.guard \in {"OrganizationPermissionsGuard", "ConventionPermissionsGuard"}
    /\ route.op = "updateConvention" => route.guard = "ConventionAdminGuard"
    /\ route.org # 0 => Tied(route.guard) \/ route.op = "updateConvention"
    /\ Tied(route.guard) => route.org # 0

\* Starts holds tables that sign-ins and routes can have led to; the first of
\* the accounts is a super admin's.
Start ==
    {s \in [users : [People -> {"none", "user", "superAdmin"}], owners : Seq(People),
            conventions : Seq(Nat), grants : Seq(Grant)] :
        /\ Consistent(s.users, s.owners, s.conventions, s.grants)
        /\ \/ \A p \in People : s.users[p] = "none"
           \/ \E p \in People : s.users[p] = "superAdmin"}

ASSUME AccessAssumption ==
    /\ NoOne \notin People
    /\ {MaxRequests, MaxRows} \subseteq Nat
    /\ \A route \in Routes : route \in AnyRoute /\ WellFormed(route)
    /\ \A s \in Starts : s \in Start
    /\ Items \in Seq(Nat)
    /\ Attachments \subseteq Nat \X Nat

-----------------------------------------------------------------------------
PCs == {"idle", "find", "count", "create", "promote", "super", "orgGrant", "conGrant",
        "grantCon", "item", "collection", "conventions", "attendee", "self", "con", "org",
        "alsoItem", "alsoOrg", "ownGrant", "account", "newAccount", "act", "refused"}

\* super is the flag of the user row that was read; empty is isFirstUser; org
\* is the organization that the guard looks up last.
Request == [pc : PCs, who : People \cup {NoOne}, route : Routes \cup {NoRoute},
            super : BOOLEAN, empty : BOOLEAN, org : Nat]

Idle == [pc |-> "idle", who |-> NoOne, route |-> NoRoute, super |-> FALSE,
         empty |-> FALSE, org |-> 0]

TypeOK ==
    /\ users \in [People -> {"none", "user", "superAdmin"}]
    /\ owners \in Seq(People)
    /\ conventions \in Seq(Nat)
    /\ grants \in Seq(Grant)
    /\ Consistent(users, owners, conventions, grants)
    /\ requests \in [Requests -> Request]
    /\ \A r \in Requests :
            requests[r].pc \in {"item", "con", "org", "alsoOrg", "ownGrant", "act"} =>
                Has(requests[r].who)
    /\ early \subseteq People
    /\ missed \in BOOLEAN
    /\ rewritten \subseteq People

Answer(r) == requests' = [requests EXCEPT ![r] = Idle]

Go(r, pc) == requests' = [requests EXCEPT ![r].pc = pc]

\* 403
Refuse(r) == Go(r, "refused")

\* A route with two guards has the second one yet to pass.
Handler(r) ==
    CASE requests[r].route.op = "addUser" -> "account"
      [] requests[r].route.op = "useCollection" -> "alsoItem"
      [] OTHER -> "act"

Changes(r) == requests[r].route.op \in {"updateGrant", "deleteGrant"}

\* What follows the authentication: the handler for a super admin, for whom
\* nearly every guard returns at once, or the first read of the guard.
Authenticated(r, super) ==
    requests' = [requests EXCEPT
        ![r].super = super,
        ![r].pc = IF super /\ requests[r].route.guard \notin Unbypassed THEN Handler(r)
                  ELSE GuardOf(requests[r].route.guard).first,
        ![r].org = IF requests[r].route.org # 0 THEN requests[r].route.org
                   ELSE requests[r].route.id]

\* The guard has passed; a change of a grant has the self-update guard yet to pass.
Passed(r) == Go(r, IF Changes(r) THEN "ownGrant" ELSE Handler(r))

-----------------------------------------------------------------------------
(* What AUTHORIZATION.md promises of each guard, as the least rank that is  *)
(* let through in the organization and in the convention.                   *)

Rank(roles) ==
    IF "owner" \in roles THEN 4
    ELSE IF "admin" \in roles THEN 3
    ELSE IF "geekGuide" \in roles THEN 2
    ELSE IF "basic" \in roles THEN 1 ELSE 0

Nobody == 5

LeastInOrganization(name) ==
    CASE name \in {"OrganizationReadGuard", "CollectionReadGuard"} -> 1
      [] name \in {"ConventionReadGuard", "CheckOutGuard", "PrizeEntryGuard",
                   "AttendeeGuard"} -> 2
      [] name \in {"SuperAdminGuard", "UserGuard", "UserSelfGuard"} -> Nobody
      [] OTHER -> 3

LeastInConvention(name) ==
    CASE name \in {"ConventionReadGuard", "PrizeEntryGuard"} -> 1
      [] name \in {"CheckOutGuard", "AttendeeGuard"} -> 2
      [] name \in {"ConventionWriteGuard", "ConventionAdminGuard"} -> 3
      [] OTHER -> Nobody

\* The convention and the organization of the row that the handler works on,
\* whatever its guard reads.  (The row of a permission may be deleted once the
\* guard has read it.)
ConventionNamed(req) ==
    LET thing == req.route.thing
        n == req.route.number IN
    CASE thing = "con" -> n
      [] thing = "conGrant" /\ (Row("con", n) \/ req.pc = "grantCon") -> grants[n].of
      [] OTHER -> 0

OrganizationNamed(req) ==
    LET thing == req.route.thing
        n == req.route.number
        c == ConventionNamed(req) IN
    CASE thing \in {"con", "conGrant"} ->
            IF c \in DOMAIN conventions THEN conventions[c] ELSE 0
      [] thing = "orgGrant" -> IF Row("org", n) THEN grants[n].of ELSE 0
      [] thing = "item" -> ItemOrganization(n)
      [] thing = "org" -> n
      [] OTHER -> 0

\* Collection n is attached to a convention that p can see: any permission row
\* there or in its organization, with whatever flags.  It stays attached when
\* the convention is moved to another organization.
Sees(p, n) ==
    /\ ItemOrganization(n) # 0
    /\ \E c \in DOMAIN conventions :
        /\ <<n, c>> \in Attachments
        /\ RolesIn("org", conventions[c], p) # {} \/ RolesIn("con", c, p) # {}

\* The ways in which somebody is entitled to a route in organization o: by the
\* rank there or in the convention, by seeing its collection, as the user it
\* names.
Ways(req, o) ==
    LET c == ConventionNamed(req)
        guard == req.route.guard
        who == req.who IN
    {way \in {"organization", "convention", "sight", "self"} :
        /\ Tied(guard) => o = req.route.org
        /\ CASE way = "organization" ->
                    Rank(OrganizationRoles(o, who)) >= LeastInOrganization(guard)
             [] way = "convention" ->
                    Rank(ConventionRoles(c, who)) >= LeastInConvention(guard)
             [] way = "sight" -> guard = "CollectionReadGuard" /\ Sees(who, req.route.number)
             [] way = "self" ->
                    /\ req.route.whom = who
                    /\ \/ guard \in {"UserGuard", "UserSelfGuard"}
                       \/ guard = "AttendeeGuard" /\ c \in DOMAIN conventions}

InFlight(r) == requests[r].pc \notin {"idle", "refused"}

\* A convention may be moved to another organization while the guard reads: the
\* caller is entitled in one of the organizations it has been in meanwhile, and
\* in certain ways whichever of them the guard has read.
Entitled(r) ==
    InFlight(r) /\ \E o \in homes[r] : Ways(requests[r], o) # {}

WaysOf(r) ==
    IF InFlight(r)
    THEN {way \in {"organization", "convention", "sight", "self"} :
            \A o \in homes[r] : way \in Ways(requests[r], o)}
    ELSE {}

Watch ==
    /\ homes' = [r \in Requests |->
            IF requests'[r].pc \in {"idle", "refused"} THEN {}
            ELSE {OrganizationNamed(requests[r])'}
                    \cup IF InFlight(r) THEN homes[r] ELSE {}]
    /\ ever' = [r \in Requests |->
            CASE requests'[r].pc = "idle" -> FALSE
              [] requests'[r].pc = "refused" -> ever[r]
              [] OTHER -> (InFlight(r) /\ ever[r]) \/ Entitled(r)']
    /\ always' = [r \in Requests |->
            CASE requests'[r].pc = "idle" -> {}
              [] requests'[r].pc = "refused" -> always[r]
              [] OTHER -> IF InFlight(r) THEN always[r] \cap WaysOf(r)' ELSE WaysOf(r)']

Keep == UNCHANGED <<received, early, missed, rewritten>> /\ Watch

-----------------------------------------------------------------------------
Init ==
    /\ \E s \in Starts :
        /\ users = s.users
        /\ owners = s.owners
        /\ conventions = s.conventions
        /\ grants = s.grants
    /\ requests = [r \in Requests |-> Idle]
    /\ received = 0
    /\ homes = [r \in Requests |-> {}]
    /\ ever = [r \in Requests |-> FALSE]
    /\ always = [r \in Requests |-> {}]
    /\ early = {p \in People : users[p] = "superAdmin"}
    /\ missed = FALSE
    /\ rewritten = {}

Receive(r) ==
    /\ requests[r].pc \in {"idle", "refused"}
    /\ received < MaxRequests
    /\ received' = received + 1
    /\ \E p \in People, route \in Routes :
        /\ requests' = [requests EXCEPT ![r] =
                            [Idle EXCEPT !.pc = "find", !.who = p, !.route = route]]
        /\ early' = early \cup (IF NoAccounts THEN {p} ELSE {})
    /\ UNCHANGED <<tables, missed, rewritten>>
    /\ Watch

FindUser(r) ==
    /\ requests[r].pc = "find"
    /\ IF Has(requests[r].who) THEN Authenticated(r, users[requests[r].who] = "superAdmin")
       ELSE Go(r, "count")
    /\ UNCHANGED tables
    /\ Keep

\* Mutation: the second account counts as the first.
CountUsersLoosely(r) ==
    /\ requests[r].pc = "count"
    /\ requests' = [requests EXCEPT
            ![r].pc = "create",
            ![r].empty = Cardinality({p \in People : Has(p)}) <= 1]
    /\ UNCHANGED tables
    /\ Keep

\* Mutation: the users are counted with the new one.
CountUsersLate(r) ==
    /\ requests[r].pc = "count"
    /\ requests' = [requests EXCEPT ![r].pc = "create", ![r].empty = FALSE]
    /\ UNCHANGED tables
    /\ Keep

CountUsers(r) ==
    /\ requests[r].pc = "count"
    /\ requests' = [requests EXCEPT ![r].pc = "create", ![r].empty = NoAccounts]
    /\ UNCHANGED tables
    /\ Keep

\* Another request may have created the account since: email is unique.
CreateUser(r) ==
    LET p == requests[r].who IN
    /\ requests[r].pc = "create"
    /\ IF Has(p) THEN Answer(r) /\ UNCHANGED users
       ELSE /\ users' = [users EXCEPT ![p] = "user"]
            /\ IF requests[r].empty THEN Go(r, "promote") ELSE Authenticated(r, FALSE)
    /\ UNCHANGED <<owners, conventions, grants>>
    /\ Keep

Promote(r) ==
    /\ requests[r].pc = "promote"
    /\ users' = [users EXCEPT ![requests[r].who] = "superAdmin"]
    /\ Authenticated(r, TRUE)
    /\ UNCHANGED <<owners, conventions, grants>>
    /\ Keep

-----------------------------------------------------------------------------
CheckSuper(r) ==
    /\ requests[r].pc = "super"
    /\ Refuse(r)
    /\ UNCHANGED tables
    /\ Keep

\* OrganizationPermissionsGuard reads the row of its path.
ReadOrganizationGrant(r) ==
    LET g == requests[r].route.id IN
    /\ requests[r].pc = "orgGrant"
    /\ IF ~Row("org", g) THEN Refuse(r)
       ELSE requests' = [requests EXCEPT ![r].pc = "org", ![r].org = grants[g].of]
    /\ UNCHANGED tables
    /\ Keep

\* ConventionPermissionsGuard reads the row of its path and then the row's
\* convention, which is moved between the two reads if another request does so.
ReadConventionGrant(r) ==
    LET g == requests[r].route.id IN
    /\ requests[r].pc = "conGrant"
    /\ IF Row("con", g) THEN Go(r, "grantCon") ELSE Refuse(r)
    /\ UNCHANGED tables
    /\ Keep

ReadGrantConvention(r) ==
    /\ requests[r].pc = "grantCon"
    /\ requests' = [requests EXCEPT
            ![r].pc = "org",
            ![r].org = conventions[grants[requests[r].route.id].of]]
    /\ UNCHANGED tables
    /\ Keep

\* A convention type, a game, a copy or a collection: it never changes its
\* organization.  Who names one that does not exist is not let through.
ReadItem(r) ==
    LET o == ItemOrganization(requests[r].route.id) IN
    /\ requests[r].pc = "item"
    /\ IF o = 0 THEN Refuse(r)
       ELSE IF requests[r].super THEN Passed(r)
       ELSE requests' = [requests EXCEPT ![r].pc = "org", ![r].org = o]
    /\ UNCHANGED tables
    /\ Keep

ReadCollection(r) ==
    LET o == ItemOrganization(requests[r].route.id) IN
    /\ requests[r].pc = "collection"
    /\ IF o = 0 THEN Refuse(r)
       ELSE requests' = [requests EXCEPT ![r].pc = "conventions", ![r].org = o]
    /\ UNCHANGED tables
    /\ Keep

\* The second guard of the organization's routes, CollectionWriteGuard: it takes
\* the organization's number, which the path gives first, for the collection's.
ReadAlsoItem(r) ==
    LET o == ItemOrganization(requests[r].route.id) IN
    /\ requests[r].pc = "alsoItem"
    /\ IF o = 0 THEN Refuse(r)
       ELSE IF requests[r].super THEN Go(r, "act")
       ELSE requests' = [requests EXCEPT ![r].pc = "alsoOrg", ![r].org = o]
    /\ UNCHANGED tables
    /\ Keep

ReadAlsoOrganization(r) ==
    LET mine == OrganizationRoles(requests[r].org, requests[r].who) IN
    /\ requests[r].pc = "alsoOrg"
    /\ IF mine \cap (CollectionWriteGuard.org \cup {"owner"}) # {} THEN Go(r, "act")
       ELSE Refuse(r)
    /\ UNCHANGED tables
    /\ Keep

\* ConventionService.conventions: the conventions that the caller can see.
ReadConventions(r) ==
    /\ requests[r].pc = "conventions"
    /\ IF Sees(requests[r].who, requests[r].route.id) THEN Passed(r) ELSE Go(r, "org")
    /\ UNCHANGED tables
    /\ Keep

\* The attendee must exist for a super admin too.
ReadAttendee(r) ==
    /\ requests[r].pc = "attendee"
    /\ IF requests[r].route.id \notin DOMAIN conventions THEN Refuse(r)
       ELSE IF requests[r].super \/ requests[r].route.whom = requests[r].who THEN Passed(r)
       ELSE Go(r, "con")
    /\ UNCHANGED tables
    /\ Keep

CheckSelf(r) ==
    /\ requests[r].pc = "self"
    /\ IF requests[r].route.whom = requests[r].who THEN Passed(r) ELSE Refuse(r)
    /\ UNCHANGED tables
    /\ Keep

\* Mutation: a role in the convention is required.
ReadConventionOnly(r) ==
    LET c == requests[r].route.id
        guard == GuardOf(requests[r].route.guard) IN
    /\ requests[r].pc = "con"
    /\ IF guard.tied /\ (c \notin DOMAIN conventions \/ conventions[c] # requests[r].org)
       THEN Refuse(r)
       ELSE IF ConventionRoles(c, requests[r].who) \cap guard.con # {} THEN Passed(r)
       ELSE Refuse(r)
    /\ UNCHANGED tables
    /\ Keep

ReadConvention(r) ==
    LET c == requests[r].route.id
        guard == GuardOf(requests[r].route.guard)
        known == c \in DOMAIN conventions IN
    /\ requests[r].pc = "con"
    /\ IF guard.tied /\ (~known \/ conventions[c] # requests[r].org) THEN Refuse(r)
       ELSE IF ConventionRoles(c, requests[r].who) \cap guard.con # {} THEN Passed(r)
       ELSE requests' = [requests EXCEPT ![r].pc = "org",
                                         ![r].org = IF known THEN conventions[c] ELSE 0]
    /\ UNCHANGED tables
    /\ Keep

ReadOrganization(r) ==
    LET mine == OrganizationRoles(requests[r].org, requests[r].who) IN
    /\ requests[r].pc = "org"
    /\ IF mine \cap (GuardOf(requests[r].route.guard).org \cup {"owner"}) # {}
       THEN Passed(r) ELSE Refuse(r)
    /\ UNCHANGED tables
    /\ Keep

\* Mutation: the guard looks for the row only.
ReadOwnGrantOnly(r) ==
    LET g == requests[r].route.id IN
    /\ requests[r].pc = "ownGrant"
    /\ IF g \in DOMAIN grants /\ grants[g].live THEN Go(r, "act") ELSE Refuse(r)
    /\ UNCHANGED tables
    /\ Keep

\* The self-update guards read the row again.
ReadOwnGrant(r) ==
    LET g == requests[r].route.id IN
    /\ requests[r].pc = "ownGrant"
    /\ IF g \in DOMAIN grants /\ grants[g].live /\ grants[g].user # requests[r].who
       THEN Go(r, "act") ELSE Refuse(r)
    /\ UNCHANGED tables
    /\ Keep

-----------------------------------------------------------------------------
(* The handlers *)

Acts(r, op) == requests[r].pc = "act" /\ requests[r].route.op = op

UseRoute(r) ==
    /\ Acts(r, "use") \/ Acts(r, "useCollection")
    /\ Answer(r)
    /\ UNCHANGED tables
    /\ Keep

\* What a nested write makes of a row.
Rewritings(row) ==
    {[row EXCEPT !.role = role] : role \in Roles} \cup {[row EXCEPT !.live = FALSE]}

\* The body goes to Prisma as it is, and nested writes lead from the attendee to
\* his account, his convention and its organization, and from there to the rows
\* of others.  What they do is left open, one row to a request: nothing, to set
\* the flag of an account, to change or delete a permission.
UpdateAttendee(r) ==
    /\ Acts(r, "updateAttendee")
    /\ \/ UNCHANGED <<users, grants, rewritten>>
       \/ \E p \in People, flag \in {"user", "superAdmin"} :
            /\ Has(p)
            /\ users' = [users EXCEPT ![p] = flag]
            /\ rewritten' = rewritten \cup {p}
            /\ UNCHANGED grants
       \/ \E g \in DOMAIN grants :
            /\ grants[g].live
            /\ \E row \in Rewritings(grants[g]) : grants' = [grants EXCEPT ![g] = row]
            /\ UNCHANGED <<users, rewritten>>
    /\ Answer(r)
    /\ UNCHANGED <<owners, conventions, received, early, missed>>
    /\ Watch

CreateOrganization(r) ==
    /\ Acts(r, "createOrganization")
    /\ Len(owners) < MaxRows
    /\ owners' = Append(owners, requests[r].who)
    /\ Answer(r)
    /\ UNCHANGED <<users, conventions, grants>>
    /\ Keep

CreateConvention(r) ==
    /\ Acts(r, "createConvention")
    /\ Len(conventions) < MaxRows
    /\ conventions' = IF requests[r].route.id \in DOMAIN owners
                      THEN Append(conventions, requests[r].route.id) ELSE conventions
    /\ Answer(r)
    /\ UNCHANGED <<users, owners, grants>>
    /\ Keep

\* A convention of an organization that does not exist is refused.
UpdateConvention(r) ==
    LET route == requests[r].route IN
    /\ Acts(r, "updateConvention")
    /\ conventions' = IF route.id \in DOMAIN conventions /\ route.org \in DOMAIN owners
                      THEN [conventions EXCEPT ![route.id] = route.org] ELSE conventions
    /\ Answer(r)
    /\ UNCHANGED <<users, owners, grants>>
    /\ Keep

\* addUserByEmail
ReadAccount(r) ==
    /\ requests[r].pc = "account"
    /\ Go(r, IF Has(requests[r].route.whom) THEN "act" ELSE "newAccount")
    /\ UNCHANGED tables
    /\ Keep

CreateAccount(r) ==
    LET p == requests[r].route.whom IN
    /\ requests[r].pc = "newAccount"
    /\ IF Has(p) THEN Answer(r) /\ UNCHANGED users
       ELSE users' = [users EXCEPT ![p] = "user"] /\ Go(r, "act")
    /\ UNCHANGED <<owners, conventions, grants>>
    /\ Keep

\* Mutation: the row is inserted whether there is one or not.
CreateGrantAgain(r) ==
    LET route == requests[r].route IN
    /\ Acts(r, "createGrant") \/ Acts(r, "addUser")
    /\ Len(grants) < MaxRows
    /\ grants' = IF Has(route.whom) /\ route.id \in Parents(route.table, owners, conventions)
                 THEN Append(grants, [table |-> route.table, user |-> route.whom,
                                      of |-> route.id, role |-> route.role, live |-> TRUE])
                 ELSE grants
    /\ Answer(r)
    /\ UNCHANGED <<users, owners, conventions>>
    /\ Keep

\* createPermission.  The insert fails without its user or its organization or
\* convention, and when the user has a row there already.
CreateGrant(r) ==
    LET route == requests[r].route IN
    /\ Acts(r, "createGrant") \/ Acts(r, "addUser")
    /\ Len(grants) < MaxRows
    /\ grants' = IF /\ Has(route.whom)
                    /\ route.id \in Parents(route.table, owners, conventions)
                    /\ RolesIn(route.table, route.id, route.whom) = {}
                 THEN Append(grants, [table |-> route.table, user |-> route.whom,
                                      of |-> route.id, role |-> route.role, live |-> TRUE])
                 ELSE grants
    /\ Answer(r)
    /\ UNCHANGED <<users, owners, conventions>>
    /\ Keep

\* updatePermission and deletePermission fail when the row is gone.
UpdateGrant(r) ==
    LET g == requests[r].route.id
        table == IF requests[r].route.guard = "OrganizationPermissionsGuard" THEN "org" ELSE "con" IN
    /\ Acts(r, "updateGrant")
    /\ grants' = IF Row(table, g) THEN [grants EXCEPT ![g].role = requests[r].route.role]
                 ELSE grants
    /\ Answer(r)
    /\ UNCHANGED <<users, owners, conventions>>
    /\ Keep

DeleteGrant(r) ==
    LET g == requests[r].route.id
        table == IF requests[r].route.guard = "OrganizationPermissionsGuard" THEN "org" ELSE "con" IN
    /\ Acts(r, "deleteGrant")
    /\ grants' = IF Row(table, g) THEN [grants EXCEPT ![g].live = FALSE] ELSE grants
    /\ Answer(r)
    /\ UNCHANGED <<users, owners, conventions>>
    /\ Keep

\* Any call to the database may fail, and the request with it.
Fail(r) ==
    /\ requests[r].pc \notin {"idle", "refused", "super"}
    /\ missed' = (missed \/ requests[r].pc = "promote")
    /\ Answer(r)
    /\ UNCHANGED <<tables, received, early, rewritten>>
    /\ Watch

-----------------------------------------------------------------------------
Authenticate(r) == FindUser(r) \/ CountUsers(r) \/ CreateUser(r) \/ Promote(r)

Guard(r) ==
    \/ CheckSuper(r) \/ CheckSelf(r) \/ ReadOrganizationGrant(r)
    \/ ReadConventionGrant(r) \/ ReadGrantConvention(r) \/ ReadItem(r)
    \/ ReadCollection(r) \/ ReadConventions(r) \/ ReadAttendee(r)
    \/ ReadConvention(r) \/ ReadOrganization(r) \/ ReadOwnGrant(r)
    \/ ReadAlsoItem(r) \/ ReadAlsoOrganization(r)

Handle(r) ==
    \/ UseRoute(r) \/ UpdateAttendee(r)
    \/ CreateOrganization(r) \/ CreateConvention(r) \/ UpdateConvention(r)
    \/ ReadAccount(r) \/ CreateAccount(r) \/ CreateGrant(r)
    \/ UpdateGrant(r) \/ DeleteGrant(r)

Next == \E r \in Requests : Receive(r) \/ Authenticate(r) \/ Guard(r) \/ Handle(r) \/ Fail(r)

Spec == Init /\ [][Next]_vars

-----------------------------------------------------------------------------
(* Properties *)

\* The handler runs only for a caller who has had, at some time since the request
\* arrived, the role that the documentation of its guard asks for, in the
\* convention of the row that the handler works on or in an organization that
\* has been its organization since then; or for a super admin.
RunsWithinRoles(r) ==
    requests[r].pc \in {"act", "account", "newAccount"} /\ ~requests[r].super => ever[r]

\* So it is wherever the guard looks up the row that the handler works on.
ActsWithinRoles ==
    \A r \in Requests : RunsWithinRoles(r) \/ Misread(requests[r].route)

\* What AUTHORIZATION.md says of all routes: 'load the resource, allow if owner /
\* has a qualifying role'.  It does not hold of those whose guard misreads a
\* number.
EveryRouteWithinRoles == \A r \in Requests : RunsWithinRoles(r)

\* Such a guard refuses nobody who has had the role all the while, whatever the
\* order in which it reads the convention and the organization, and wherever the
\* convention is moved meanwhile; but a change
\* of the caller's own row.  (Who loses a role in one of them and is given one
\* in the other, between the two reads, may be refused.)
RefusedOnlyWithoutRole ==
    \A r \in Requests :
        requests[r].pc = "refused" /\ ~Misread(requests[r].route) =>
            \/ always[r] = {}
            \/ Changes(r) /\ grants[requests[r].route.id].user = requests[r].who

\* The self-update guards: a permission row is changed or deleted by somebody
\* else than its user, by a super admin, or by the nested writes of an
\* attendee's update, which no such guard looks at.
SelfProtected ==
    [][\A g \in DOMAIN grants : grants'[g] # grants[g] =>
          \E r \in Requests :
              /\ requests[r].pc = "act" /\ requests'[r].pc = "idle"
              /\ \/ requests[r].route.op = "updateAttendee"
                 \/ /\ requests[r].route.id = g /\ Changes(r)
                    /\ requests[r].super \/ requests[r].who # grants[g].user]_vars

\* The bootstrap of JwtStrategy.validate: a super admin is somebody who called
\* before there was any account, or whose flag an attendee's update has set.
OnlyFounders ==
    \A p \in People : users[p] = "superAdmin" => p \in early \cup rewritten

\* 'There is no other code path that grants superAdmin' (AUTHORIZATION.md): an
\* attendee's update is one.
NoOtherPath == \A p \in People : users[p] = "superAdmin" => p \in early

\* Once there are accounts there is a super admin, or is about to be one, unless
\* the call that makes the first user a super admin has failed or an attendee's
\* update has set somebody's flag.
BootstrapMissedOnlyByFailure ==
    \/ NoAccounts
    \/ \E p \in People : users[p] = "superAdmin"
    \/ \E r \in Requests : requests[r].pc = "promote"
    \/ missed
    \/ rewritten # {}
=============================================================================
