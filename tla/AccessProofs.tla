---------------------------- MODULE AccessProofs ----------------------------
(***************************************************************************)
(* Theorems about module Access, for any people, any number of requests in *)
(* flight, any set of routes and any consistent tables to start from.      *)
(***************************************************************************)
EXTENDS Access, TLAPS

-----------------------------------------------------------------------------
(* The inductive invariant: what a request knows of the accounts at each    *)
(* step of its sign-in, and that it is somebody's afterwards.               *)

SignedIn == {"promote", "super", "orgGrant", "conGrant", "grantCon", "item", "collection",
             "conventions", "attendee", "self", "con", "org", "alsoItem", "alsoOrg", "ownGrant",
             "account", "newAccount", "act"}

FirstReads == {"org", "con", "item", "collection", "attendee", "self", "orgGrant", "conGrant",
               "super"}

Knows(req) ==
    /\ req.pc # "idle" => req.who \in People /\ req.route \in Routes
    /\ req.pc \in {"find", "count"} /\ NoAccounts => req.who \in early
    /\ req.pc = "create" => IF req.empty THEN req.who \in early ELSE ~NoAccounts
    /\ req.pc = "promote" => req.who \in early
    /\ req.pc \in SignedIn => Has(req.who)
    /\ req.pc \in {"account", "newAccount"} => req.route.op = "addUser"
    /\ req.pc \in {"alsoItem", "alsoOrg"} => req.route.op = "useCollection"
    /\ req.pc = "grantCon" =>
            req.route.id \in DOMAIN grants /\ grants[req.route.id].table = "con"

AccessInv ==
    /\ TypeOK
    /\ \A r \in Requests : Knows(requests[r])
    /\ OnlyFounders
    /\ BootstrapMissedOnlyByFailure

-----------------------------------------------------------------------------
(* Steps that change one request only, and steps that change the tables.    *)

\* Rows are never removed and stay in their place.
RowsKept == \A g \in DOMAIN grants : g \in DOMAIN grants' /\ SamePlace(grants'[g], grants[g])

\* What a step may do to the accounts, the rows and the history of the bootstrap.
Upward ==
    /\ RowsKept
    /\ users' \in [People -> {"none", "user", "superAdmin"}]
    /\ \A p \in People : Has(p) => Has(p)'
    /\ early \subseteq early' /\ early' \subseteq People
    /\ rewritten' \subseteq People
    /\ missed' \in BOOLEAN /\ (missed => missed')

LEMMA KnowsPersists ==
    ASSUME AccessInv, Upward, NEW r \in Requests, requests'[r] = requests[r],
           NoAccounts' => early' = early
    PROVE  Knows(requests[r])'
<1>1. Knows(requests[r]) /\ NoAccounts' => NoAccounts
  BY DEF AccessInv, Upward, NoAccounts
<1>2. QED
  BY <1>1 DEF AccessInv, Upward, RowsKept, SamePlace, Knows, SignedIn, NoAccounts, Has

\* A step of request r that leaves the tables consistent, does not make anybody
\* a super admin by the way, and knows what its new state requires.
LEMMA OneRequest ==
    ASSUME AccessInv, Upward, NEW r \in Requests,
           owners' \in Seq(People), conventions' \in Seq(Nat), grants' \in Seq(Grant),
           Consistent(users', owners', conventions', grants'),
           requests' \in [Requests -> Request],
           \A s \in Requests : s # r => requests'[s] = requests[s],
           Knows(requests[r])', early' = early,
           \A p \in People : users'[p] = "superAdmin" => p \in early \cup rewritten',
           BootstrapMissedOnlyByFailure'
    PROVE  AccessInv'
<1>1. \A s \in Requests : Knows(requests[s])'
  BY KnowsPersists
<1>2. TypeOK'
  BY <1>1 DEF AccessInv, TypeOK, Upward, Knows, SignedIn
<1>3. QED
  BY <1>1, <1>2 DEF AccessInv, OnlyFounders

\* Requests that only read leave the tables alone.
LEMMA ReadOnly ==
    ASSUME AccessInv, NEW r \in Requests, UNCHANGED <<tables, early, missed, rewritten>>,
           requests[r].pc # "promote", NEW req \in Request,
           requests' = [requests EXCEPT ![r] = req], Knows(req)
    PROVE  AccessInv'
<1>1. Upward
  BY DEF AccessInv, TypeOK, Upward, RowsKept, SamePlace, tables, Has
<1>2. /\ requests' \in [Requests -> Request]
      /\ requests'[r] = req
      /\ \A s \in Requests : s # r => requests'[s] = requests[s]
  BY DEF AccessInv, TypeOK
<1>3. Knows(requests[r])'
  BY <1>2 DEF Knows, NoAccounts, Has, tables
<1>4. BootstrapMissedOnlyByFailure'
  BY <1>2 DEF AccessInv, BootstrapMissedOnlyByFailure, NoAccounts, Has, tables
<1>5. /\ owners' \in Seq(People) /\ conventions' \in Seq(Nat) /\ grants' \in Seq(Grant)
      /\ Consistent(users', owners', conventions', grants')
      /\ \A p \in People : users'[p] = "superAdmin" => p \in early \cup rewritten'
  BY DEF AccessInv, TypeOK, OnlyFounders, tables
<1>6. QED
  BY <1>1, <1>2, <1>3, <1>4, <1>5, OneRequest

\* An answer.
LEMMA IdleKnows == Idle \in Request /\ Knows(Idle)
  BY DEF Idle, Request, Knows, SignedIn, PCs

\* The organization of an item that exists.
LEMMA ItemOrganizationIs ==
    ASSUME AccessInv, NEW n
    PROVE  /\ ItemOrganization(n) \in Nat
           /\ ItemOrganization(n) # 0 => ItemOrganization(n) \in DOMAIN owners
<1>1. n \in DOMAIN Items => Items[n] \in Nat
  BY AccessAssumption
<1>2. QED
  BY <1>1 DEF ItemOrganization

\* A signed-in request that goes on, or is refused.
LEMMA SignedInGoes ==
    ASSUME AccessInv, NEW r \in Requests, UNCHANGED <<tables, early, missed, rewritten>>,
           requests[r].pc \in SignedIn \ {"promote"},
           NEW pc \in (SignedIn \ {"promote"}) \cup {"refused"},
           pc \in {"account", "newAccount"} => requests[r].route.op = "addUser",
           pc \in {"alsoItem", "alsoOrg"} => requests[r].route.op = "useCollection",
           pc = "grantCon" => Row("con", requests[r].route.id),
           NEW org \in Nat,
           \/ Go(r, pc)
           \/ requests' = [requests EXCEPT ![r].pc = pc, ![r].org = org]
    PROVE  AccessInv'
<1>1. requests \in [Requests -> Request] /\ requests[r] \in Request
  BY DEF AccessInv, TypeOK
<1>2. PICK to \in Nat : requests' = [requests EXCEPT ![r] =
                                        [requests[r] EXCEPT !.pc = pc, !.org = to]]
  <2>1. CASE Go(r, pc)
    <3>1. requests[r].org \in Nat
      BY <1>1 DEF Request
    <3>2. requests' = [requests EXCEPT ![r] =
                [requests[r] EXCEPT !.pc = pc, !.org = requests[r].org]]
      BY <1>1, <2>1 DEF Go, Request
    <3>3. QED
      BY <3>1, <3>2
  <2>2. CASE requests' = [requests EXCEPT ![r].pc = pc, ![r].org = org]
    BY <1>1, <2>2
  <2>3. QED
    BY <2>1, <2>2
<1>3. PICK req : req = [requests[r] EXCEPT !.pc = pc, !.org = to]
  OBVIOUS
<1>4. /\ req \in Request
      /\ req.pc = pc /\ req.who = requests[r].who /\ req.route = requests[r].route
  BY <1>1, <1>3 DEF Request, PCs, SignedIn
<1>5. Knows(req)
  <2>1. Knows(requests[r])
    BY DEF AccessInv
  <2>2. QED
    BY <1>4, <2>1 DEF Knows, SignedIn, Row
<1>6. QED
  BY <1>2, <1>3, <1>4, <1>5, ReadOnly

-----------------------------------------------------------------------------
(* Sign-in *)

LEMMA FirstLookups ==
    ASSUME NEW name \in Guards
    PROVE  GuardOf(name).first \in FirstReads
  BY DEF FirstReads, Guards, GuardOf, OrganizationReadGuard, OrganizationWriteGuard,
     OrganizationAdminGuard, ConventionReadGuard, ConventionWriteGuard,
     ConventionAdminGuard, CheckOutGuard, PrizeEntryGuard, ConventionTypeGuard, GameGuard,
     OrganizationPermissionsGuard, ConventionPermissionsGuard,
     ConventionCreatePermissionsGuard, CollectionWriteGuard, CopyGuard,
     CollectionReadGuard, AttendeeGuard, UserGuard, UserSelfGuard, SuperAdminGuard

LEMMA RouteTypes ==
    ASSUME AccessInv, NEW r \in Requests, requests[r].pc # "idle"
    PROVE  /\ requests[r].who \in People
           /\ requests[r].route \in AnyRoute
           /\ requests[r].route.op \in {"createGrant", "addUser"} =>
                  requests[r].route.whom \in People
  BY AccessAssumption DEF AccessInv, Knows, WellFormed

\* The state in which a request is once its user row has been read.
LEMMA AuthenticatedRequest ==
    ASSUME AccessInv, NEW r \in Requests, requests[r].pc # "idle",
           NEW super \in BOOLEAN, Authenticated(r, super)
    PROVE  \E req \in Request :
              /\ requests' = [requests EXCEPT ![r] = req]
              /\ req.pc \in SignedIn \ {"promote", "grantCon"}
              /\ req.who = requests[r].who /\ req.route = requests[r].route
              /\ req.pc \in {"account", "newAccount"} => req.route.op = "addUser"
              /\ req.pc \in {"alsoItem", "alsoOrg"} => req.route.op = "useCollection"
<1>1. requests \in [Requests -> Request] /\ requests[r] \in Request
  BY DEF AccessInv, TypeOK
<1>2. requests[r].route \in AnyRoute
  BY RouteTypes
<1>3. PICK pc, org : /\ pc = IF super /\ requests[r].route.guard \notin Unbypassed
                             THEN Handler(r)
                             ELSE GuardOf(requests[r].route.guard).first
                     /\ org = IF requests[r].route.org # 0 THEN requests[r].route.org
                              ELSE requests[r].route.id
  OBVIOUS
<1>4. /\ pc \in SignedIn \ {"promote", "grantCon"} /\ org \in Nat
      /\ pc \in {"account", "newAccount"} => requests[r].route.op = "addUser"
      /\ pc \in {"alsoItem", "alsoOrg"} => requests[r].route.op = "useCollection"
  <2>1. requests[r].route.guard \in Guards
    BY <1>2 DEF AnyRoute
  <2>2. GuardOf(requests[r].route.guard).first \in FirstReads
    BY <2>1, FirstLookups
  <2>3. org \in Nat
    BY <1>2, <1>3 DEF AnyRoute
  <2>4. QED
    BY <1>3, <2>2, <2>3 DEF Handler, SignedIn, FirstReads
<1>5. PICK req : req = [requests[r] EXCEPT !.super = super, !.pc = pc, !.org = org]
  OBVIOUS
<1>6. requests' = [requests EXCEPT ![r] = req]
  BY <1>1, <1>3, <1>5 DEF Authenticated, Request
<1>7. /\ req \in Request /\ req.pc = pc
      /\ req.who = requests[r].who /\ req.route = requests[r].route
  BY <1>1, <1>4, <1>5 DEF Request, PCs, SignedIn
<1>8. QED
  BY <1>4, <1>6, <1>7

LEMMA FindUserInv ==
    ASSUME AccessInv, NEW r \in Requests, FindUser(r)
    PROVE  AccessInv'
<1>1. /\ requests[r].pc = "find" /\ UNCHANGED <<tables, early, missed, rewritten>>
      /\ requests \in [Requests -> Request] /\ requests[r] \in Request
      /\ Knows(requests[r])
  BY DEF FindUser, Keep, AccessInv, TypeOK
<1>2. CASE Has(requests[r].who)
  <2>1. Authenticated(r, users[requests[r].who] = "superAdmin")
    BY <1>2 DEF FindUser
  <2>2. PICK req \in Request :
            /\ requests' = [requests EXCEPT ![r] = req]
            /\ req.pc \in SignedIn \ {"promote", "grantCon"}
            /\ req.who = requests[r].who /\ req.route = requests[r].route
            /\ req.pc \in {"account", "newAccount"} => req.route.op = "addUser"
            /\ req.pc \in {"alsoItem", "alsoOrg"} => req.route.op = "useCollection"
    BY <1>1, <2>1, AuthenticatedRequest
  <2>3. Knows(req)
    BY <1>1, <1>2, <2>2 DEF Knows, SignedIn
  <2>4. QED
    BY <1>1, <2>2, <2>3, ReadOnly
<1>3. CASE ~Has(requests[r].who)
  <2>1. PICK req : req = [requests[r] EXCEPT !.pc = "count"]
    OBVIOUS
  <2>2. /\ requests' = [requests EXCEPT ![r] = req]
        /\ req \in Request
        /\ req.pc = "count" /\ req.who = requests[r].who /\ req.route = requests[r].route
    BY <1>1, <1>3, <2>1 DEF FindUser, Go, Request, PCs
  <2>3. Knows(req)
    BY <1>1, <2>2 DEF Knows, SignedIn
  <2>4. QED
    BY <1>1, <2>2, <2>3, ReadOnly
<1>4. QED
  BY <1>2, <1>3

LEMMA CountUsersInv ==
    ASSUME AccessInv, NEW r \in Requests, CountUsers(r)
    PROVE  AccessInv'
<1>1. /\ requests[r].pc = "count" /\ UNCHANGED <<tables, early, missed, rewritten>>
      /\ requests \in [Requests -> Request] /\ requests[r] \in Request
      /\ Knows(requests[r])
  BY DEF CountUsers, Keep, AccessInv, TypeOK
<1>2. PICK empty \in BOOLEAN : empty = NoAccounts
  BY DEF NoAccounts
<1>3. PICK req : req = [requests[r] EXCEPT !.pc = "create", !.empty = empty]
  OBVIOUS
<1>4. /\ requests' = [requests EXCEPT ![r] = req]
      /\ req \in Request
      /\ req.pc = "create" /\ req.who = requests[r].who /\ req.route = requests[r].route
      /\ req.empty = empty
  BY <1>1, <1>2, <1>3 DEF CountUsers, Request, PCs
<1>5. Knows(req)
  BY <1>1, <1>2, <1>4 DEF Knows, SignedIn
<1>6. QED
  BY <1>1, <1>4, <1>5, ReadOnly

\* The rows that the tables refer to have their types.
LEMMA RowTypes ==
    ASSUME AccessInv
    PROVE  /\ \A g \in DOMAIN grants : grants[g] \in Grant /\ grants[g].user \in People
           /\ \A o \in DOMAIN owners : owners[o] \in People
           /\ \A c \in DOMAIN conventions : conventions[c] \in Nat
<1>1. owners \in Seq(People) /\ conventions \in Seq(Nat) /\ grants \in Seq(Grant)
  BY DEF AccessInv, TypeOK
<1>2. \A g \in DOMAIN grants : grants[g] \in Grant
  BY <1>1
<1>3. \A row \in Grant : row.user \in People
  BY DEF Grant
<1>4. QED
  BY <1>1, <1>2, <1>3

\* An account is created for a person who has none, outside of the promotion.
LEMMA NewAccount ==
    ASSUME AccessInv, NEW r \in Requests, UNCHANGED <<owners, conventions, grants, early, missed,
           rewritten>>,
           requests[r].pc # "promote", NEW p \in People, ~Has(p),
           users' = [users EXCEPT ![p] = "user"],
           NEW req \in Request, requests' = [requests EXCEPT ![r] = req], Knows(req)',
           ~NoAccounts \/ req.pc = "promote"
    PROVE  AccessInv'
<1>1. /\ users \in [People -> {"none", "user", "superAdmin"}]
      /\ requests \in [Requests -> Request]
      /\ Consistent(users, owners, conventions, grants)
      /\ early \subseteq People /\ missed \in BOOLEAN /\ rewritten \subseteq People
  BY DEF AccessInv, TypeOK
<1>2. /\ Upward
      /\ \A q \in People : Has(q) => users'[q] = users[q]
  BY <1>1 DEF Upward, RowsKept, SamePlace, Has
<1>3. Consistent(users', owners', conventions', grants')
  <2>1. \A g \in DOMAIN grants : grants[g].user \in People
    BY RowTypes
  <2>2. \A o \in DOMAIN owners : owners[o] \in People
    BY RowTypes
  <2>3. \A q \in People : users[q] # "none" => users'[q] # "none"
    BY <1>2 DEF Has
  <2>4. QED
    BY <1>1, <2>1, <2>2, <2>3 DEF Consistent
<1>4. /\ requests' \in [Requests -> Request]
      /\ requests'[r] = req
      /\ \A s \in Requests : s # r => requests'[s] = requests[s]
  BY <1>1
<1>5. BootstrapMissedOnlyByFailure'
  <2>1. CASE req.pc = "promote"
    BY <1>4, <2>1 DEF BootstrapMissedOnlyByFailure
  <2>2. CASE ~NoAccounts
    BY <1>2, <1>4, <2>2 DEF AccessInv, BootstrapMissedOnlyByFailure, Has
  <2>3. QED
    BY <2>1, <2>2
<1>6. \A q \in People : users'[q] = "superAdmin" => q \in early \cup rewritten'
  BY <1>1 DEF AccessInv, OnlyFounders
<1>7. Knows(requests[r])'
  BY <1>4 DEF Knows, NoAccounts, Has
<1>8. /\ owners' \in Seq(People) /\ conventions' \in Seq(Nat) /\ grants' \in Seq(Grant)
      /\ early' = early
  BY DEF AccessInv, TypeOK
<1>9. QED
  BY <1>2, <1>3, <1>4, <1>5, <1>6, <1>7, <1>8, OneRequest

LEMMA CreateUserInv ==
    ASSUME AccessInv, NEW r \in Requests, CreateUser(r)
    PROVE  AccessInv'
<1>1. /\ requests[r].pc = "create"
      /\ UNCHANGED <<owners, conventions, grants, early, missed, rewritten>>
      /\ requests \in [Requests -> Request] /\ requests[r] \in Request
      /\ Knows(requests[r])
      /\ requests[r].who \in People
  BY DEF CreateUser, Keep, AccessInv, TypeOK, Knows
<1>2. CASE Has(requests[r].who)
  <2>1. UNCHANGED <<tables, early, missed, rewritten>> /\ requests' = [requests EXCEPT ![r] = Idle]
    BY <1>1, <1>2 DEF CreateUser, Answer, tables
  <2>2. QED
    BY <1>1, <2>1, IdleKnows, ReadOnly
<1>3. CASE ~Has(requests[r].who) /\ requests[r].empty
  <2>1. PICK req : req = [requests[r] EXCEPT !.pc = "promote"]
    OBVIOUS
  <2>2. /\ requests' = [requests EXCEPT ![r] = req]
        /\ users' = [users EXCEPT ![requests[r].who] = "user"]
        /\ req \in Request
        /\ req.pc = "promote" /\ req.who = requests[r].who /\ req.route = requests[r].route
    BY <1>1, <1>3, <2>1 DEF CreateUser, Go, Request, PCs
  <2>3. Knows(req)'
    BY <1>1, <1>3, <2>2 DEF Knows, SignedIn, Has, AccessInv, TypeOK
  <2>4. QED
    BY <1>1, <1>3, <2>2, <2>3, NewAccount
<1>4. CASE ~Has(requests[r].who) /\ ~requests[r].empty
  <2>1. Authenticated(r, FALSE) /\ users' = [users EXCEPT ![requests[r].who] = "user"]
    BY <1>4 DEF CreateUser
  <2>2. PICK req \in Request :
            /\ requests' = [requests EXCEPT ![r] = req]
            /\ req.pc \in SignedIn \ {"promote", "grantCon"}
            /\ req.who = requests[r].who /\ req.route = requests[r].route
            /\ req.pc \in {"account", "newAccount"} => req.route.op = "addUser"
            /\ req.pc \in {"alsoItem", "alsoOrg"} => req.route.op = "useCollection"
    BY <1>1, <2>1, AuthenticatedRequest
  <2>3. Knows(req)'
    BY <1>1, <2>1, <2>2 DEF Knows, SignedIn, Has, AccessInv, TypeOK
  <2>4. ~NoAccounts
    BY <1>1, <1>4 DEF Knows
  <2>5. QED
    BY <1>1, <1>4, <2>1, <2>2, <2>3, <2>4, NewAccount
<1>5. QED
  BY <1>2, <1>3, <1>4

LEMMA PromoteInv ==
    ASSUME AccessInv, NEW r \in Requests, Promote(r)
    PROVE  AccessInv'
<1>1. /\ requests[r].pc = "promote"
      /\ UNCHANGED <<owners, conventions, grants, early, missed, rewritten>>
      /\ requests \in [Requests -> Request]
      /\ users \in [People -> {"none", "user", "superAdmin"}]
      /\ early \subseteq People /\ missed \in BOOLEAN /\ rewritten \subseteq People
      /\ Knows(requests[r])
      /\ Consistent(users, owners, conventions, grants)
  BY DEF Promote, Keep, AccessInv, TypeOK
<1>2. PICK p \in People : p = requests[r].who
  BY <1>1 DEF Knows
<1>3. /\ users' = [users EXCEPT ![p] = "superAdmin"]
      /\ Authenticated(r, TRUE)
  BY <1>2 DEF Promote
<1>4. PICK req \in Request :
          /\ requests' = [requests EXCEPT ![r] = req]
          /\ req.pc \in SignedIn \ {"promote", "grantCon"}
          /\ req.who = p /\ req.route = requests[r].route
          /\ req.pc \in {"account", "newAccount"} => req.route.op = "addUser"
          /\ req.pc \in {"alsoItem", "alsoOrg"} => req.route.op = "useCollection"
  BY <1>1, <1>2, <1>3, AuthenticatedRequest
<1>5. /\ Upward
      /\ \A q \in People : users[q] # "none" => users'[q] # "none"
  BY <1>1, <1>3 DEF Upward, RowsKept, SamePlace, Has
<1>6. Consistent(users', owners', conventions', grants')
  <2>1. /\ \A g \in DOMAIN grants : grants[g].user \in People
        /\ \A o \in DOMAIN owners : owners[o] \in People
    BY RowTypes
  <2>2. QED
    BY <1>1, <1>5, <2>1 DEF Consistent
<1>7. /\ requests' \in [Requests -> Request]
      /\ requests'[r] = req
      /\ \A s \in Requests : s # r => requests'[s] = requests[s]
  BY <1>1, <1>4
<1>8. Knows(requests[r])'
  BY <1>1, <1>2, <1>3, <1>4, <1>7 DEF Knows, SignedIn, Has
<1>9. BootstrapMissedOnlyByFailure'
  BY <1>1, <1>3 DEF BootstrapMissedOnlyByFailure
<1>10. \A q \in People : users'[q] = "superAdmin" => q \in early \cup rewritten'
  BY <1>1, <1>2, <1>3 DEF AccessInv, OnlyFounders, Knows
<1>11. owners' \in Seq(People) /\ conventions' \in Seq(Nat) /\ grants' \in Seq(Grant)
  BY <1>1 DEF AccessInv, TypeOK
<1>12. QED
  BY <1>1, <1>5, <1>6, <1>7, <1>8, <1>9, <1>10, <1>11, OneRequest

LEMMA ReceiveInv ==
    ASSUME AccessInv, NEW r \in Requests, Receive(r)
    PROVE  AccessInv'
<1>1. /\ requests[r].pc # "promote" /\ UNCHANGED <<tables, missed, rewritten>>
      /\ requests \in [Requests -> Request]
  BY DEF Receive, AccessInv, TypeOK
<1>2. PICK p \in People, route \in Routes :
          /\ requests' = [requests EXCEPT ![r] =
                              [Idle EXCEPT !.pc = "find", !.who = p, !.route = route]]
          /\ early' = early \cup (IF NoAccounts THEN {p} ELSE {})
  BY DEF Receive
<1>3. PICK req : req = [Idle EXCEPT !.pc = "find", !.who = p, !.route = route]
  OBVIOUS
<1>4. req \in Request /\ req.pc = "find" /\ req.who = p /\ req.route = route
  BY <1>3 DEF Idle, Request, PCs
<1>5. /\ requests' \in [Requests -> Request]
      /\ requests'[r] = req
      /\ \A s \in Requests : s # r => requests'[s] = requests[s]
  BY <1>1, <1>2, <1>3, <1>4
<1>6. /\ early \subseteq early' /\ early' \subseteq People
      /\ NoAccounts => p \in early'
  BY <1>2 DEF AccessInv, TypeOK
<1>7. \A s \in Requests : Knows(requests[s])'
  <2> SUFFICES ASSUME NEW s \in Requests PROVE Knows(requests[s])'
    OBVIOUS
  <2>1. CASE s = r
    BY <1>1, <1>4, <1>5, <1>6, <2>1 DEF Knows, SignedIn, NoAccounts, Has, tables
  <2>2. CASE s # r
    BY <1>1, <1>5, <1>6, <2>2 DEF AccessInv, Knows, SignedIn, NoAccounts, Has, tables
  <2>3. QED
    BY <2>1, <2>2
<1>8. TypeOK'
  BY <1>1, <1>5, <1>6, <1>7 DEF AccessInv, TypeOK, Knows, SignedIn, tables
<1>9. OnlyFounders' /\ BootstrapMissedOnlyByFailure'
  BY <1>1, <1>5, <1>6
     DEF AccessInv, OnlyFounders, BootstrapMissedOnlyByFailure, NoAccounts, Has, tables
<1>10. QED
  BY <1>7, <1>8, <1>9 DEF AccessInv

-----------------------------------------------------------------------------
(* Guards *)

LEMMA GuardInv ==
    ASSUME AccessInv, NEW r \in Requests, Guard(r)
    PROVE  AccessInv'
<1> USE DEF SignedIn
<1>1. UNCHANGED <<tables, early, missed, rewritten>>
  BY DEF Guard, CheckSuper, ReadOrganizationGrant, ReadConventionGrant, ReadGrantConvention,
     ReadItem, CheckSelf,
     ReadCollection, ReadConventions, ReadAttendee,
     ReadConvention, ReadOrganization, ReadOwnGrant, ReadAlsoItem, ReadAlsoOrganization, Keep
<1>2. ASSUME NEW pc \in {"org", "conventions", "alsoOrg"}, NEW n,
             pc = "alsoOrg" => requests[r].route.op = "useCollection",
             requests[r].pc \in SignedIn \ {"promote"},
             requests' = [requests EXCEPT ![r].pc = pc, ![r].org = ItemOrganization(n)]
      PROVE  AccessInv'
  <2>1. ItemOrganization(n) \in Nat
    BY ItemOrganizationIs
  <2>2. QED
    BY <1>1, <1>2, <2>1, SignedInGoes
<1>3. CASE CheckSuper(r)
  BY <1>1, <1>3, SignedInGoes DEF CheckSuper, Refuse
<1>4. CASE ReadOrganizationGrant(r)
  <2>1. CASE Refuse(r)
    BY <1>1, <1>4, <2>1, SignedInGoes DEF ReadOrganizationGrant, Refuse
  <2>2. CASE ~Refuse(r)
    <3>1. PICK g : g = requests[r].route.id
      OBVIOUS
    <3>2. g \in DOMAIN grants /\ requests' = [requests EXCEPT ![r].pc = "org", ![r].org = grants[g].of]
      BY <1>4, <2>2, <3>1 DEF ReadOrganizationGrant, Row
    <3>3. grants[g].of \in Nat
      BY <3>2, RowTypes DEF Grant
    <3>4. QED
      BY <1>1, <1>4, <3>2, <3>3, SignedInGoes DEF ReadOrganizationGrant
  <2>3. QED
    BY <2>1, <2>2
<1>5. CASE ReadConventionGrant(r)
  BY <1>1, <1>5, SignedInGoes DEF ReadConventionGrant, Refuse
<1>6. CASE ReadGrantConvention(r)
  <2>1. PICK g : g = requests[r].route.id
    OBVIOUS
  <2>2. /\ g \in DOMAIN grants /\ grants[g].table = "con" /\ requests[r].pc = "grantCon"
        /\ requests' = [requests EXCEPT ![r].pc = "org", ![r].org = conventions[grants[g].of]]
    BY <1>6, <2>1 DEF ReadGrantConvention, AccessInv, Knows
  <2>3. grants[g].of \in DOMAIN conventions
    BY <2>2 DEF AccessInv, TypeOK, Consistent, Parents
  <2>4. conventions[grants[g].of] \in Nat
    BY <2>3, RowTypes
  <2>5. QED
    BY <1>1, <2>2, <2>4, SignedInGoes
<1>7. ASSUME Passed(r) \/ Refuse(r), requests[r].pc \in SignedIn \ {"promote"}
      PROVE  AccessInv'
  <2>1. \/ Go(r, "ownGrant") \/ Go(r, "act") \/ Go(r, "refused")
        \/ Go(r, "account") /\ requests[r].route.op = "addUser"
        \/ Go(r, "alsoItem") /\ requests[r].route.op = "useCollection"
    BY <1>7 DEF Passed, Refuse, Handler
  <2>2. QED
    BY <1>1, <1>7, <2>1, SignedInGoes
<1>8. CASE ReadItem(r) \/ ReadCollection(r) \/ ReadAlsoItem(r)
  <2>1. PICK n : n = requests[r].route.id
    OBVIOUS
  <2>2. /\ requests[r].pc \in SignedIn \ {"promote"}
        /\ \/ Passed(r) \/ Refuse(r) \/ Go(r, "act")
           \/ requests' = [requests EXCEPT ![r].pc = "org", ![r].org = ItemOrganization(n)]
           \/ requests' = [requests EXCEPT ![r].pc = "conventions",
                                           ![r].org = ItemOrganization(n)]
           \/ /\ requests' = [requests EXCEPT ![r].pc = "alsoOrg", ![r].org = ItemOrganization(n)]
              /\ requests[r].pc = "alsoItem"
    BY <1>8, <2>1 DEF ReadItem, ReadCollection, ReadAlsoItem
  <2>3. requests[r].pc = "alsoItem" => requests[r].route.op = "useCollection"
    BY DEF AccessInv, Knows
  <2>4. CASE Go(r, "act")
    BY <1>1, <2>2, <2>4, SignedInGoes
  <2>5. CASE Passed(r) \/ Refuse(r)
    BY <1>7, <2>2, <2>5
  <2>6. QED
    BY <1>2, <2>2, <2>4, <2>5, <2>3
<1>9. CASE ReadAlsoOrganization(r)
  <2>1. Go(r, "act") \/ Go(r, "refused")
    BY <1>9 DEF ReadAlsoOrganization, Refuse
  <2>2. QED
    BY <1>1, <1>9, <2>1, SignedInGoes DEF ReadAlsoOrganization
<1>10. CASE CheckSelf(r) \/ ReadConventions(r) \/ ReadAttendee(r)
  <2>1. requests[r].pc \in SignedIn \ {"promote"}
    BY <1>10 DEF CheckSelf, ReadConventions, ReadAttendee
  <2>2. Passed(r) \/ Refuse(r) \/ Go(r, "org") \/ Go(r, "con")
    BY <1>10 DEF CheckSelf, ReadConventions, ReadAttendee
  <2>3. CASE Go(r, "org") \/ Go(r, "con")
    BY <1>1, <2>1, <2>3, SignedInGoes
  <2>4. QED
    BY <1>7, <2>1, <2>2, <2>3
<1>11. CASE ReadConvention(r)
  <2>1. CASE Passed(r) \/ Refuse(r)
    BY <1>7, <1>11, <2>1 DEF ReadConvention
  <2>2. CASE ~Passed(r) /\ ~Refuse(r)
    <3>1. PICK c : c = requests[r].route.id
      OBVIOUS
    <3>2. PICK org : org = IF c \in DOMAIN conventions THEN conventions[c] ELSE 0
      OBVIOUS
    <3>3. requests' = [requests EXCEPT ![r].pc = "org", ![r].org = org]
      BY <1>11, <2>2, <3>1, <3>2 DEF ReadConvention
    <3>4. org \in Nat
      BY <3>2, RowTypes
    <3>5. QED
      BY <1>1, <1>11, <3>3, <3>4, SignedInGoes DEF ReadConvention
  <2>3. QED
    BY <2>1, <2>2
<1>12. CASE ReadOrganization(r)
  BY <1>7, <1>12 DEF ReadOrganization
<1>13. CASE ReadOwnGrant(r)
  <2>1. Go(r, "act") \/ Go(r, "refused")
    BY <1>13 DEF ReadOwnGrant, Refuse
  <2>2. QED
    BY <1>1, <1>13, <2>1, SignedInGoes DEF ReadOwnGrant
<1>14. QED
  BY <1>3, <1>4, <1>5, <1>10, <1>11, <1>12, <1>13, <1>6, <1>8, <1>9 DEF Guard

LEMMA RewritingsKeep ==
    ASSUME NEW row \in Grant, NEW new \in Rewritings(row)
    PROVE  new \in Grant /\ SamePlace(new, row) /\ (new.live => row.live)
  BY DEF Rewritings, Grant, SamePlace

LEMMA RowsStay ==
    ASSUME AccessInv, NEW r \in Requests,
           Receive(r) \/ Authenticate(r) \/ Guard(r) \/ Handle(r) \/ Fail(r)
    PROVE  RowsKept
<1>1. grants \in Seq(Grant) /\ \A g \in DOMAIN grants : grants[g] \in Grant
  BY RowTypes DEF AccessInv, TypeOK
<1>2. CASE grants' = grants
  BY <1>2 DEF RowsKept, SamePlace
<1>3. CASE CreateGrant(r)
  <2>1. PICK row : grants' = Append(grants, row) \/ grants' = grants
    BY <1>3 DEF CreateGrant
  <2>2. QED
    BY <1>1, <2>1 DEF RowsKept, SamePlace
<1>4. CASE UpdateGrant(r)
  BY <1>1, <1>4 DEF UpdateGrant, Row, Grant, RowsKept, SamePlace
<1>5. CASE DeleteGrant(r)
  BY <1>1, <1>5 DEF DeleteGrant, Row, Grant, RowsKept, SamePlace
<1>6. CASE UpdateAttendee(r)
  <2>1. CASE grants' # grants
    <3>1. PICK g \in DOMAIN grants : \E row \in Rewritings(grants[g]) :
                                        grants' = [grants EXCEPT ![g] = row]
      BY <1>6, <2>1 DEF UpdateAttendee
    <3>2. \A row \in Rewritings(grants[g]) : SamePlace(row, grants[g])
      BY <1>1, RewritingsKeep
    <3>3. QED
      BY <1>1, <3>1, <3>2 DEF RowsKept, SamePlace
  <2>2. QED
    BY <1>2, <2>1
<1>7. QED
  BY <1>2, <1>3, <1>4, <1>5, <1>6
     DEF Receive, Authenticate, FindUser, CountUsers, CreateUser, Promote, Guard, CheckSuper,
         ReadOrganizationGrant, ReadConventionGrant, ReadGrantConvention,
     ReadItem, CheckSelf,
         ReadCollection, ReadConventions, ReadAttendee, ReadConvention,
         ReadOrganization, ReadOwnGrant, ReadAlsoItem, ReadAlsoOrganization, Handle, UseRoute,
         UpdateAttendee, CreateOrganization,
         CreateConvention, UpdateConvention, ReadAccount, CreateAccount, Fail, tables

-----------------------------------------------------------------------------
(* Handlers *)

\* A handler that writes one of the tables other than the users' and answers.
LEMMA Answered ==
    ASSUME AccessInv, NEW r \in Requests, requests[r].pc # "promote",
           UNCHANGED <<users, early, missed, rewritten>>, Answer(r), RowsKept,
           owners' \in Seq(People), conventions' \in Seq(Nat), grants' \in Seq(Grant),
           Consistent(users, owners', conventions', grants')
    PROVE  AccessInv'
<1>1. Upward
  BY DEF AccessInv, TypeOK, Upward, Has
<1>2. /\ requests' \in [Requests -> Request]
      /\ requests'[r] = Idle
      /\ \A s \in Requests : s # r => requests'[s] = requests[s]
  BY IdleKnows DEF AccessInv, TypeOK, Answer
<1>3. Knows(requests[r])'
  BY <1>2 DEF Knows, SignedIn, Idle
<1>4. BootstrapMissedOnlyByFailure'
  BY <1>2 DEF AccessInv, BootstrapMissedOnlyByFailure, NoAccounts, Has
<1>5. \A p \in People : users'[p] = "superAdmin" => p \in early \cup rewritten'
  BY DEF AccessInv, OnlyFounders
<1>6. QED
  BY <1>1, <1>2, <1>3, <1>4, <1>5, OneRequest

LEMMA CreateOrganizationInv ==
    ASSUME AccessInv, NEW r \in Requests, CreateOrganization(r)
    PROVE  AccessInv'
<1>1. requests[r].pc = "act" /\ requests[r].who \in People /\ Has(requests[r].who)
  BY DEF CreateOrganization, Acts, AccessInv, Knows, SignedIn
<1>2. /\ owners' = Append(owners, requests[r].who)
      /\ UNCHANGED <<users, conventions, grants, early, missed, rewritten>> /\ Answer(r) /\ RowsKept
  BY RowsStay DEF CreateOrganization, Keep, Handle
<1>3. /\ owners \in Seq(People) /\ conventions \in Seq(Nat) /\ grants \in Seq(Grant)
      /\ Consistent(users, owners, conventions, grants)
  BY DEF AccessInv, TypeOK
<1>4. /\ owners' \in Seq(People)
      /\ DOMAIN owners \subseteq DOMAIN owners'
      /\ \A o \in DOMAIN owners' : owners'[o] = requests[r].who \/ (o \in DOMAIN owners /\ owners'[o] = owners[o])
  BY <1>1, <1>2, <1>3
<1>5. Consistent(users, owners', conventions', grants')
  BY <1>1, <1>2, <1>3, <1>4 DEF Consistent, Parents, Has
<1>6. QED
  BY <1>1, <1>2, <1>3, <1>4, <1>5, Answered

LEMMA CreateConventionInv ==
    ASSUME AccessInv, NEW r \in Requests, CreateConvention(r)
    PROVE  AccessInv'
<1>1. requests[r].pc = "act"
  BY DEF CreateConvention, Acts
<1>2. UNCHANGED <<users, owners, grants, early, missed, rewritten>> /\ Answer(r) /\ RowsKept
  BY RowsStay DEF CreateConvention, Keep, Handle
<1>3. /\ owners \in Seq(People) /\ conventions \in Seq(Nat) /\ grants \in Seq(Grant)
      /\ Consistent(users, owners, conventions, grants)
  BY DEF AccessInv, TypeOK
<1>4. PICK o : o = requests[r].route.id
  OBVIOUS
<1>5. /\ conventions' \in Seq(Nat)
      /\ DOMAIN conventions \subseteq DOMAIN conventions'
      /\ \A c \in DOMAIN conventions' :
            \/ conventions'[c] \in DOMAIN owners
            \/ c \in DOMAIN conventions /\ conventions'[c] = conventions[c]
  <2>1. CASE o \in DOMAIN owners
    <3>1. conventions' = Append(conventions, o) /\ o \in Nat
      BY <1>3, <1>4, <2>1 DEF CreateConvention
    <3>2. QED
      BY <1>3, <2>1, <3>1
  <2>2. CASE o \notin DOMAIN owners
    BY <1>3, <1>4, <2>2 DEF CreateConvention
  <2>3. QED
    BY <2>1, <2>2
<1>6. Consistent(users, owners', conventions', grants')
  BY <1>2, <1>3, <1>5 DEF Consistent, Parents
<1>7. QED
  BY <1>1, <1>2, <1>3, <1>5, <1>6, Answered

LEMMA UpdateConventionInv ==
    ASSUME AccessInv, NEW r \in Requests, UpdateConvention(r)
    PROVE  AccessInv'
<1>1. requests[r].pc = "act"
  BY DEF UpdateConvention, Acts
<1>2. UNCHANGED <<users, owners, grants, early, missed, rewritten>> /\ Answer(r) /\ RowsKept
  BY RowsStay DEF UpdateConvention, Keep, Handle
<1>3. /\ owners \in Seq(People) /\ conventions \in Seq(Nat) /\ grants \in Seq(Grant)
      /\ Consistent(users, owners, conventions, grants)
  BY DEF AccessInv, TypeOK
<1>4. /\ conventions' \in Seq(Nat)
      /\ DOMAIN conventions' = DOMAIN conventions
      /\ \A c \in DOMAIN conventions' :
            conventions'[c] \in DOMAIN owners \/ conventions'[c] = conventions[c]
  BY <1>3 DEF UpdateConvention
<1>5. Consistent(users, owners', conventions', grants')
  BY <1>2, <1>3, <1>4 DEF Consistent, Parents
<1>6. QED
  BY <1>1, <1>2, <1>3, <1>4, <1>5, Answered

LEMMA CreateAccountInv ==
    ASSUME AccessInv, NEW r \in Requests, CreateAccount(r)
    PROVE  AccessInv'
<1>1. /\ requests[r].pc = "newAccount"
      /\ UNCHANGED <<owners, conventions, grants, early, missed, rewritten>>
      /\ requests \in [Requests -> Request] /\ requests[r] \in Request
      /\ users \in [People -> {"none", "user", "superAdmin"}]
      /\ Knows(requests[r])
  BY DEF CreateAccount, Keep, AccessInv, TypeOK
<1>2. PICK p \in People : p = requests[r].route.whom
  BY <1>1, RouteTypes DEF Knows
<1>3. CASE Has(p)
  <2>1. UNCHANGED <<tables, early, missed, rewritten>> /\ requests' = [requests EXCEPT ![r] = Idle]
    BY <1>1, <1>2, <1>3 DEF CreateAccount, Answer, tables
  <2>2. QED
    BY <1>1, <2>1, IdleKnows, ReadOnly
<1>4. CASE ~Has(p)
  <2>1. PICK req : req = [requests[r] EXCEPT !.pc = "act"]
    OBVIOUS
  <2>2. /\ requests' = [requests EXCEPT ![r] = req]
        /\ users' = [users EXCEPT ![p] = "user"]
        /\ req \in Request
        /\ req.pc = "act" /\ req.who = requests[r].who /\ req.route = requests[r].route
    BY <1>1, <1>2, <1>4, <2>1 DEF CreateAccount, Go, Request, PCs
  <2>3. req.who \in People /\ Has(req.who) /\ req.route \in Routes
    BY <1>1, <2>2 DEF Knows, SignedIn
  <2>4. Knows(req)'
    BY <1>1, <2>2, <2>3 DEF Knows, SignedIn, Has
  <2>5. ~NoAccounts
    BY <2>3 DEF NoAccounts
  <2>6. QED
    BY <1>1, <1>4, <2>2, <2>4, <2>5, NewAccount
<1>5. QED
  BY <1>3, <1>4

LEMMA CreateGrantInv ==
    ASSUME AccessInv, NEW r \in Requests, CreateGrant(r)
    PROVE  AccessInv'
<1>1. requests[r].pc = "act" /\ requests[r].route.op \in {"createGrant", "addUser"}
  BY DEF CreateGrant, Acts
<1>2. UNCHANGED <<users, owners, conventions, early, missed, rewritten>> /\ Answer(r) /\ RowsKept
  BY RowsStay DEF CreateGrant, Keep, Handle
<1>3. /\ owners \in Seq(People) /\ conventions \in Seq(Nat) /\ grants \in Seq(Grant)
      /\ Consistent(users, owners, conventions, grants)
  BY DEF AccessInv, TypeOK
<1>4. PICK route \in AnyRoute : route = requests[r].route /\ route.whom \in People
  BY <1>1, RouteTypes
<1>5. PICK row : row = [table |-> route.table, user |-> route.whom, of |-> route.id,
                        role |-> route.role, live |-> TRUE]
  OBVIOUS
<1>6. CASE grants' = grants
  BY <1>1, <1>2, <1>3, <1>6, Answered
<1>7. CASE grants' # grants
  <2>1. /\ grants' = Append(grants, row)
        /\ Has(route.whom)
        /\ route.id \in Parents(route.table, owners, conventions)
        /\ RolesIn(route.table, route.id, route.whom) = {}
    BY <1>4, <1>5, <1>7 DEF CreateGrant
  <2>2. route.id \in Nat \ {0}
    BY <1>3, <2>1 DEF Parents
  <2>3. row \in Grant
    BY <1>4, <1>5, <2>2 DEF Grant, AnyRoute
  <2>4. PICK n \in Nat : /\ DOMAIN grants = 1 .. n /\ DOMAIN grants' = 1 .. (n + 1)
                         /\ grants'[n + 1] = row
                         /\ \A g \in 1 .. n : grants'[g] = grants[g]
                         /\ grants' \in Seq(Grant)
    <3>1. grants \in Seq(Grant) /\ grants' = Append(grants, row) /\ row \in Grant
      BY <1>3, <2>1, <2>3
    <3>2. PICK n \in Nat : n = Len(grants)
      BY <3>1
    <3>3. DOMAIN grants = 1 .. n /\ DOMAIN grants' = 1 .. (n + 1)
      BY <3>1, <3>2
    <3>4. grants'[n + 1] = row /\ \A g \in 1 .. n : grants'[g] = grants[g]
      BY <3>1, <3>2
    <3>5. grants' \in Seq(Grant)
      BY <3>1
    <3>6. QED
      BY <3>2, <3>3, <3>4, <3>5
  <2>5. \A g \in 1 .. n : ~(grants[g].live /\ SamePlace(grants[g], row))
    <3> SUFFICES ASSUME NEW g \in 1 .. n, grants[g].live, SamePlace(grants[g], row)
                 PROVE  FALSE
      OBVIOUS
    <3>1. grants[g].role \in RolesIn(route.table, route.id, route.whom)
      BY <1>5, <2>4 DEF RolesIn, SamePlace
    <3>2. QED
      BY <2>1, <3>1
  <2>6. \A g \in 1 .. (n + 1) :
          users[grants'[g].user] # "none" /\ grants'[g].of \in Parents(grants'[g].table, owners, conventions)
    <3> SUFFICES ASSUME NEW g \in 1 .. (n + 1)
                 PROVE  /\ users[grants'[g].user] # "none"
                        /\ grants'[g].of \in Parents(grants'[g].table, owners, conventions)
      OBVIOUS
    <3>1. CASE g = n + 1
      BY <1>5, <2>1, <2>4, <3>1 DEF Has
    <3>2. CASE g \in 1 .. n
      BY <1>3, <2>4, <3>2 DEF Consistent
    <3>3. QED
      BY <2>4, <3>1, <3>2
  <2>7. ASSUME NEW g \in 1 .. (n + 1), NEW h \in 1 .. (n + 1),
               grants'[g].live, grants'[h].live, SamePlace(grants'[g], grants'[h])
        PROVE  g = h
    <3>1. CASE g \in 1 .. n /\ h \in 1 .. n
      BY <1>3, <2>4, <2>7, <3>1 DEF Consistent
    <3>2. CASE g = n + 1 /\ h \in 1 .. n
      BY <2>4, <2>5, <2>7, <3>2 DEF SamePlace
    <3>3. CASE g \in 1 .. n /\ h = n + 1
      BY <2>4, <2>5, <2>7, <3>3
    <3>4. QED
      BY <2>4, <3>1, <3>2, <3>3
  <2>8. Consistent(users, owners', conventions', grants')
    BY <1>2, <1>3, <2>4, <2>6, <2>7 DEF Consistent
  <2>9. QED
    BY <1>1, <1>2, <1>3, <2>4, <2>8, Answered
<1>8. QED
  BY <1>6, <1>7

\* Writing a row over keeps the keys, if the row stays in its place and is not
\* revived.
LEMMA OverwriteInv ==
    ASSUME AccessInv, NEW r \in Requests, requests[r].pc # "promote",
           UNCHANGED <<users, owners, conventions, early, missed, rewritten>>, Answer(r),
           NEW g \in DOMAIN grants, NEW row \in Grant, SamePlace(row, grants[g]),
           row.live => grants[g].live,
           grants' = [grants EXCEPT ![g] = row]
    PROVE  AccessInv'
<1>1. /\ owners \in Seq(People) /\ conventions \in Seq(Nat) /\ grants \in Seq(Grant)
      /\ Consistent(users, owners, conventions, grants)
  BY DEF AccessInv, TypeOK
<1>2. /\ grants' \in Seq(Grant) /\ DOMAIN grants' = DOMAIN grants
      /\ \A h \in DOMAIN grants : grants'[h] = IF h = g THEN row ELSE grants[h]
  BY <1>1
<1>3. \A h \in DOMAIN grants : SamePlace(grants'[h], grants[h]) /\ (grants'[h].live => grants[h].live)
  BY <1>2 DEF SamePlace
<1>4. Consistent(users, owners', conventions', grants')
  BY <1>1, <1>2, <1>3 DEF Consistent, SamePlace
<1>5. RowsKept
  BY <1>2, <1>3 DEF RowsKept, SamePlace
<1>6. QED
  BY <1>1, <1>2, <1>4, <1>5, Answered

LEMMA UpdateGrantInv ==
    ASSUME AccessInv, NEW r \in Requests, UpdateGrant(r)
    PROVE  AccessInv'
<1>1. requests[r].pc = "act"
  BY DEF UpdateGrant, Acts
<1>2. UNCHANGED <<users, owners, conventions, early, missed, rewritten>> /\ Answer(r) /\ RowsKept
  BY RowsStay DEF UpdateGrant, Keep, Handle
<1>3. CASE grants' = grants
  BY <1>1, <1>2, <1>3, Answered DEF AccessInv, TypeOK
<1>4. CASE grants' # grants
  <2>1. PICK g, role : g = requests[r].route.id /\ role = requests[r].route.role
    OBVIOUS
  <2>2. g \in DOMAIN grants /\ grants' = [grants EXCEPT ![g].role = role]
    BY <1>4, <2>1 DEF UpdateGrant, Row
  <2>3. role \in Roles
    BY <1>1, <2>1, RouteTypes DEF AnyRoute
  <2>4. PICK row : row = [grants[g] EXCEPT !.role = role]
    OBVIOUS
  <2>5. grants[g] \in Grant
    BY <2>2, RowTypes
  <2>6. row \in Grant /\ SamePlace(row, grants[g]) /\ row.live = grants[g].live
    BY <2>3, <2>4, <2>5 DEF Grant, SamePlace
  <2>7. grants' = [grants EXCEPT ![g] = row]
    BY <2>2, <2>4, <2>5 DEF Grant
  <2>8. QED
    BY <1>1, <1>2, <2>2, <2>6, <2>7, OverwriteInv
<1>5. QED
  BY <1>3, <1>4

LEMMA DeleteGrantInv ==
    ASSUME AccessInv, NEW r \in Requests, DeleteGrant(r)
    PROVE  AccessInv'
<1>1. requests[r].pc = "act"
  BY DEF DeleteGrant, Acts
<1>2. UNCHANGED <<users, owners, conventions, early, missed, rewritten>> /\ Answer(r) /\ RowsKept
  BY RowsStay DEF DeleteGrant, Keep, Handle
<1>3. CASE grants' = grants
  BY <1>1, <1>2, <1>3, Answered DEF AccessInv, TypeOK
<1>4. CASE grants' # grants
  <2>1. PICK g : g = requests[r].route.id
    OBVIOUS
  <2>2. g \in DOMAIN grants /\ grants' = [grants EXCEPT ![g].live = FALSE]
    BY <1>4, <2>1 DEF DeleteGrant, Row
  <2>3. PICK row : row = [grants[g] EXCEPT !.live = FALSE]
    OBVIOUS
  <2>4. grants[g] \in Grant
    BY <2>2, RowTypes
  <2>5. row \in Grant /\ SamePlace(row, grants[g]) /\ ~row.live
    BY <2>3, <2>4 DEF Grant, SamePlace
  <2>6. grants' = [grants EXCEPT ![g] = row]
    BY <2>2, <2>3, <2>4 DEF Grant
  <2>7. QED
    BY <1>1, <1>2, <2>2, <2>5, <2>6, OverwriteInv
<1>5. QED
  BY <1>3, <1>4

LEMMA UpdateAttendeeInv ==
    ASSUME AccessInv, NEW r \in Requests, UpdateAttendee(r)
    PROVE  AccessInv'
<1>1. /\ requests[r].pc = "act" /\ Answer(r)
      /\ UNCHANGED <<owners, conventions, early, missed>>
  BY DEF UpdateAttendee, Acts
<1>2. CASE UNCHANGED <<users, grants, rewritten>>
  <2>1. UNCHANGED <<tables, early, missed, rewritten>> /\ requests' = [requests EXCEPT ![r] = Idle]
    BY <1>1, <1>2 DEF Answer, tables
  <2>2. QED
    BY <1>1, <2>1, IdleKnows, ReadOnly
<1>3. ASSUME NEW p \in People, NEW flag \in {"user", "superAdmin"}, Has(p),
             users' = [users EXCEPT ![p] = flag], rewritten' = rewritten \cup {p},
             UNCHANGED grants
      PROVE  AccessInv'
  <2>1. /\ users \in [People -> {"none", "user", "superAdmin"}]
        /\ Consistent(users, owners, conventions, grants)
        /\ early \subseteq People /\ missed \in BOOLEAN /\ rewritten \subseteq People
        /\ requests \in [Requests -> Request]
    BY DEF AccessInv, TypeOK
  <2>2. \A q \in People : users[q] # "none" => users'[q] # "none"
    BY <1>3, <2>1
  <2>3. Upward
    BY <1>1, <1>3, <2>1, <2>2 DEF Upward, RowsKept, SamePlace, Has
  <2>4. Consistent(users', owners', conventions', grants')
    BY <1>1, <1>3, <2>1, <2>2, RowTypes DEF Consistent
  <2>5. /\ requests' \in [Requests -> Request]
        /\ requests'[r] = Idle
        /\ \A s \in Requests : s # r => requests'[s] = requests[s]
    BY <1>1, <2>1, IdleKnows DEF Answer
  <2>6. Knows(requests[r])' /\ BootstrapMissedOnlyByFailure'
    BY <1>3, <2>5 DEF Knows, SignedIn, Idle, BootstrapMissedOnlyByFailure
  <2>7. \A q \in People : users'[q] = "superAdmin" => q \in early \cup rewritten'
    BY <1>3, <2>1 DEF AccessInv, OnlyFounders
  <2>8. owners' \in Seq(People) /\ conventions' \in Seq(Nat) /\ grants' \in Seq(Grant)
    BY <1>1, <1>3 DEF AccessInv, TypeOK
  <2>9. QED
    BY <1>1, <2>3, <2>4, <2>5, <2>6, <2>7, <2>8, OneRequest
<1>4. ASSUME NEW g \in DOMAIN grants, NEW row \in Rewritings(grants[g]),
             grants' = [grants EXCEPT ![g] = row], UNCHANGED <<users, rewritten>>
      PROVE  AccessInv'
  <2>1. grants[g] \in Grant
    BY RowTypes
  <2>2. row \in Grant /\ SamePlace(row, grants[g]) /\ (row.live => grants[g].live)
    BY <2>1, RewritingsKeep
  <2>3. QED
    BY <1>1, <1>4, <2>2, OverwriteInv
<1>5. QED
  BY <1>2, <1>3, <1>4 DEF UpdateAttendee

LEMMA HandleInv ==
    ASSUME AccessInv, NEW r \in Requests, Handle(r)
    PROVE  AccessInv'
<1>1. CASE UseRoute(r)
  <2>1. /\ UNCHANGED <<tables, early, missed, rewritten>> /\ requests[r].pc = "act"
        /\ requests' = [requests EXCEPT ![r] = Idle]
    BY <1>1 DEF UseRoute, Acts, Answer, Keep
  <2>2. QED
    BY <2>1, IdleKnows, ReadOnly
<1>2. CASE ReadAccount(r)
  <2>1. /\ UNCHANGED <<tables, early, missed, rewritten>> /\ requests[r].pc = "account"
        /\ Go(r, "act") \/ Go(r, "newAccount")
    BY <1>2 DEF ReadAccount, Keep
  <2>2. requests[r].route.op = "addUser"
    BY <2>1 DEF AccessInv, Knows
  <2>3. QED
    BY <2>1, <2>2, SignedInGoes DEF SignedIn
<1>3. QED
  BY <1>1, <1>2, CreateOrganizationInv, CreateConventionInv, UpdateConventionInv,
     CreateAccountInv, UpdateAttendeeInv, CreateGrantInv, UpdateGrantInv, DeleteGrantInv DEF Handle

LEMMA FailInv ==
    ASSUME AccessInv, NEW r \in Requests, Fail(r)
    PROVE  AccessInv'
<1>1. /\ UNCHANGED <<tables, early, rewritten>>
      /\ requests' = [requests EXCEPT ![r] = Idle]
      /\ missed' = (missed \/ requests[r].pc = "promote")
      /\ missed \in BOOLEAN
  BY DEF Fail, Answer, AccessInv, TypeOK
<1>2. CASE requests[r].pc # "promote"
  BY <1>1, <1>2, IdleKnows, ReadOnly DEF AccessInv, TypeOK
<1>3. CASE requests[r].pc = "promote"
  <2>1. missed' = TRUE
    BY <1>1, <1>3
  <2>2. Upward
    BY <1>1, <2>1 DEF AccessInv, TypeOK, Upward, RowsKept, SamePlace, tables, Has
  <2>3. /\ requests' \in [Requests -> Request]
        /\ requests'[r] = Idle
        /\ \A s \in Requests : s # r => requests'[s] = requests[s]
    BY <1>1, IdleKnows DEF AccessInv, TypeOK
  <2>4. Knows(requests[r])' /\ BootstrapMissedOnlyByFailure'
    BY <2>1, <2>3 DEF Knows, SignedIn, Idle, BootstrapMissedOnlyByFailure
  <2>5. /\ owners' \in Seq(People) /\ conventions' \in Seq(Nat) /\ grants' \in Seq(Grant)
        /\ Consistent(users', owners', conventions', grants')
        /\ \A p \in People : users'[p] = "superAdmin" => p \in early \cup rewritten'
    BY <1>1 DEF AccessInv, TypeOK, OnlyFounders, tables
  <2>6. QED
    BY <1>1, <2>2, <2>3, <2>4, <2>5, OneRequest
<1>4. QED
  BY <1>2, <1>3

-----------------------------------------------------------------------------
LEMMA InitInv == Init => AccessInv
<1> SUFFICES ASSUME Init PROVE AccessInv
  OBVIOUS
<1>1. PICK s \in Start : /\ users = s.users /\ owners = s.owners
                        /\ conventions = s.conventions /\ grants = s.grants
  BY AccessAssumption DEF Init
<1>2. /\ users \in [People -> {"none", "user", "superAdmin"}]
      /\ owners \in Seq(People) /\ conventions \in Seq(Nat) /\ grants \in Seq(Grant)
      /\ Consistent(users, owners, conventions, grants)
      /\ NoAccounts \/ \E p \in People : users[p] = "superAdmin"
  BY <1>1 DEF Start, NoAccounts, Has
<1>3. /\ requests = [r \in Requests |-> Idle] /\ missed = FALSE /\ rewritten = {}
      /\ early = {p \in People : users[p] = "superAdmin"}
  BY DEF Init
<1>4. \A r \in Requests : requests[r] = Idle /\ requests[r].pc = "idle"
  BY <1>3 DEF Idle
<1>5. TypeOK
  BY <1>2, <1>3, <1>4, IdleKnows DEF TypeOK
<1>6. QED
  BY <1>2, <1>3, <1>4, <1>5, IdleKnows
     DEF AccessInv, OnlyFounders, BootstrapMissedOnlyByFailure

LEMMA NextInv == AccessInv /\ [Next]_vars => AccessInv'
<1> SUFFICES ASSUME AccessInv, [Next]_vars PROVE AccessInv'
  OBVIOUS
<1>1. CASE UNCHANGED vars
  BY <1>1 DEF vars, tables, AccessInv, TypeOK, Knows, OnlyFounders,
     BootstrapMissedOnlyByFailure, NoAccounts, Has
<1>2. ASSUME NEW r \in Requests, Authenticate(r) PROVE AccessInv'
  BY <1>2, FindUserInv, CountUsersInv, CreateUserInv, PromoteInv DEF Authenticate
<1>3. ASSUME NEW r \in Requests,
             Receive(r) \/ Authenticate(r) \/ Guard(r) \/ Handle(r) \/ Fail(r)
      PROVE  AccessInv'
  BY <1>2, <1>3, ReceiveInv, GuardInv, HandleInv, FailInv
<1>4. QED
  BY <1>1, <1>3 DEF Next

\* The inductive invariant of the sign-in (JwtStrategy.validate) and of the
\* tables that the guards and permission routes share.
THEOREM AccessInvariance == Spec => []AccessInv
<1>1. Init => AccessInv
  BY InitInv
<1>2. AccessInv /\ [Next]_vars => AccessInv'
  BY NextInv
<1>3. QED
  BY <1>1, <1>2, PTL DEF Spec

\* The tables keep their foreign and unique keys, and no guard or handler runs
\* for somebody without an account (schema.prisma, createPermission).
THEOREM AccessTypeCorrectness == Spec => []TypeOK
<1>1. AccessInv => TypeOK
  BY DEF AccessInv
<1>2. QED
  BY <1>1, AccessInvariance, PTL

\* However many people sign in at the same time and whatever permissions are
\* made, a super admin is somebody who called before there was any account, or
\* whose flag an attendee's update has set.
THEOREM SuperAdminsAreFounders == Spec => []OnlyFounders
<1>1. AccessInv => OnlyFounders
  BY DEF AccessInv
<1>2. QED
  BY <1>1, AccessInvariance, PTL

\* 'would otherwise leave the system with no super admin': once there are
\* accounts there is one, or will be, or the call that makes one has failed, or
\* an attendee's update has set somebody's flag.
THEOREM Bootstrapped == Spec => []BootstrapMissedOnlyByFailure
<1>1. AccessInv => BootstrapMissedOnlyByFailure
  BY DEF AccessInv
<1>2. QED
  BY <1>1, AccessInvariance, PTL

-----------------------------------------------------------------------------
(* Nobody changes his own permissions.                                      *)

\* A request that will change a row was let pass by a super admin's flag or by
\* a self-update guard, and the row is still the same person's.
Protected(req) ==
    (req.pc = "act" /\ req.route.op \in {"updateGrant", "deleteGrant"} /\ ~req.super) =>
        req.route.id \in DOMAIN grants /\ grants[req.route.id].user # req.who

ProtectedInv == \A r \in Requests : Protected(requests[r])

\* What the steps say of their own request, without EXCEPT.
LEMMA StepOf ==
    ASSUME AccessInv, NEW r \in Requests
    PROVE  /\ \A pc : Go(r, pc) =>
                /\ requests'[r].pc = pc
                /\ requests'[r].who = requests[r].who
                /\ requests'[r].route = requests[r].route
                /\ requests'[r].super = requests[r].super
                /\ requests'[r].org = requests[r].org
           /\ \A super \in BOOLEAN : Authenticated(r, super) =>
                /\ requests'[r].super = super
                /\ ~super => requests'[r].pc = GuardOf(requests[r].route.guard).first
           /\ \A pc, org : requests' = [requests EXCEPT ![r].pc = pc, ![r].org = org] =>
                /\ requests'[r].pc = pc
                /\ requests'[r].route = requests[r].route
                /\ requests'[r].super = requests[r].super
                /\ requests'[r].org = org
           /\ Answer(r) => requests'[r].pc = "idle"
<1>1. requests \in [Requests -> Request] /\ requests[r] \in Request
  BY DEF AccessInv, TypeOK
<1>2. ASSUME NEW pc, Go(r, pc)
      PROVE  requests'[r] = [requests[r] EXCEPT !.pc = pc]
  BY <1>1, <1>2 DEF Go
<1>3. ASSUME NEW super \in BOOLEAN, Authenticated(r, super)
      PROVE  /\ requests'[r].super = super
             /\ ~super => requests'[r].pc = GuardOf(requests[r].route.guard).first
  <2>1. PICK pc, org : /\ pc = IF super /\ requests[r].route.guard \notin Unbypassed
                               THEN Handler(r)
                               ELSE GuardOf(requests[r].route.guard).first
                       /\ org = IF requests[r].route.org # 0 THEN requests[r].route.org
                                ELSE requests[r].route.id
    OBVIOUS
  <2>2. requests'[r] = [requests[r] EXCEPT !.super = super, !.pc = pc, !.org = org]
    BY <1>1, <1>3, <2>1 DEF Authenticated, Request
  <2>3. requests'[r].super = super /\ requests'[r].pc = pc
    BY <1>1, <2>2 DEF Request
  <2>4. QED
    BY <2>1, <2>3
<1>4. Answer(r) => requests'[r].pc = "idle"
  BY <1>1 DEF Answer, Idle
<1>5. ASSUME NEW pc, Go(r, pc)
      PROVE  /\ requests'[r].pc = pc
             /\ requests'[r].who = requests[r].who
             /\ requests'[r].route = requests[r].route
             /\ requests'[r].super = requests[r].super
             /\ requests'[r].org = requests[r].org
  <2>1. requests'[r] = [requests[r] EXCEPT !.pc = pc]
    BY <1>2, <1>5
  <2>2. QED
    BY <1>1, <2>1 DEF Request
<1>6. ASSUME NEW pc, NEW org, requests' = [requests EXCEPT ![r].pc = pc, ![r].org = org]
      PROVE  /\ requests'[r].pc = pc
             /\ requests'[r].route = requests[r].route
             /\ requests'[r].super = requests[r].super
             /\ requests'[r].org = org
  <2>1. requests'[r] = [requests[r] EXCEPT !.pc = pc, !.org = org]
    BY <1>1, <1>6 DEF Request
  <2>2. QED
    BY <1>1, <2>1 DEF Request
<1>7. QED
  BY <1>3, <1>4, <1>5, <1>6

\* Nothing but the self-update guard lets a request on that changes a row.
LEMMA GuardProtects ==
    ASSUME AccessInv, NEW r \in Requests, Guard(r), requests[r].pc # "idle"
    PROVE  Protected(requests[r])'
<1>1. requests \in [Requests -> Request] /\ requests[r] \in Request
  BY DEF AccessInv, TypeOK
<1>2. CASE ReadOwnGrant(r)
  <2>1. grants' = grants
    BY <1>2 DEF ReadOwnGrant, tables
  <2>2. CASE Go(r, "act") /\ requests[r].route.id \in DOMAIN grants
             /\ grants[requests[r].route.id].user # requests[r].who
    BY <2>1, <2>2, StepOf DEF Protected
  <2>3. CASE Go(r, "refused")
    BY <2>3, StepOf DEF Protected
  <2>4. QED
    BY <1>2, <2>2, <2>3 DEF ReadOwnGrant, Refuse
<1>3. ASSUME Passed(r) PROVE Protected(requests[r])'
  <2>1. CASE Changes(r)
    <3>1. Go(r, "ownGrant")
      BY <1>3, <2>1 DEF Passed
    <3>2. QED
      BY <3>1, StepOf DEF Protected
  <2>2. CASE ~Changes(r)
    <3>1. PICK pc : pc = Handler(r)
      OBVIOUS
    <3>2. Go(r, pc)
      BY <1>3, <2>2, <3>1 DEF Passed
    <3>3. QED
      BY <2>2, <3>2, StepOf DEF Protected, Changes
  <2>3. QED
    BY <2>1, <2>2
<1>4. ASSUME \/ Refuse(r) \/ Go(r, "org") \/ Go(r, "conventions") \/ Go(r, "con")
             \/ Go(r, "grantCon")
      PROVE  Protected(requests[r])'
  BY <1>4, StepOf DEF Refuse, Protected
<1>5. ASSUME NEW pc \in {"org", "conventions", "alsoOrg"}, NEW org,
             requests' = [requests EXCEPT ![r].pc = pc, ![r].org = org]
      PROVE  Protected(requests[r])'
  BY <1>5, StepOf DEF Protected
<1>6. CASE ReadAlsoItem(r) \/ ReadAlsoOrganization(r)
  <2>1. requests[r].route.op = "useCollection"
    BY <1>6 DEF ReadAlsoItem, ReadAlsoOrganization, AccessInv, Knows
  <2>2. CASE Go(r, "act")
    BY <2>1, <2>2, StepOf DEF Protected
  <2>3. QED
    BY <1>4, <1>5, <1>6, <2>2 DEF ReadAlsoItem, ReadAlsoOrganization
<1>7. QED
  BY <1>2, <1>3, <1>4, <1>5, <1>6
     DEF Guard, CheckSuper, ReadOrganizationGrant, ReadConventionGrant, ReadGrantConvention,
     ReadItem, CheckSelf,
     ReadCollection, ReadConventions, ReadAttendee,
         ReadConvention, ReadOrganization

\* A request that has been authenticated is at its guard, unless it is a super
\* admin's.
LEMMA SignInProtects ==
    ASSUME AccessInv, NEW r \in Requests, requests[r].pc # "idle",
           NEW super \in BOOLEAN, Authenticated(r, super)
    PROVE  Protected(requests[r])'
<1>1. requests[r].route.guard \in Guards
  BY RouteTypes DEF AnyRoute
<1>2. GuardOf(requests[r].route.guard).first # "act"
  BY <1>1, FirstLookups DEF FirstReads
<1>3. QED
  BY <1>2, StepOf DEF Protected

LEMMA StepProtects ==
    ASSUME AccessInv, NEW r \in Requests,
           Receive(r) \/ Authenticate(r) \/ Guard(r) \/ Handle(r) \/ Fail(r)
    PROVE  Protected(requests[r])'
<1>1. requests \in [Requests -> Request] /\ Knows(requests[r])
  BY DEF AccessInv, TypeOK
<1>2. CASE Receive(r)
  <2>1. requests'[r].pc = "find"
    BY <1>1, <1>2 DEF Receive, Idle
  <2>2. QED
    BY <2>1 DEF Protected
<1>3. CASE FindUser(r)
  <2>1. PICK super \in BOOLEAN : super = (users[requests[r].who] = "superAdmin")
    OBVIOUS
  <2>2. Authenticated(r, super) \/ Go(r, "count")
    BY <1>3, <2>1 DEF FindUser
  <2>3. QED
    BY <1>3, <2>2, SignInProtects, StepOf DEF FindUser, Protected
<1>4. CASE CountUsers(r)
  <2>1. requests'[r].pc = "create"
    BY <1>1, <1>4 DEF CountUsers, AccessInv, TypeOK, Request
  <2>2. QED
    BY <2>1 DEF Protected
<1>5. CASE CreateUser(r)
  <2>1. Answer(r) \/ Go(r, "promote") \/ Authenticated(r, FALSE)
    BY <1>5 DEF CreateUser
  <2>2. requests[r].pc # "idle"
    BY <1>5 DEF CreateUser
  <2>3. ASSUME Authenticated(r, FALSE) PROVE Protected(requests[r])'
    BY <2>2, <2>3, SignInProtects
  <2>4. ASSUME Answer(r) PROVE requests'[r].pc = "idle"
    BY <2>4, StepOf
  <2>5. ASSUME Go(r, "promote") PROVE requests'[r].pc = "promote"
    BY <2>5, StepOf
  <2>6. ASSUME requests'[r].pc \in {"idle", "promote"} PROVE Protected(requests[r])'
    BY <2>6 DEF Protected
  <2>7. QED
    BY <2>1, <2>3, <2>4, <2>5, <2>6
<1>6. CASE Promote(r)
  BY <1>6, SignInProtects DEF Promote
<1>7. CASE Guard(r)
  <2>1. requests[r].pc # "idle"
    BY <1>7 DEF Guard, CheckSuper, ReadOrganizationGrant, ReadConventionGrant, ReadGrantConvention,
     ReadItem, CheckSelf,
     ReadCollection, ReadConventions, ReadAttendee,
         ReadConvention, ReadOrganization, ReadOwnGrant, ReadAlsoItem, ReadAlsoOrganization
  <2>2. QED
    BY <1>7, <2>1, GuardProtects
<1>8. CASE ReadAccount(r) \/ CreateAccount(r)
  <2>1. requests[r].route.op = "addUser"
    BY <1>1, <1>8 DEF Knows, ReadAccount, CreateAccount
  <2>2. Answer(r) \/ Go(r, "act") \/ Go(r, "newAccount")
    BY <1>8 DEF ReadAccount, CreateAccount
  <2>3. QED
    BY <2>1, <2>2, StepOf DEF Protected
<1>9. CASE Answer(r)
  BY <1>9, StepOf DEF Protected
<1>10. QED
  BY <1>2, <1>3, <1>4, <1>5, <1>6, <1>7, <1>8, <1>9
     DEF Authenticate, Handle, UseRoute, UpdateAttendee, CreateOrganization, CreateConvention,
         UpdateConvention, CreateGrant,
         UpdateGrant, DeleteGrant, Fail

\* A step is one request's.
LEMMA OthersStay ==
    ASSUME AccessInv, NEW r \in Requests, NEW s \in Requests, s # r,
           Receive(r) \/ Authenticate(r) \/ Guard(r) \/ Handle(r) \/ Fail(r)
    PROVE  requests'[s] = requests[s]
<1>1. requests \in [Requests -> Request]
  BY DEF AccessInv, TypeOK
<1>2. CASE Receive(r)
  BY <1>1, <1>2 DEF Receive
<1>3. CASE Authenticate(r)
  BY <1>1, <1>3 DEF Authenticate, FindUser, CountUsers, CreateUser, Promote, Authenticated,
     Answer, Go
<1>4. CASE Guard(r)
  BY <1>1, <1>4 DEF Guard, CheckSuper, ReadOrganizationGrant, ReadConventionGrant,
                    ReadGrantConvention,
     ReadItem, CheckSelf,
     ReadCollection, ReadConventions, ReadAttendee,
     ReadConvention, ReadOrganization, ReadOwnGrant, ReadAlsoItem, ReadAlsoOrganization, Passed,
     Refuse, Go
<1>5. CASE Handle(r) \/ Fail(r)
  BY <1>1, <1>5 DEF Handle, UseRoute, UpdateAttendee, CreateOrganization, CreateConvention,
                    UpdateConvention, ReadAccount,
     CreateAccount, CreateGrant, UpdateGrant, DeleteGrant, Fail, Answer, Go
<1>6. QED
  BY <1>2, <1>3, <1>4, <1>5

LEMMA ProtectedNext == AccessInv /\ ProtectedInv /\ [Next]_vars => ProtectedInv'
<1> SUFFICES ASSUME AccessInv, ProtectedInv, [Next]_vars, NEW s \in Requests
             PROVE  Protected(requests[s])'
  BY DEF ProtectedInv
<1>1. CASE UNCHANGED vars
  BY <1>1 DEF vars, tables, ProtectedInv, Protected
<1>2. ASSUME NEW r \in Requests,
             Receive(r) \/ Authenticate(r) \/ Guard(r) \/ Handle(r) \/ Fail(r)
      PROVE  Protected(requests[s])'
  <2>1. CASE s = r
    BY <1>2, <2>1, StepProtects
  <2>2. CASE s # r
    <3>1. requests'[s] = requests[s]
      BY <1>2, <2>2, OthersStay
    <3>2. \A g \in DOMAIN grants : g \in DOMAIN grants' /\ grants'[g].user = grants[g].user
      BY <1>2, RowsStay DEF RowsKept, SamePlace
    <3>3. QED
      BY <3>1, <3>2 DEF ProtectedInv, Protected
  <2>3. QED
    BY <2>1, <2>2
<1>3. QED
  BY <1>1, <1>2 DEF Next

\* What SelfProtected says of one step.
SelfProtectedStep ==
    \A g \in DOMAIN grants : grants'[g] # grants[g] =>
        \E r \in Requests :
            /\ requests[r].pc = "act" /\ requests'[r].pc = "idle"
            /\ \/ requests[r].route.op = "updateAttendee"
               \/ /\ requests[r].route.id = g /\ Changes(r)
                  /\ requests[r].super \/ requests[r].who # grants[g].user

LEMMA OnlyChangesChange ==
    ASSUME AccessInv, ProtectedInv, [Next]_vars
    PROVE  SelfProtectedStep
<1> SUFFICES ASSUME NEW g \in DOMAIN grants, grants'[g] # grants[g]
             PROVE  \E r \in Requests :
                      /\ requests[r].pc = "act" /\ requests'[r].pc = "idle"
                      /\ \/ requests[r].route.op = "updateAttendee"
                         \/ /\ requests[r].route.id = g /\ Changes(r)
                            /\ requests[r].super \/ requests[r].who # grants[g].user
  BY DEF SelfProtectedStep
<1>1. grants \in Seq(Grant)
  BY DEF AccessInv, TypeOK
<1>2. PICK r \in Requests :
        Receive(r) \/ Authenticate(r) \/ Guard(r) \/ Handle(r) \/ Fail(r)
  BY DEF Next, vars, tables
<1>3. ~CreateGrant(r)
  <2> SUFFICES ASSUME CreateGrant(r) PROVE FALSE
    OBVIOUS
  <2>1. PICK row : grants' = Append(grants, row) \/ grants' = grants
    BY DEF CreateGrant
  <2>2. QED
    BY <1>1, <2>1
<1>4. UpdateGrant(r) \/ DeleteGrant(r) \/ UpdateAttendee(r)
  BY <1>2, <1>3
     DEF Receive, Authenticate, FindUser, CountUsers, CreateUser, Promote, Guard, CheckSuper,
         ReadOrganizationGrant, ReadConventionGrant, ReadGrantConvention,
     ReadItem, CheckSelf,
         ReadCollection, ReadConventions, ReadAttendee, ReadConvention,
         ReadOrganization, ReadOwnGrant, ReadAlsoItem, ReadAlsoOrganization, Handle, UseRoute,
         CreateOrganization, CreateConvention, UpdateConvention, ReadAccount, CreateAccount,
         Fail, tables
<1>5. CASE UpdateAttendee(r)
  <2>1. requests[r].pc = "act" /\ requests[r].route.op = "updateAttendee" /\ Answer(r)
    BY <1>5 DEF UpdateAttendee, Acts
  <2>2. QED
    BY <2>1, StepOf
<1>6. CASE UpdateGrant(r) \/ DeleteGrant(r)
  <2>1. /\ requests[r].pc = "act" /\ Changes(r) /\ Answer(r)
        /\ requests[r].route.id = g
    <3>1. CASE UpdateGrant(r)
      BY <1>1, <3>1 DEF UpdateGrant, Acts, Changes, Row
    <3>2. CASE DeleteGrant(r)
      BY <1>1, <3>2 DEF DeleteGrant, Acts, Changes, Row
    <3>3. QED
      BY <1>6, <3>1, <3>2
  <2>2. requests'[r].pc = "idle"
    BY <2>1, StepOf
  <2>3. requests[r].super \/ requests[r].who # grants[g].user
    BY <2>1 DEF ProtectedInv, Protected, Changes
  <2>4. QED
    BY <2>1, <2>2, <2>3
<1>7. QED
  BY <1>4, <1>5, <1>6

\* The self-update guards hold against every interleaving: whatever becomes of
\* a permission row between its second read and the handler, whoever changes or
\* deletes it by the route of permissions is a super admin or not the one whose
\* row it is; and no other route does so but an attendee's update.
THEOREM NobodyChangesOwnRow == Spec => SelfProtected
<1>1. Init => ProtectedInv
  BY DEF Init, ProtectedInv, Protected, Idle
<1>2. AccessInv /\ ProtectedInv /\ [Next]_vars => ProtectedInv'
  BY ProtectedNext
<1>3. AccessInv /\ ProtectedInv /\ [Next]_vars => [SelfProtectedStep]_vars
  BY OnlyChangesChange
<1>4. SelfProtected <=> [][SelfProtectedStep]_vars
  BY DEF SelfProtected, SelfProtectedStep
<1>5. QED
  BY <1>1, <1>2, <1>3, <1>4, AccessInvariance, PTL DEF Spec
-----------------------------------------------------------------------------
(* Who is let through and who is refused: lemmas about the guards.          *)

Guarding == {"super", "orgGrant", "conGrant", "grantCon", "item", "collection",
             "conventions", "attendee", "self", "con", "org"}

\* The reads of a guard that starts with first.
Stages(first) ==
    CASE first = "con" -> {"con", "org"}
      [] first = "item" -> {"item", "org"}
      [] first = "collection" -> {"collection", "conventions", "org"}
      [] first = "attendee" -> {"attendee", "con", "org"}
      [] first = "orgGrant" -> {"orgGrant", "org"}
      [] first = "conGrant" -> {"conGrant", "grantCon", "org"}
      [] OTHER -> {first}

\* The ways in which such a guard can let somebody through.
Kinds(first) ==
    CASE first = "con" -> {"organization", "convention"}
      [] first = "collection" -> {"organization", "sight"}
      [] first = "attendee" -> {"organization", "convention", "self"}
      [] first = "self" -> {"self"}
      [] first = "super" -> {}
      [] OTHER -> {"organization"}

\* The twenty guards, by what they read first.
GuardSays(name) ==
    LET first == GuardOf(name).first IN
    /\ GuardOf(name).tied <=> Tied(name)
    /\ Tied(name) => first = "con"
    /\ name = "ConventionAdminGuard" => first = "con"
    /\ first = "collection" <=> name = "CollectionReadGuard"
    /\ first = "attendee" <=> name = "AttendeeGuard"
    /\ first = "self" <=> name \in {"UserGuard", "UserSelfGuard"}
    /\ first = "super" <=> name = "SuperAdminGuard"
    /\ first = "orgGrant" <=> name = "OrganizationPermissionsGuard"
    /\ first = "conGrant" <=> name = "ConventionPermissionsGuard"
    /\ first \in FirstReads

LEMMA GuardsSay == ASSUME NEW name \in Guards PROVE GuardSays(name)
  BY DEF GuardSays, FirstReads, Guards, Tied, GuardOf, OrganizationReadGuard,
     OrganizationWriteGuard,
     OrganizationAdminGuard, ConventionReadGuard, ConventionWriteGuard,
     ConventionAdminGuard, CheckOutGuard, PrizeEntryGuard, ConventionTypeGuard, GameGuard,
     OrganizationPermissionsGuard, ConventionPermissionsGuard,
     ConventionCreatePermissionsGuard, CollectionWriteGuard, CopyGuard,
     CollectionReadGuard, AttendeeGuard, UserGuard, UserSelfGuard, SuperAdminGuard

\* The roles that a guard lets through, by the least rank that it asks for.
GuardRanks(name) ==
    LET guard == GuardOf(name)
        inOrg == LeastInOrganization(name)
        inCon == LeastInConvention(name) IN
    /\ \/ inOrg = 1 /\ guard.org = {"admin", "geekGuide", "basic"}
       \/ inOrg = 2 /\ guard.org = {"admin", "geekGuide"}
       \/ inOrg = 3 /\ guard.org = {"admin"}
       \/ inOrg = 5 /\ guard.org = {} /\ guard.first \in {"super", "self"}
    /\ \/ inCon = 1 /\ guard.con = {"admin", "geekGuide", "basic"}
       \/ inCon = 2 /\ guard.con = {"admin", "geekGuide"}
       \/ inCon = 3 /\ guard.con = {"admin"}
       \/ inCon = 5 /\ guard.con = {}
    /\ guard.first \in {"super", "self"} => inOrg = 5
    /\ guard.first \notin {"con", "attendee"} => inCon = 5

LEMMA GuardsRank == ASSUME NEW name \in Guards PROVE GuardRanks(name)
  BY DEF GuardRanks, LeastInOrganization, LeastInConvention, Nobody, Guards, GuardOf,
     OrganizationReadGuard, OrganizationWriteGuard,
     OrganizationAdminGuard, ConventionReadGuard, ConventionWriteGuard,
     ConventionAdminGuard, CheckOutGuard, PrizeEntryGuard, ConventionTypeGuard, GameGuard,
     OrganizationPermissionsGuard, ConventionPermissionsGuard,
     ConventionCreatePermissionsGuard, CollectionWriteGuard, CopyGuard,
     CollectionReadGuard, AttendeeGuard, UserGuard, UserSelfGuard, SuperAdminGuard

\* Rank is the highest role.
LEMMA RankIs ==
    ASSUME NEW roles
    PROVE  /\ Rank(roles) \in 0 .. 4
           /\ Rank(roles) >= 1 <=> roles \cap {"admin", "geekGuide", "basic", "owner"} # {}
           /\ Rank(roles) >= 2 <=> roles \cap {"admin", "geekGuide", "owner"} # {}
           /\ Rank(roles) >= 3 <=> roles \cap {"admin", "owner"} # {}
           /\ Rank(roles) = 4 <=> "owner" \in roles
  BY DEF Rank

LEMMA NoRank == Rank({}) = 0
  BY DEF Rank

\* A guard lets somebody pass on the organization, or on the convention, exactly
\* if his rank there is the one that the documentation asks for.
LEMMA PassesInOrganization ==
    ASSUME NEW name \in Guards, NEW roles, GuardOf(name).first \notin {"super", "self"}
    PROVE  roles \cap (GuardOf(name).org \cup {"owner"}) # {}
                <=> Rank(roles) >= LeastInOrganization(name)
<1>1. GuardRanks(name) /\ GuardOf(name).first \notin {"super", "self"}
  BY GuardsRank
<1>2. CASE LeastInOrganization(name) = 1 /\ GuardOf(name).org = {"admin", "geekGuide", "basic"}
  BY <1>2, RankIs
<1>3. CASE LeastInOrganization(name) = 2 /\ GuardOf(name).org = {"admin", "geekGuide"}
  BY <1>3, RankIs
<1>4. CASE LeastInOrganization(name) = 3 /\ GuardOf(name).org = {"admin"}
  BY <1>4, RankIs
<1>5. QED
  BY <1>1, <1>2, <1>3, <1>4 DEF GuardRanks

LEMMA PassesInConvention ==
    ASSUME NEW name \in Guards, NEW roles, "owner" \notin roles
    PROVE  roles \cap GuardOf(name).con # {} <=> Rank(roles) >= LeastInConvention(name)
<1>1. GuardRanks(name)
  BY GuardsRank
<1>2. CASE LeastInConvention(name) = 1 /\ GuardOf(name).con = {"admin", "geekGuide", "basic"}
  BY <1>2, RankIs
<1>3. CASE LeastInConvention(name) = 2 /\ GuardOf(name).con = {"admin", "geekGuide"}
  BY <1>3, RankIs
<1>4. CASE LeastInConvention(name) = 3 /\ GuardOf(name).con = {"admin"}
  BY <1>4, RankIs
<1>5. CASE LeastInConvention(name) = 5 /\ GuardOf(name).con = {}
  BY <1>5, RankIs
<1>6. QED
  BY <1>1, <1>2, <1>3, <1>4, <1>5 DEF GuardRanks

\* Nobody owns a convention.
LEMMA ConventionHasNoOwner ==
    ASSUME AccessInv, NEW c, NEW p
    PROVE  "owner" \notin ConventionRoles(c, p)
<1>1. \A g \in DOMAIN grants : grants[g].role # "owner"
  BY RowTypes DEF Grant, Roles
<1>2. QED
  BY <1>1 DEF ConventionRoles, RolesIn
\* Where a request is in its guard, and what it goes by.
Placed(req) ==
    LET first == GuardOf(req.route.guard).first IN
    /\ req.pc \in Guarding => req.pc \in Stages(first)
    /\ req.pc \in Guarding /\ first = "org" => req.org = req.route.id
    /\ req.pc \in {"con", "org"} /\ Tied(req.route.guard) => req.org = req.route.org
    /\ req.pc = "ownGrant" => req.route.op \in {"updateGrant", "deleteGrant"}

\* What the history says of a request in flight.
Followed(r) ==
    InFlight(r) =>
        /\ OrganizationNamed(requests[r]) \in homes[r]
        /\ Entitled(r) => ever[r]
        /\ always[r] \subseteq WaysOf(r)

\* The organization that the guard looks up last is one that the route has been
\* about, and whom it lets through has been entitled.
Granted(r) ==
    /\ requests[r].pc \in {"org", "conventions"} => requests[r].org \in homes[r]
    /\ requests[r].pc \in {"ownGrant", "act", "account", "newAccount"} =>
            requests[r].super \/ ever[r]

\* The ways that the reads so far leave.
Left(r) ==
    LET req == requests[r] IN
    /\ req.pc = "con" => "self" \notin always[r]
    /\ req.pc = "org" => always[r] \subseteq {"organization"}
    /\ req.pc = "refused" =>
            \/ always[r] = {}
            \/ /\ Changes(r) /\ req.route.id \in DOMAIN grants
               /\ grants[req.route.id].user = req.who

\* The guard of the route looks up the row that its handler works on.
WellRead(r) == ~Misread(requests[r].route)

Fair(r) ==
    /\ Followed(r)
    /\ WellRead(r) => Placed(requests[r]) /\ Granted(r) /\ Left(r)

FairInv ==
    /\ ever \in [Requests -> BOOLEAN]
    /\ \A r \in Requests : Fair(r)

-----------------------------------------------------------------------------
(* What can be said of Ways without its definition.                         *)

LEMMA WaysAre ==
    ASSUME NEW req, NEW o
    PROVE  /\ Ways(req, o) \subseteq {"organization", "convention", "sight", "self"}
           /\ "organization" \in Ways(req, o) <=>
                /\ Tied(req.route.guard) => o = req.route.org
                /\ Rank(OrganizationRoles(o, req.who)) >= LeastInOrganization(req.route.guard)
           /\ "convention" \in Ways(req, o) <=>
                /\ Tied(req.route.guard) => o = req.route.org
                /\ Rank(ConventionRoles(ConventionNamed(req), req.who))
                        >= LeastInConvention(req.route.guard)
           /\ "sight" \in Ways(req, o) <=>
                /\ Tied(req.route.guard) => o = req.route.org
                /\ req.route.guard = "CollectionReadGuard" /\ Sees(req.who, req.route.number)
           /\ "self" \in Ways(req, o) <=>
                /\ Tied(req.route.guard) => o = req.route.org
                /\ req.route.whom = req.who
                /\ \/ req.route.guard \in {"UserGuard", "UserSelfGuard"}
                   \/ /\ req.route.guard = "AttendeeGuard"
                      /\ ConventionNamed(req) \in DOMAIN conventions
  BY DEF Ways

LEMMA WaysPossible ==
    ASSUME NEW req, NEW o, req.route.guard \in Guards
    PROVE  Ways(req, o) \subseteq Kinds(GuardOf(req.route.guard).first)
<1>1. PICK name \in Guards : name = req.route.guard
  OBVIOUS
<1>2. GuardSays(name) /\ GuardRanks(name)
  BY GuardsSay, GuardsRank
<1>3. /\ Rank(OrganizationRoles(o, req.who)) \in 0 .. 4
      /\ Rank(ConventionRoles(ConventionNamed(req), req.who)) \in 0 .. 4
  BY RankIs
<1>4. PICK first : first = GuardOf(name).first
  OBVIOUS
<1>5. "organization" \in Ways(req, o) => first \notin {"super", "self"}
  BY <1>1, <1>2, <1>3, <1>4, WaysAre DEF GuardRanks
<1>6. "convention" \in Ways(req, o) => first \in {"con", "attendee"}
  BY <1>1, <1>2, <1>3, <1>4, WaysAre DEF GuardRanks
<1>7. "sight" \in Ways(req, o) => first = "collection"
  BY <1>1, <1>2, <1>4, WaysAre DEF GuardSays
<1>8. "self" \in Ways(req, o) => first \in {"self", "attendee"}
  BY <1>1, <1>2, <1>4, WaysAre DEF GuardSays
<1>9. Ways(req, o) \subseteq {"organization", "convention", "sight", "self"}
  BY WaysAre
<1>10. Ways(req, o) \subseteq Kinds(first)
  BY <1>5, <1>6, <1>7, <1>8, <1>9 DEF Kinds
<1>11. QED
  BY <1>1, <1>4, <1>10

\* Nobody has a role in an organization or a convention that does not exist.
LEMMA NoOrganization ==
    ASSUME NEW o, o \notin DOMAIN owners, NEW p
    PROVE  OrganizationRoles(o, p) = {}
  BY DEF OrganizationRoles

-----------------------------------------------------------------------------
(* The history that every step keeps.                                       *)

LEMMA WatchSays ==
    ASSUME Watch, ever \in [Requests -> BOOLEAN], NEW s \in Requests
    PROVE  /\ ever' \in [Requests -> BOOLEAN]
           /\ InFlight(s)' => /\ OrganizationNamed(requests[s])' \in homes'[s]
                              /\ Entitled(s)' => ever'[s]
                              /\ always'[s] \subseteq WaysOf(s)'
           /\ InFlight(s) /\ InFlight(s)' => /\ homes[s] \subseteq homes'[s]
                                             /\ ever[s] => ever'[s]
                                             /\ always'[s] \subseteq always[s]
           /\ requests'[s].pc = "refused" => always'[s] = always[s]
<1>1. homes'[s] = IF requests'[s].pc \in {"idle", "refused"} THEN {}
                  ELSE {OrganizationNamed(requests[s])'}
                            \cup IF InFlight(s) THEN homes[s] ELSE {}
  BY DEF Watch
<1>2. ever'[s] = CASE requests'[s].pc = "idle" -> FALSE
                   [] requests'[s].pc = "refused" -> ever[s]
                   [] OTHER -> (InFlight(s) /\ ever[s]) \/ Entitled(s)'
  BY DEF Watch
<1>3. always'[s] = CASE requests'[s].pc = "idle" -> {}
                     [] requests'[s].pc = "refused" -> always[s]
                     [] OTHER -> IF InFlight(s) THEN always[s] \cap WaysOf(s)' ELSE WaysOf(s)'
  BY DEF Watch
<1>4. ever' \in [Requests -> BOOLEAN]
  BY Zenon DEF Watch
<1>5. QED
  BY <1>1, <1>2, <1>3, <1>4 DEF InFlight

\* All steps are watched.
LEMMA StepIsWatched ==
    ASSUME NEW r \in Requests,
           Receive(r) \/ Authenticate(r) \/ Guard(r) \/ Handle(r) \/ Fail(r)
    PROVE  Watch
  BY DEF Receive, Authenticate, FindUser, CountUsers, CreateUser, Promote, Guard, CheckSuper,
         ReadOrganizationGrant, ReadConventionGrant, ReadGrantConvention, ReadItem, CheckSelf,
         ReadCollection, ReadConventions, ReadAttendee, ReadConvention,
         ReadOrganization, ReadOwnGrant, ReadAlsoItem, ReadAlsoOrganization, Handle, UseRoute,
         UpdateAttendee, CreateOrganization,
         CreateConvention, UpdateConvention, ReadAccount, CreateAccount, CreateGrant,
         UpdateGrant, DeleteGrant, Fail, Keep

LEMMA FollowedAlways ==
    ASSUME FairInv, Watch, NEW s \in Requests
    PROVE  Followed(s)'
  BY WatchSays DEF FairInv, Followed

\* The other requests, whatever a step does to the tables.
LEMMA OthersFair ==
    ASSUME FairInv, Watch, RowsKept, NEW s \in Requests, requests'[s] = requests[s]
    PROVE  Fair(s)'
<1>1. Fair(s) /\ ever \in [Requests -> BOOLEAN]
  BY DEF FairInv
<1>2. ASSUME WellRead(s) PROVE Placed(requests[s])' /\ Granted(s)' /\ Left(s)'
  <2>1. Placed(requests[s]) /\ Granted(s) /\ Left(s)
    BY <1>1, <1>2 DEF Fair
  <2>2. Placed(requests[s])'
    BY <2>1 DEF Placed
  <2>3. Granted(s)'
    BY <1>1, <2>1, WatchSays DEF Granted, InFlight
  <2>4. Left(s)'
    BY <1>1, <2>1, WatchSays DEF Left, InFlight, Changes, RowsKept, SamePlace
  <2>5. QED
    BY <2>2, <2>3, <2>4
<1>3. WellRead(s)' <=> WellRead(s)
  BY DEF WellRead
<1>4. QED
  BY <1>2, <1>3, FollowedAlways DEF Fair

\* What the guard of a misread route does is followed, and no more.
LEMMA MisreadFair ==
    ASSUME FairInv, Watch, NEW r \in Requests, ~WellRead(r),
           requests'[r].route = requests[r].route
    PROVE  Fair(r)'
<1>1. ~WellRead(r)'
  BY DEF WellRead
<1>2. QED
  BY <1>1, FollowedAlways DEF Fair

-----------------------------------------------------------------------------
(* The request that takes the step: it is answered, let through, refused, or *)
(* its guard reads on.                                                       *)

\* A way that has been there all through the request is there now, in whichever
\* organization the route has been about.
LEMMA AlwaysNow ==
    ASSUME FairInv, NEW r \in Requests, InFlight(r), NEW o \in homes[r]
    PROVE  always[r] \subseteq Ways(requests[r], o)
  BY DEF FairInv, Fair, Followed, WaysOf

LEMMA NamedIsHome ==
    ASSUME FairInv, NEW r \in Requests, InFlight(r)
    PROVE  OrganizationNamed(requests[r]) \in homes[r]
  BY DEF FairInv, Fair, Followed

LEMMA AnswersFair ==
    ASSUME AccessInv, FairInv, Watch, NEW r \in Requests, Answer(r)
    PROVE  Fair(r)'
<1>1. requests'[r].pc = "idle"
  BY StepOf
<1>2. QED
  BY <1>1, FollowedAlways DEF Fair, Placed, Granted, Left, Guarding

LEMMA PassesFair ==
    ASSUME AccessInv, FairInv, Watch, NEW r \in Requests, WellRead(r),
           requests[r].pc \in Guarding, Passed(r), requests[r].super \/ Entitled(r)
    PROVE  Fair(r)'
<1>1. /\ Changes(r) => Go(r, "ownGrant")
      /\ ~Changes(r) => Go(r, "act") \/ Go(r, "account")
  BY DEF Passed, Handler, WellRead, Misread
<1>2. /\ requests'[r].pc \in {"ownGrant", "act", "account"}
      /\ requests'[r].pc = "ownGrant" => Changes(r)
      /\ requests'[r].route = requests[r].route /\ requests'[r].super = requests[r].super
  BY <1>1, StepOf
<1>3. InFlight(r) /\ InFlight(r)'
  BY <1>2 DEF InFlight, Guarding
<1>4. Entitled(r) => ever'[r]
  BY <1>3, WatchSays DEF FairInv, Fair, Followed
<1>5. Placed(requests[r])'
  BY <1>2 DEF Placed, Guarding, Changes
<1>6. Granted(r)' /\ Left(r)'
  BY <1>2, <1>4 DEF Granted, Left
<1>7. QED
  BY <1>5, <1>6, FollowedAlways DEF Fair

LEMMA RefusesFair ==
    ASSUME AccessInv, FairInv, Watch, RowsKept, NEW r \in Requests, WellRead(r), Refuse(r),
           \/ always[r] = {}
           \/ /\ Changes(r) /\ requests[r].route.id \in DOMAIN grants
              /\ grants[requests[r].route.id].user = requests[r].who
    PROVE  Fair(r)'
<1>1. /\ requests'[r].pc = "refused"
      /\ requests'[r].route = requests[r].route /\ requests'[r].who = requests[r].who
  BY StepOf DEF Refuse
<1>2. always'[r] = always[r]
  BY <1>1, WatchSays DEF FairInv
<1>3. Placed(requests[r])' /\ Granted(r)'
  BY <1>1 DEF Placed, Guarding, Granted
<1>4. Left(r)'
  BY <1>1, <1>2 DEF Left, Changes, RowsKept, SamePlace
<1>5. QED
  BY <1>3, <1>4, FollowedAlways DEF Fair

LEMMA ReadsFair ==
    ASSUME AccessInv, FairInv, Watch, NEW r \in Requests, requests[r].pc \in Guarding,
           NEW pc, NEW org, NEW first, first = GuardOf(requests[r].route.guard).first,
           requests'[r].pc = pc, requests'[r].org = org,
           requests'[r].route = requests[r].route,
           pc \in Stages(first), pc \in Guarding,
           first = "org" => org = requests[r].route.id,
           pc \in {"con", "org"} /\ Tied(requests[r].route.guard) => org = requests[r].route.org,
           pc \in {"org", "conventions"} => org \in homes[r],
           pc = "org" => always[r] \subseteq {"organization"},
           pc = "con" => "self" \notin always[r]
    PROVE  Fair(r)'
<1>1. InFlight(r) /\ InFlight(r)'
  BY DEF InFlight, Guarding
<1>2. homes[r] \subseteq homes'[r] /\ always'[r] \subseteq always[r]
  BY <1>1, WatchSays DEF FairInv
<1>3. Placed(requests[r])'
  BY DEF Placed, Guarding
<1>4. Granted(r)'
  BY <1>2 DEF Granted, Guarding
<1>5. Left(r)'
  BY <1>2 DEF Left, Guarding
<1>6. QED
  BY <1>3, <1>4, <1>5, FollowedAlways DEF Fair

\* What a request at its guard is known to be.
AtGuard(r, first) ==
    /\ InFlight(r)
    /\ requests[r].route.guard \in Guards
    /\ requests[r].route \in AnyRoute
    /\ WellFormed(requests[r].route)
    /\ requests[r].route.thing = Reads(requests[r].route.guard)
    /\ requests[r].route.number = requests[r].route.id
    /\ first = GuardOf(requests[r].route.guard).first
    /\ GuardSays(requests[r].route.guard)
    /\ Placed(requests[r]) /\ Followed(r) /\ Granted(r) /\ Left(r)
    /\ requests[r].pc \in Stages(first)
    /\ OrganizationNamed(requests[r]) \in homes[r]
    /\ \A o \in homes[r] : always[r] \subseteq Ways(requests[r], o)
    /\ always[r] \subseteq Kinds(first)

LEMMA GuardKnows ==
    ASSUME AccessInv, FairInv, NEW r \in Requests, WellRead(r), requests[r].pc \in Guarding,
           NEW first, first = GuardOf(requests[r].route.guard).first
    PROVE  AtGuard(r, first)
<1>1. InFlight(r) /\ requests[r].pc # "idle"
  BY DEF InFlight, Guarding
<1>2. /\ requests[r].route \in AnyRoute /\ WellFormed(requests[r].route)
      /\ requests[r].route.guard \in Guards
  BY <1>1, AccessAssumption DEF AccessInv, Knows, AnyRoute
<1>3. GuardSays(requests[r].route.guard)
  BY <1>2, GuardsSay
<1>4. /\ Placed(requests[r]) /\ Followed(r) /\ Granted(r) /\ Left(r)
      /\ requests[r].pc \in Stages(first)
  BY DEF FairInv, Fair, Placed
<1>5. /\ OrganizationNamed(requests[r]) \in homes[r]
      /\ \A o \in homes[r] : always[r] \subseteq Ways(requests[r], o)
  BY <1>1, NamedIsHome, AlwaysNow
<1>6. always[r] \subseteq Kinds(first)
  BY <1>2, <1>5, WaysPossible
<1>7. /\ requests[r].route.thing = Reads(requests[r].route.guard)
      /\ requests[r].route.number = requests[r].route.id
  BY DEF WellRead, Misread
<1>8. QED
  BY <1>1, <1>2, <1>3, <1>4, <1>5, <1>6, <1>7 DEF AtGuard

\* What a request is about whose guard looks up the row that it is about.
LEMMA NamedBy ==
    ASSUME NEW req, NEW first, NEW id, NEW c, req.route.thing = Reads(req.route.guard),
           req.route.number = id, req.route.id = id,
           first = GuardOf(req.route.guard).first, c = ConventionNamed(req)
    PROVE  /\ first \in {"con", "attendee"} => c = id
           /\ first = "conGrant" =>
                c = IF Row("con", id) \/ req.pc = "grantCon" THEN grants[id].of ELSE 0
           /\ first \in {"con", "attendee", "conGrant"} =>
                OrganizationNamed(req) = IF c \in DOMAIN conventions THEN conventions[c] ELSE 0
           /\ first = "orgGrant" =>
                OrganizationNamed(req) = IF Row("org", id) THEN grants[id].of ELSE 0
           /\ first \in {"item", "collection"} => OrganizationNamed(req) = ItemOrganization(id)
           /\ first = "org" => OrganizationNamed(req) = id
<1>1. Reads(req.route.guard) =
        CASE first \in {"con", "attendee"} -> "con"
          [] first \in {"item", "collection"} -> "item"
          [] first \in {"self", "super"} -> "nothing"
          [] OTHER -> first
  BY DEF Reads
<1>2. PICK thing : thing = req.route.thing
  OBVIOUS
<1>3. c = CASE thing = "con" -> id
            [] thing = "conGrant" /\ (Row("con", id) \/ req.pc = "grantCon") -> grants[id].of
            [] OTHER -> 0
  BY <1>2 DEF ConventionNamed
<1>4. OrganizationNamed(req) =
        CASE thing \in {"con", "conGrant"} ->
                IF c \in DOMAIN conventions THEN conventions[c] ELSE 0
          [] thing = "orgGrant" -> IF Row("org", id) THEN grants[id].of ELSE 0
          [] thing = "item" -> ItemOrganization(id)
          [] thing = "org" -> id
          [] OTHER -> 0
  BY <1>2 DEF OrganizationNamed
<1>5. QED
  BY <1>1, <1>2, <1>3, <1>4

\* The same of a request at its guard.
LEMMA Names ==
    ASSUME NEW r \in Requests, NEW first, AtGuard(r, first), NEW id, id = requests[r].route.id,
           NEW c, c = ConventionNamed(requests[r])
    PROVE  /\ first \in {"con", "attendee"} => c = id
           /\ first = "conGrant" =>
                c = IF Row("con", id) \/ requests[r].pc = "grantCon" THEN grants[id].of ELSE 0
           /\ first \in {"con", "attendee", "conGrant"} =>
                OrganizationNamed(requests[r]) =
                    IF c \in DOMAIN conventions THEN conventions[c] ELSE 0
           /\ first = "orgGrant" =>
                OrganizationNamed(requests[r]) = IF Row("org", id) THEN grants[id].of ELSE 0
           /\ first \in {"item", "collection"} =>
                OrganizationNamed(requests[r]) = ItemOrganization(id)
           /\ first = "org" => OrganizationNamed(requests[r]) = id
<1>1. PICK req : req = requests[r]
  OBVIOUS
<1>2. /\ req.route.thing = Reads(req.route.guard) /\ req.route.number = id /\ req.route.id = id
      /\ first = GuardOf(req.route.guard).first /\ c = ConventionNamed(req)
  BY <1>1 DEF AtGuard
<1>3. QED
  BY <1>1, <1>2, NamedBy

LEMMA EntitledBy ==
    ASSUME NEW r \in Requests, InFlight(r), NEW o \in homes[r], NEW way,
           way \in Ways(requests[r], o)
    PROVE  Entitled(r)
  BY DEF Entitled

\* Who has no role that counts in one of the organizations that the route has
\* been about has not been entitled by one all through the request.
LEMMA NoRoleInOrganization ==
    ASSUME NEW r \in Requests, NEW first, AtGuard(r, first), first \notin {"super", "self"},
           NEW o \in homes[r],
           OrganizationRoles(o, requests[r].who)
                \cap (GuardOf(requests[r].route.guard).org \cup {"owner"}) = {}
    PROVE  "organization" \notin always[r]
<1>1. ~(Rank(OrganizationRoles(o, requests[r].who))
            >= LeastInOrganization(requests[r].route.guard))
  BY PassesInOrganization DEF AtGuard
<1>2. "organization" \notin Ways(requests[r], o)
  BY <1>1, WaysAre
<1>3. QED
  BY <1>2 DEF AtGuard

\* The more so where there is no such organization.
LEMMA NoSuchOrganization ==
    ASSUME NEW r \in Requests, NEW first, AtGuard(r, first), first \notin {"super", "self"},
           NEW o \in homes[r], o \notin DOMAIN owners
    PROVE  "organization" \notin always[r]
<1>1. OrganizationRoles(o, requests[r].who) = {}
  BY NoOrganization
<1>2. QED
  BY <1>1, NoRoleInOrganization

LEMMA ZeroIsNone ==
    ASSUME AccessInv
    PROVE  0 \notin DOMAIN owners /\ 0 \notin DOMAIN conventions
  BY DEF AccessInv, TypeOK

LEMMA ReadOrganizationGrantFair ==
    ASSUME AccessInv, FairInv, Watch, RowsKept, NEW r \in Requests, WellRead(r),
           ReadOrganizationGrant(r)
    PROVE  Fair(r)'
<1>1. requests[r].pc = "orgGrant"
  BY DEF ReadOrganizationGrant
<1>2. PICK first : first = GuardOf(requests[r].route.guard).first
  OBVIOUS
<1>3. AtGuard(r, first)
  BY <1>1, <1>2, GuardKnows DEF Guarding
<1>4. first = "orgGrant"
  BY <1>1, <1>3 DEF AtGuard, Stages
<1>5. PICK g : g = requests[r].route.id
  OBVIOUS
<1>6. OrganizationNamed(requests[r]) = IF Row("org", g) THEN grants[g].of ELSE 0
  BY <1>3, <1>4, <1>5, Names
<1>7. CASE ~Row("org", g)
  <2>1. 0 \in homes[r]
    BY <1>3, <1>6, <1>7 DEF AtGuard
  <2>2. "organization" \notin always[r]
    BY <1>3, <1>4, <2>1, NoSuchOrganization, ZeroIsNone
  <2>3. always[r] = {}
    BY <1>3, <1>4, <2>2 DEF AtGuard, Kinds
  <2>4. Refuse(r)
    BY <1>5, <1>7 DEF ReadOrganizationGrant
  <2>5. QED
    BY <2>3, <2>4, RefusesFair
<1>8. CASE Row("org", g)
  <2>1. PICK org : org = grants[g].of
    OBVIOUS
  <2>2. requests' = [requests EXCEPT ![r].pc = "org", ![r].org = org]
    BY <1>5, <1>8, <2>1 DEF ReadOrganizationGrant
  <2>3. requests \in [Requests -> Request]
    BY DEF AccessInv, TypeOK
  <2>4. /\ requests'[r].pc = "org" /\ requests'[r].org = org
        /\ requests'[r].route = requests[r].route
    BY <2>2, <2>3 DEF Request
  <2>5. org \in homes[r]
    BY <1>3, <1>6, <1>8, <2>1 DEF AtGuard
  <2>6. ~Tied(requests[r].route.guard)
    BY <1>2, <1>3, <1>4 DEF AtGuard, GuardSays
  <2>7. always[r] \subseteq {"organization"}
    BY <1>3, <1>4 DEF AtGuard, Kinds
  <2>8. QED
    BY <1>1, <1>2, <1>4, <2>4, <2>5, <2>6, <2>7, ReadsFair DEF Guarding, Stages
<1>9. QED
  BY <1>7, <1>8

LEMMA ReadConventionGrantFair ==
    ASSUME AccessInv, FairInv, Watch, RowsKept, NEW r \in Requests, WellRead(r),
           ReadConventionGrant(r)
    PROVE  Fair(r)'
<1>1. requests[r].pc = "conGrant"
  BY DEF ReadConventionGrant
<1>2. PICK first : first = GuardOf(requests[r].route.guard).first
  OBVIOUS
<1>3. AtGuard(r, first)
  BY <1>1, <1>2, GuardKnows DEF Guarding
<1>4. first = "conGrant"
  BY <1>1, <1>3 DEF AtGuard, Stages
<1>5. CASE ~Row("con", requests[r].route.id)
  <2>1. ConventionNamed(requests[r]) = 0
    BY <1>1, <1>3, <1>4, <1>5, Names
  <2>2. OrganizationNamed(requests[r]) = 0
    BY <1>3, <1>4, <2>1, Names, ZeroIsNone
  <2>3. 0 \in homes[r]
    BY <1>3, <2>2 DEF AtGuard
  <2>4. "organization" \notin always[r]
    BY <1>3, <1>4, <2>3, NoSuchOrganization, ZeroIsNone
  <2>5. always[r] = {}
    BY <1>3, <1>4, <2>4 DEF AtGuard, Kinds
  <2>6. Refuse(r)
    BY <1>5 DEF ReadConventionGrant
  <2>7. QED
    BY <2>5, <2>6, RefusesFair
<1>6. CASE Row("con", requests[r].route.id)
  <2>1. Go(r, "grantCon")
    BY <1>6 DEF ReadConventionGrant
  <2>2. /\ requests'[r].pc = "grantCon" /\ requests'[r].org = requests[r].org
        /\ requests'[r].route = requests[r].route
    BY <2>1, StepOf
  <2>3. QED
    BY <1>1, <1>2, <1>4, <2>2, ReadsFair DEF Guarding, Stages
<1>7. QED
  BY <1>5, <1>6

LEMMA ReadGrantConventionFair ==
    ASSUME AccessInv, FairInv, Watch, RowsKept, NEW r \in Requests, WellRead(r),
           ReadGrantConvention(r)
    PROVE  Fair(r)'
<1>1. requests[r].pc = "grantCon"
  BY DEF ReadGrantConvention
<1>2. PICK first : first = GuardOf(requests[r].route.guard).first
  OBVIOUS
<1>3. AtGuard(r, first)
  BY <1>1, <1>2, GuardKnows DEF Guarding
<1>4. first = "conGrant"
  BY <1>1, <1>3 DEF AtGuard, Stages, GuardSays, FirstReads
<1>5. PICK g, c : g = requests[r].route.id /\ c = grants[g].of
  OBVIOUS
<1>6. PICK org : org = conventions[c]
  OBVIOUS
<1>7. c \in DOMAIN conventions
  <2>1. g \in DOMAIN grants /\ grants[g].table = "con"
    BY <1>1, <1>5 DEF AccessInv, Knows
  <2>2. QED
    BY <1>5, <2>1 DEF AccessInv, TypeOK, Consistent, Parents
<1>8. ConventionNamed(requests[r]) = c
  BY <1>1, <1>3, <1>4, <1>5, Names
<1>9. OrganizationNamed(requests[r]) = org
  BY <1>3, <1>4, <1>6, <1>7, <1>8, Names
<1>10. requests' = [requests EXCEPT ![r].pc = "org", ![r].org = org]
  BY <1>5, <1>6 DEF ReadGrantConvention
<1>11. requests \in [Requests -> Request]
  BY DEF AccessInv, TypeOK
<1>12. /\ requests'[r].pc = "org" /\ requests'[r].org = org
       /\ requests'[r].route = requests[r].route
  BY <1>10, <1>11 DEF Request
<1>13. org \in homes[r] /\ always[r] \subseteq {"organization"}
  BY <1>3, <1>4, <1>9 DEF AtGuard, Kinds
<1>14. ~Tied(requests[r].route.guard)
  BY <1>2, <1>3, <1>4 DEF AtGuard, GuardSays
<1>15. QED
  BY <1>1, <1>2, <1>4, <1>12, <1>13, <1>14, ReadsFair DEF Guarding, Stages

LEMMA ReadItemFair ==
    ASSUME AccessInv, FairInv, Watch, RowsKept, NEW r \in Requests, WellRead(r), ReadItem(r)
    PROVE  Fair(r)'
<1>1. requests[r].pc = "item"
  BY DEF ReadItem
<1>2. PICK first : first = GuardOf(requests[r].route.guard).first
  OBVIOUS
<1>3. AtGuard(r, first)
  BY <1>1, <1>2, GuardKnows DEF Guarding
<1>4. first = "item" /\ always[r] \subseteq {"organization"}
  BY <1>1, <1>3 DEF AtGuard, Stages, Kinds
<1>5. PICK o, n, c : /\ n = requests[r].route.id /\ o = ItemOrganization(n)
                     /\ c = ConventionNamed(requests[r])
  OBVIOUS
<1>6. OrganizationNamed(requests[r]) = o
  BY <1>3, <1>4, <1>5, Names
<1>7. OrganizationNamed(requests[r]) = o /\ o \in homes[r]
  BY <1>3, <1>6 DEF AtGuard
<1>8. CASE o = 0
  <2>1. "organization" \notin always[r]
    BY <1>3, <1>4, <1>7, <1>8, NoSuchOrganization, ZeroIsNone
  <2>2. always[r] = {} /\ Refuse(r)
    BY <1>4, <1>5, <1>8, <2>1 DEF ReadItem
  <2>3. QED
    BY <2>2, RefusesFair
<1>9. CASE o # 0 /\ requests[r].super
  <2>1. Passed(r)
    BY <1>5, <1>9 DEF ReadItem
  <2>2. QED
    BY <1>1, <1>9, <2>1, PassesFair DEF Guarding
<1>10. CASE o # 0 /\ ~requests[r].super
  <2>1. requests' = [requests EXCEPT ![r].pc = "org", ![r].org = o]
    BY <1>5, <1>10 DEF ReadItem
  <2>2. requests \in [Requests -> Request]
    BY DEF AccessInv, TypeOK
  <2>3. /\ requests'[r].pc = "org" /\ requests'[r].org = o
        /\ requests'[r].route = requests[r].route
    BY <2>1, <2>2 DEF Request
  <2>4. ~Tied(requests[r].route.guard)
    BY <1>2, <1>3, <1>4 DEF AtGuard, GuardSays
  <2>5. QED
    BY <1>1, <1>2, <1>4, <1>7, <2>3, <2>4, ReadsFair DEF Guarding, Stages
<1>11. QED
  BY <1>8, <1>9, <1>10

LEMMA ReadCollectionFair ==
    ASSUME AccessInv, FairInv, Watch, RowsKept, NEW r \in Requests, WellRead(r), ReadCollection(r)
    PROVE  Fair(r)'
<1>1. requests[r].pc = "collection"
  BY DEF ReadCollection
<1>2. PICK first : first = GuardOf(requests[r].route.guard).first
  OBVIOUS
<1>3. AtGuard(r, first)
  BY <1>1, <1>2, GuardKnows DEF Guarding
<1>4. first = "collection" /\ always[r] \subseteq {"organization", "sight"}
  BY <1>1, <1>3 DEF AtGuard, Stages, Kinds
<1>5. PICK o, n, c : /\ n = requests[r].route.id /\ o = ItemOrganization(n)
                     /\ c = ConventionNamed(requests[r])
  OBVIOUS
<1>6. OrganizationNamed(requests[r]) = o
  BY <1>3, <1>4, <1>5, Names
<1>7. /\ OrganizationNamed(requests[r]) = o /\ o \in homes[r]
      /\ requests[r].route.number = n
  BY <1>3, <1>5, <1>6 DEF AtGuard
<1>8. CASE o = 0
  <2>1. "organization" \notin always[r]
    BY <1>3, <1>4, <1>7, <1>8, NoSuchOrganization, ZeroIsNone
  <2>2. ~Sees(requests[r].who, n)
    BY <1>5, <1>8 DEF Sees
  <2>3. "sight" \notin Ways(requests[r], o)
    BY <1>7, <2>2, WaysAre
  <2>4. "sight" \notin always[r]
    BY <1>3, <1>7, <2>3 DEF AtGuard
  <2>5. always[r] = {} /\ Refuse(r)
    BY <1>4, <1>5, <1>8, <2>1, <2>4 DEF ReadCollection
  <2>6. QED
    BY <2>5, RefusesFair
<1>9. CASE o # 0
  <2>1. requests' = [requests EXCEPT ![r].pc = "conventions", ![r].org = o]
    BY <1>5, <1>9 DEF ReadCollection
  <2>2. requests \in [Requests -> Request]
    BY DEF AccessInv, TypeOK
  <2>3. /\ requests'[r].pc = "conventions" /\ requests'[r].org = o
        /\ requests'[r].route = requests[r].route
    BY <2>1, <2>2 DEF Request
  <2>4. QED
    BY <1>1, <1>2, <1>4, <1>7, <2>3, ReadsFair DEF Guarding, Stages
<1>10. QED
  BY <1>8, <1>9

LEMMA ReadConventionsFair ==
    ASSUME AccessInv, FairInv, Watch, RowsKept, NEW r \in Requests, WellRead(r), ReadConventions(r)
    PROVE  Fair(r)'
<1>1. requests[r].pc = "conventions"
  BY DEF ReadConventions
<1>2. PICK first : first = GuardOf(requests[r].route.guard).first
  OBVIOUS
<1>3. AtGuard(r, first)
  BY <1>1, <1>2, GuardKnows DEF Guarding
<1>4. first = "collection" /\ always[r] \subseteq {"organization", "sight"}
  BY <1>1, <1>3 DEF AtGuard, Stages, Kinds, GuardSays, FirstReads
<1>5. PICK o, n : o = requests[r].org /\ n = requests[r].route.id
  OBVIOUS
<1>6. o \in homes[r] /\ requests[r].route.number = n
  BY <1>1, <1>3, <1>5 DEF AtGuard, Granted
<1>7. requests[r].route.guard = "CollectionReadGuard" /\ ~Tied(requests[r].route.guard)
  BY <1>2, <1>3, <1>4 DEF AtGuard, GuardSays
<1>8. CASE Sees(requests[r].who, n)
  <2>1. "sight" \in Ways(requests[r], o)
    BY <1>6, <1>7, <1>8, WaysAre
  <2>2. Entitled(r)
    BY <1>3, <1>6, <2>1, EntitledBy DEF AtGuard
  <2>3. Passed(r)
    BY <1>5, <1>8 DEF ReadConventions
  <2>4. QED
    BY <1>1, <2>2, <2>3, PassesFair DEF Guarding
<1>9. CASE ~Sees(requests[r].who, n)
  <2>1. "sight" \notin Ways(requests[r], o)
    BY <1>6, <1>9, WaysAre
  <2>2. always[r] \subseteq {"organization"}
    BY <1>3, <1>4, <1>6, <2>1 DEF AtGuard
  <2>3. Go(r, "org")
    BY <1>5, <1>9 DEF ReadConventions
  <2>4. /\ requests'[r].pc = "org" /\ requests'[r].org = o
        /\ requests'[r].route = requests[r].route
    BY <1>5, <2>3, StepOf
  <2>5. QED
    BY <1>1, <1>2, <1>4, <1>6, <1>7, <2>2, <2>4, ReadsFair DEF Guarding, Stages
<1>10. QED
  BY <1>8, <1>9

LEMMA ReadAttendeeFair ==
    ASSUME AccessInv, FairInv, Watch, RowsKept, NEW r \in Requests, WellRead(r), ReadAttendee(r)
    PROVE  Fair(r)'
<1>1. requests[r].pc = "attendee"
  BY DEF ReadAttendee
<1>2. PICK first : first = GuardOf(requests[r].route.guard).first
  OBVIOUS
<1>3. AtGuard(r, first)
  BY <1>1, <1>2, GuardKnows DEF Guarding
<1>4. first = "attendee" /\ always[r] \subseteq {"organization", "convention", "self"}
  BY <1>1, <1>3 DEF AtGuard, Stages, Kinds
<1>5. /\ requests[r].route.guard = "AttendeeGuard" /\ requests[r].route.guard \in Guards
      /\ ~Tied(requests[r].route.guard)
  BY <1>2, <1>3, <1>4 DEF AtGuard, GuardSays
<1>6. PICK c : c = requests[r].route.id
  OBVIOUS
<1>7. ConventionNamed(requests[r]) = c
  BY <1>3, <1>4, <1>6, Names
<1>8. PICK o : o = OrganizationNamed(requests[r])
  OBVIOUS
<1>9. o \in homes[r] /\ always[r] \subseteq Ways(requests[r], o)
  BY <1>3, <1>8 DEF AtGuard
<1>10. CASE c \notin DOMAIN conventions
  <2>1. o = 0
    BY <1>3, <1>4, <1>7, <1>8, <1>10, Names
  <2>2. "organization" \notin always[r]
    BY <1>3, <1>4, <1>9, <2>1, NoSuchOrganization, ZeroIsNone
  <2>3. "self" \notin Ways(requests[r], o)
    BY <1>5, <1>7, <1>10, WaysAre
  <2>4. "convention" \notin Ways(requests[r], o)
    <3>1. ConventionRoles(c, requests[r].who) = {}
      BY <1>10 DEF ConventionRoles
    <3>2. ~(Rank(ConventionRoles(c, requests[r].who))
                >= LeastInConvention(requests[r].route.guard))
      BY <1>5, <3>1, PassesInConvention
    <3>3. QED
      BY <1>7, <3>2, WaysAre
  <2>5. always[r] = {} /\ Refuse(r)
    BY <1>4, <1>6, <1>9, <1>10, <2>2, <2>3, <2>4 DEF ReadAttendee
  <2>6. QED
    BY <2>5, RefusesFair
<1>11. CASE c \in DOMAIN conventions
            /\ (requests[r].super \/ requests[r].route.whom = requests[r].who)
  <2>1. requests[r].route.whom = requests[r].who => "self" \in Ways(requests[r], o)
    BY <1>5, <1>7, <1>11, WaysAre
  <2>2. requests[r].super \/ Entitled(r)
    BY <1>3, <1>9, <1>11, <2>1, EntitledBy DEF AtGuard
  <2>3. Passed(r)
    BY <1>6, <1>11 DEF ReadAttendee
  <2>4. QED
    BY <1>1, <2>2, <2>3, PassesFair DEF Guarding
<1>12. CASE c \in DOMAIN conventions /\ ~requests[r].super
            /\ requests[r].route.whom # requests[r].who
  <2>1. "self" \notin always[r]
    BY <1>9, <1>12, WaysAre
  <2>2. Go(r, "con")
    BY <1>6, <1>12 DEF ReadAttendee
  <2>3. /\ requests'[r].pc = "con" /\ requests'[r].org = requests[r].org
        /\ requests'[r].route = requests[r].route
    BY <2>2, StepOf
  <2>4. QED
    BY <1>1, <1>2, <1>4, <1>5, <2>1, <2>3, ReadsFair DEF Guarding, Stages
<1>13. QED
  BY <1>10, <1>11, <1>12

LEMMA CheckSelfFair ==
    ASSUME AccessInv, FairInv, Watch, RowsKept, NEW r \in Requests, WellRead(r), CheckSelf(r)
    PROVE  Fair(r)'
<1>1. requests[r].pc = "self"
  BY DEF CheckSelf
<1>2. PICK first : first = GuardOf(requests[r].route.guard).first
  OBVIOUS
<1>3. AtGuard(r, first)
  BY <1>1, <1>2, GuardKnows DEF Guarding
<1>4. first = "self" /\ always[r] \subseteq {"self"}
  BY <1>1, <1>3 DEF AtGuard, Stages, Kinds
<1>5. /\ requests[r].route.guard \in {"UserGuard", "UserSelfGuard"}
      /\ ~Tied(requests[r].route.guard)
  BY <1>2, <1>3, <1>4 DEF AtGuard, GuardSays
<1>6. PICK o \in homes[r] : always[r] \subseteq Ways(requests[r], o)
  BY <1>3 DEF AtGuard
<1>7. CASE requests[r].route.whom = requests[r].who
  <2>1. "self" \in Ways(requests[r], o)
    BY <1>5, <1>7, WaysAre
  <2>2. Entitled(r)
    BY <1>3, <1>6, <2>1, EntitledBy DEF AtGuard
  <2>3. QED
    BY <1>1, <1>7, <2>2, PassesFair DEF CheckSelf, Guarding
<1>8. CASE requests[r].route.whom # requests[r].who
  <2>1. "self" \notin Ways(requests[r], o)
    BY <1>8, WaysAre
  <2>2. always[r] = {} /\ Refuse(r)
    BY <1>4, <1>6, <1>8, <2>1 DEF CheckSelf
  <2>3. QED
    BY <2>2, RefusesFair
<1>9. QED
  BY <1>7, <1>8

LEMMA CheckSuperFair ==
    ASSUME AccessInv, FairInv, Watch, RowsKept, NEW r \in Requests, WellRead(r), CheckSuper(r)
    PROVE  Fair(r)'
<1>1. requests[r].pc = "super" /\ Refuse(r)
  BY DEF CheckSuper
<1>2. PICK first : first = GuardOf(requests[r].route.guard).first
  OBVIOUS
<1>3. AtGuard(r, first)
  BY <1>1, <1>2, GuardKnows DEF Guarding
<1>4. first = "super" /\ always[r] = {}
  BY <1>1, <1>3 DEF AtGuard, Stages, Kinds
<1>5. QED
  BY <1>1, <1>4, RefusesFair

LEMMA ReadConventionFair ==
    ASSUME AccessInv, FairInv, Watch, RowsKept, NEW r \in Requests, WellRead(r), ReadConvention(r)
    PROVE  Fair(r)'
<1>1. requests[r].pc = "con"
  BY DEF ReadConvention
<1>2. PICK first, name, c : /\ name = requests[r].route.guard
                            /\ first = GuardOf(name).first
                            /\ c = requests[r].route.id
  OBVIOUS
<1>3. AtGuard(r, first)
  BY <1>1, <1>2, GuardKnows DEF Guarding
<1>4. /\ first \in {"con", "attendee"} /\ name \in Guards
      /\ GuardOf(name).tied <=> Tied(name)
      /\ always[r] \subseteq {"organization", "convention", "self"}
  BY <1>1, <1>2, <1>3 DEF AtGuard, Stages, Kinds, GuardSays, FirstReads
<1>5. PICK o : o = IF c \in DOMAIN conventions THEN conventions[c] ELSE 0
  OBVIOUS
<1>6. ConventionNamed(requests[r]) = c
  BY <1>2, <1>3, <1>4, Names
<1>7. OrganizationNamed(requests[r]) = o
  BY <1>3, <1>4, <1>5, <1>6, Names
<1>8. o \in homes[r] /\ always[r] \subseteq Ways(requests[r], o)
  BY <1>3, <1>7 DEF AtGuard
<1>9. Tied(name) => requests[r].org = requests[r].route.org /\ requests[r].route.org # 0
  BY <1>1, <1>2, <1>3 DEF AtGuard, Placed, WellFormed
<1>10. ConventionRoles(c, requests[r].who) \cap GuardOf(name).con # {}
            <=> Rank(ConventionRoles(c, requests[r].who)) >= LeastInConvention(name)
  BY <1>4, ConventionHasNoOwner, PassesInConvention
<1>11. CASE Tied(name) /\ (c \notin DOMAIN conventions \/ conventions[c] # requests[r].org)
  <2>1. o # requests[r].route.org
    BY <1>5, <1>9, <1>11
  <2>2. Ways(requests[r], o) = {}
    BY <1>2, <1>11, <2>1, WaysAre
  <2>3. Refuse(r)
    BY <1>2, <1>4, <1>11 DEF ReadConvention
  <2>4. QED
    BY <1>8, <2>2, <2>3, RefusesFair
<1>12. CASE /\ Tied(name) => c \in DOMAIN conventions /\ conventions[c] = requests[r].org
            /\ ConventionRoles(c, requests[r].who) \cap GuardOf(name).con # {}
  <2>1. Tied(name) => o = requests[r].route.org
    BY <1>5, <1>9, <1>12
  <2>2. "convention" \in Ways(requests[r], o)
    BY <1>2, <1>6, <1>10, <1>12, <2>1, WaysAre
  <2>3. Entitled(r)
    BY <1>3, <1>8, <2>2, EntitledBy DEF AtGuard
  <2>4. Passed(r)
    BY <1>2, <1>4, <1>12 DEF ReadConvention
  <2>5. QED
    BY <1>1, <2>3, <2>4, PassesFair DEF Guarding
<1>13. CASE /\ Tied(name) => c \in DOMAIN conventions /\ conventions[c] = requests[r].org
            /\ ConventionRoles(c, requests[r].who) \cap GuardOf(name).con = {}
  <2>1. "convention" \notin Ways(requests[r], o)
    BY <1>2, <1>6, <1>10, <1>13, WaysAre
  <2>2. always[r] \subseteq {"organization"}
    BY <1>1, <1>3, <1>4, <1>8, <2>1 DEF AtGuard, Left
  <2>3. requests' = [requests EXCEPT ![r].pc = "org", ![r].org = o]
    BY <1>2, <1>4, <1>5, <1>13 DEF ReadConvention
  <2>4. requests \in [Requests -> Request]
    BY DEF AccessInv, TypeOK
  <2>5. /\ requests'[r].pc = "org" /\ requests'[r].org = o
        /\ requests'[r].route = requests[r].route
    BY <2>3, <2>4 DEF Request
  <2>6. Tied(name) => o = requests[r].route.org
    BY <1>5, <1>9, <1>13
  <2>7. QED
    BY <1>1, <1>2, <1>4, <1>8, <2>2, <2>5, <2>6, ReadsFair DEF Guarding, Stages
<1>14. QED
  BY <1>11, <1>12, <1>13

LEMMA ReadOrganizationFair ==
    ASSUME AccessInv, FairInv, Watch, RowsKept, NEW r \in Requests, WellRead(r), ReadOrganization(r)
    PROVE  Fair(r)'
<1>1. requests[r].pc = "org"
  BY DEF ReadOrganization
<1>2. PICK first, name, o : /\ name = requests[r].route.guard
                            /\ first = GuardOf(name).first
                            /\ o = requests[r].org
  OBVIOUS
<1>3. AtGuard(r, first)
  BY <1>1, <1>2, GuardKnows DEF Guarding
<1>4. /\ first \notin {"super", "self"} /\ name \in Guards
      /\ o \in homes[r] /\ always[r] \subseteq {"organization"}
      /\ Tied(name) => o = requests[r].route.org
  BY <1>1, <1>2, <1>3 DEF AtGuard, Stages, Placed, Granted, Left
<1>5. PICK mine : mine = OrganizationRoles(o, requests[r].who)
  OBVIOUS
<1>6. CASE mine \cap (GuardOf(name).org \cup {"owner"}) # {}
  <2>1. Rank(mine) >= LeastInOrganization(name)
    BY <1>2, <1>4, <1>6, PassesInOrganization
  <2>2. "organization" \in Ways(requests[r], o)
    BY <1>2, <1>4, <1>5, <2>1, WaysAre
  <2>3. Entitled(r)
    BY <1>3, <1>4, <2>2, EntitledBy DEF AtGuard
  <2>4. Passed(r)
    BY <1>2, <1>5, <1>6 DEF ReadOrganization
  <2>5. QED
    BY <1>1, <2>3, <2>4, PassesFair DEF Guarding
<1>7. CASE mine \cap (GuardOf(name).org \cup {"owner"}) = {}
  <2>1. "organization" \notin always[r]
    BY <1>2, <1>3, <1>4, <1>5, <1>7, NoRoleInOrganization
  <2>2. always[r] = {}
    BY <1>4, <2>1
  <2>3. Refuse(r)
    BY <1>2, <1>5, <1>7 DEF ReadOrganization
  <2>4. QED
    BY <2>2, <2>3, RefusesFair
<1>8. QED
  BY <1>6, <1>7

\* A step between the guard and the end of the handler.
LEMMA GoesOnFair ==
    ASSUME AccessInv, FairInv, Watch, NEW r \in Requests, WellRead(r),
           requests[r].pc \in {"ownGrant", "account", "newAccount"},
           NEW pc \in {"act", "newAccount"}, Go(r, pc)
    PROVE  Fair(r)'
<1>1. /\ requests'[r].pc = pc /\ requests'[r].super = requests[r].super
  BY StepOf
<1>2. InFlight(r) /\ InFlight(r)'
  BY <1>1 DEF InFlight
<1>3. requests[r].super \/ ever[r]
  BY DEF FairInv, Fair, Granted
<1>4. Granted(r)'
  BY <1>1, <1>2, <1>3, WatchSays DEF Granted, FairInv
<1>5. Placed(requests[r])' /\ Left(r)'
  BY <1>1 DEF Placed, Guarding, Left
<1>6. QED
  BY <1>4, <1>5, FollowedAlways DEF Fair

LEMMA ReadOwnGrantFair ==
    ASSUME AccessInv, FairInv, Watch, RowsKept, NEW r \in Requests, WellRead(r), ReadOwnGrant(r)
    PROVE  Fair(r)'
<1>1. requests[r].pc = "ownGrant"
  BY DEF ReadOwnGrant
<1>2. PICK g : g = requests[r].route.id
  OBVIOUS
<1>3. Changes(r)
  BY <1>1 DEF FairInv, Fair, Placed, Changes
<1>4. CASE Go(r, "act")
  BY <1>1, <1>4, GoesOnFair
<1>5. CASE Refuse(r) /\ g \in DOMAIN grants /\ grants[g].user = requests[r].who
  BY <1>2, <1>3, <1>5, RefusesFair
<1>6. CASE Refuse(r) /\ ~(g \in DOMAIN grants /\ grants[g].live)
  <2>1. PICK name, first : name = requests[r].route.guard /\ first = GuardOf(name).first
    OBVIOUS
  <2>2. name \in {"OrganizationPermissionsGuard", "ConventionPermissionsGuard"}
    BY <1>1, <1>3, <2>1, AccessAssumption DEF AccessInv, Knows, WellFormed, Changes
  <2>3. name \in Guards
    BY <2>2 DEF Guards
  <2>4. first \in {"orgGrant", "conGrant"}
    BY <2>1, <2>2, <2>3, GuardsSay DEF GuardSays
  <2>5. PICK req, c : req = requests[r] /\ c = ConventionNamed(req)
    OBVIOUS
  <2>6. /\ req.route.thing = Reads(req.route.guard)
        /\ req.route.number = g /\ req.route.id = g
        /\ first = GuardOf(req.route.guard).first /\ req.pc = "ownGrant"
    BY <1>1, <1>2, <2>1, <2>5 DEF WellRead, Misread
  <2>7. ~Row("con", g) /\ ~Row("org", g)
    BY <1>6 DEF Row
  <2>8. first = "conGrant" => c = 0
    BY <2>5, <2>6, <2>7 DEF ConventionNamed, Reads
  <2>9. OrganizationNamed(requests[r]) = 0
    BY <2>4, <2>8, <2>5, <2>6, <2>7, NamedBy, ZeroIsNone
  <2>10. InFlight(r)
    BY <1>1 DEF InFlight
  <2>11. always[r] \subseteq Ways(requests[r], 0)
    BY <2>9, <2>10, NamedIsHome, AlwaysNow
  <2>12. Ways(requests[r], 0) \subseteq {"organization"}
    BY <2>1, <2>3, <2>4, WaysPossible DEF Kinds
  <2>13. OrganizationRoles(0, requests[r].who) = {}
    BY ZeroIsNone, NoOrganization
  <2>14. ~(Rank({}) >= LeastInOrganization(name))
    BY <2>1, <2>3, <2>4, PassesInOrganization
  <2>15. "organization" \notin Ways(requests[r], 0)
    BY <2>1, <2>13, <2>14, WaysAre
  <2>16. QED
    BY <1>6, <2>11, <2>12, <2>15, RefusesFair
<1>7. QED
  BY <1>2, <1>4, <1>5, <1>6 DEF ReadOwnGrant

-----------------------------------------------------------------------------
(* Sign-in and the handlers.                                                *)

\* A request that has not come to its guard.
LEMMA QuietFair ==
    ASSUME FairInv, Watch, NEW r \in Requests,
           requests'[r].pc \in {"find", "count", "create", "promote"}
    PROVE  Fair(r)'
  BY FollowedAlways DEF Fair, Placed, Granted, Left, Guarding

LEMMA AuthenticatedIs ==
    ASSUME AccessInv, NEW r \in Requests, NEW super \in BOOLEAN, Authenticated(r, super)
    PROVE  /\ requests'[r].pc = IF super /\ requests[r].route.guard \notin Unbypassed
                                THEN Handler(r)
                                ELSE GuardOf(requests[r].route.guard).first
           /\ requests'[r].org = IF requests[r].route.org # 0 THEN requests[r].route.org
                                 ELSE requests[r].route.id
           /\ requests'[r].route = requests[r].route
           /\ requests'[r].super = super
<1>1. requests \in [Requests -> Request] /\ requests[r] \in Request
  BY DEF AccessInv, TypeOK
<1>2. PICK pc, org : /\ pc = IF super /\ requests[r].route.guard \notin Unbypassed
                             THEN Handler(r)
                             ELSE GuardOf(requests[r].route.guard).first
                     /\ org = IF requests[r].route.org # 0 THEN requests[r].route.org
                              ELSE requests[r].route.id
  OBVIOUS
<1>3. requests'[r] = [requests[r] EXCEPT !.super = super, !.pc = pc, !.org = org]
  BY <1>1, <1>2 DEF Authenticated, Request
<1>4. /\ requests'[r].super = super /\ requests'[r].pc = pc /\ requests'[r].org = org
      /\ requests'[r].route = requests[r].route
  BY <1>1, <1>3 DEF Request
<1>5. QED
  BY <1>2, <1>4

\* The route stays that of the request until it is answered.
LEMMA RouteStays ==
    ASSUME AccessInv, NEW r \in Requests,
           Authenticate(r) \/ Guard(r) \/ Handle(r) \/ Fail(r)
    PROVE  requests'[r].route = requests[r].route \/ requests'[r].pc = "idle"
<1>1. requests \in [Requests -> Request] /\ requests[r] \in Request
  BY DEF AccessInv, TypeOK
<1>2. ASSUME Answer(r) \/ Passed(r) \/ Refuse(r) \/ \E pc : Go(r, pc)
      PROVE  requests'[r].route = requests[r].route \/ requests'[r].pc = "idle"
  BY <1>2, StepOf DEF Passed, Refuse
<1>3. ASSUME NEW super \in BOOLEAN, Authenticated(r, super)
      PROVE  requests'[r].route = requests[r].route
  BY <1>3, AuthenticatedIs
<1>4. CASE Authenticate(r)
  <2>1. CASE FindUser(r)
    <3>1. PICK super \in BOOLEAN : super = (users[requests[r].who] = "superAdmin")
      OBVIOUS
    <3>2. QED
      BY <1>2, <1>3, <2>1, <3>1 DEF FindUser
  <2>2. CASE CountUsers(r)
    BY <1>1, <2>2 DEF CountUsers, Request
  <2>3. CASE CreateUser(r) \/ Promote(r)
    BY <1>2, <1>3, <2>3 DEF CreateUser, Promote
  <2>4. QED
    BY <1>4, <2>1, <2>2, <2>3 DEF Authenticate
<1>5. CASE Guard(r)
  <2>1. CASE ReadOrganizationGrant(r) \/ ReadGrantConvention(r) \/ ReadItem(r)
             \/ ReadCollection(r) \/ ReadConvention(r) \/ ReadAlsoItem(r)
    <3>1. \/ Passed(r) \/ Refuse(r) \/ \E pc : Go(r, pc)
          \/ \E pc, org : requests' = [requests EXCEPT ![r].pc = pc, ![r].org = org]
      BY <2>1 DEF ReadOrganizationGrant, ReadGrantConvention, ReadItem, ReadCollection,
                  ReadConvention, ReadAlsoItem
    <3>2. ASSUME NEW pc, NEW org, requests' = [requests EXCEPT ![r].pc = pc, ![r].org = org]
          PROVE  requests'[r].route = requests[r].route
      BY <1>1, <3>2 DEF Request
    <3>3. QED
      BY <1>2, <3>1, <3>2
  <2>2. CASE CheckSuper(r) \/ CheckSelf(r) \/ ReadConventionGrant(r) \/ ReadConventions(r)
             \/ ReadAttendee(r) \/ ReadOrganization(r) \/ ReadOwnGrant(r)
             \/ ReadAlsoOrganization(r)
    BY <1>2, <2>2 DEF CheckSuper, CheckSelf, ReadConventionGrant, ReadConventions, ReadAttendee,
                      ReadOrganization, ReadOwnGrant, ReadAlsoOrganization
  <2>3. QED
    BY <1>5, <2>1, <2>2 DEF Guard
<1>6. CASE Handle(r) \/ Fail(r)
  BY <1>2, <1>6
     DEF Handle, UseRoute, UpdateAttendee, CreateOrganization, CreateConvention,
         UpdateConvention, ReadAccount, CreateAccount, CreateGrant, UpdateGrant, DeleteGrant,
         Fail
<1>7. QED
  BY <1>4, <1>5, <1>6

\* The ways that are possible after a step.
LEMMA WaysPossibleNext ==
    ASSUME NEW r \in Requests, NEW o, NEW name \in Guards, requests'[r].route.guard = name,
           NEW first, first = GuardOf(name).first
    PROVE  Ways(requests[r], o)' \subseteq Kinds(first)
<1>1. GuardSays(name) /\ GuardRanks(name)
  BY GuardsSay, GuardsRank
<1>2. PICK mine : mine = OrganizationRoles(o, requests[r].who)'
  OBVIOUS
<1>3. PICK there : there = ConventionRoles(ConventionNamed(requests[r]), requests[r].who)'
  OBVIOUS
<1>4. /\ Ways(requests[r], o)' \subseteq {"organization", "convention", "sight", "self"}
      /\ "organization" \in Ways(requests[r], o)' => Rank(mine) >= LeastInOrganization(name)
      /\ "convention" \in Ways(requests[r], o)' => Rank(there) >= LeastInConvention(name)
      /\ "sight" \in Ways(requests[r], o)' => name = "CollectionReadGuard"
      /\ "self" \in Ways(requests[r], o)' =>
            name \in {"UserGuard", "UserSelfGuard", "AttendeeGuard"}
  BY <1>2, <1>3 DEF Ways
<1>5. Rank(mine) \in 0 .. 4 /\ Rank(there) \in 0 .. 4
  BY RankIs
<1>6. /\ "organization" \in Ways(requests[r], o)' => first \notin {"super", "self"}
      /\ "convention" \in Ways(requests[r], o)' => first \in {"con", "attendee"}
  BY <1>1, <1>4, <1>5 DEF GuardRanks
<1>7. /\ "sight" \in Ways(requests[r], o)' => first = "collection"
      /\ "self" \in Ways(requests[r], o)' => first \in {"self", "attendee"}
  BY <1>1, <1>4 DEF GuardSays
<1>8. QED
  BY <1>4, <1>6, <1>7 DEF Kinds

LEMMA AuthenticatedFair ==
    ASSUME AccessInv, FairInv, Watch, NEW r \in Requests, WellRead(r),
           requests[r].pc # "idle", NEW super \in BOOLEAN, Authenticated(r, super)
    PROVE  Fair(r)'
<1>1. PICK name, first, route : /\ route = requests[r].route /\ name = route.guard
                                /\ first = GuardOf(name).first
  OBVIOUS
<1>2. name \in Guards /\ WellFormed(route)
  BY <1>1, AccessAssumption DEF AccessInv, Knows, AnyRoute
<1>3. GuardSays(name) /\ first \in FirstReads
  BY <1>1, <1>2, GuardsSay DEF GuardSays
<1>4. /\ requests'[r].pc = IF super /\ name \notin Unbypassed THEN Handler(r) ELSE first
      /\ requests'[r].org = IF route.org # 0 THEN route.org ELSE route.id
      /\ requests'[r].route = route /\ requests'[r].super = super
  BY <1>1, AuthenticatedIs
<1>5. CASE super /\ name \notin Unbypassed
  <2>1. requests'[r].pc \in {"act", "account"} /\ requests'[r].super
    BY <1>4, <1>5 DEF Handler, WellRead, Misread
  <2>2. QED
    BY <2>1, FollowedAlways DEF Fair, Placed, Granted, Left, Guarding
<1>6. CASE ~(super /\ name \notin Unbypassed)
  <2>1. requests'[r].pc = first /\ first \in Stages(first)
    BY <1>3, <1>4, <1>6 DEF Stages, FirstReads
  <2>2. /\ first = "org" => requests'[r].org = route.id
        /\ Tied(name) => requests'[r].org = route.org
    BY <1>1, <1>2, <1>3, <1>4 DEF WellFormed, GuardSays
  <2>3. Placed(requests[r])'
    BY <1>1, <1>3, <1>4, <2>1, <2>2 DEF Placed, FirstReads
  <2>4. /\ OrganizationNamed(requests[r])' \in homes'[r]
        /\ always'[r] \subseteq WaysOf(r)'
        /\ InFlight(r)'
    BY <1>3, <2>1, WatchSays DEF FairInv, InFlight, FirstReads
  <2>5. PICK o : o = OrganizationNamed(requests[r])'
    OBVIOUS
  <2>6. Ways(requests[r], o)' \subseteq Kinds(first)
    BY <1>1, <1>2, <1>4, WaysPossibleNext
  <2>7. WaysOf(r)' \subseteq Ways(requests[r], o)'
    BY <2>4, <2>5 DEF WaysOf
  <2>8. always'[r] \subseteq Kinds(first)
    BY <2>4, <2>6, <2>7
  <2>9. Left(r)'
    BY <1>3, <2>1, <2>8 DEF Left, Kinds, FirstReads
  <2>10. requests'[r].pc = "org" => requests'[r].org \in homes'[r]
    <3>1. route.thing = Reads(name) /\ route.number = route.id
      BY <1>1 DEF WellRead, Misread
    <3>2. first = "org" => route.thing = "org"
      BY <1>1, <3>1 DEF Reads
    <3>3. first = "org" => OrganizationNamed(requests[r])' = route.id
      BY <1>4, <3>1, <3>2 DEF OrganizationNamed
    <3>4. QED
      BY <2>1, <2>2, <2>4, <3>3
  <2>11. Granted(r)'
    BY <1>3, <2>1, <2>10 DEF Granted, FirstReads
  <2>12. QED
    BY <2>3, <2>9, <2>11, FollowedAlways DEF Fair
<1>7. QED
  BY <1>5, <1>6

LEMMA AuthenticateFair ==
    ASSUME AccessInv, FairInv, Watch, NEW r \in Requests, WellRead(r), Authenticate(r)
    PROVE  Fair(r)'
<1>1. requests \in [Requests -> Request]
  BY DEF AccessInv, TypeOK
<1>2. CASE FindUser(r)
  <2>1. PICK super \in BOOLEAN : super = (users[requests[r].who] = "superAdmin")
    OBVIOUS
  <2>2. Authenticated(r, super) \/ Go(r, "count")
    BY <1>2, <2>1 DEF FindUser
  <2>3. requests[r].pc # "idle"
    BY <1>2 DEF FindUser
  <2>4. Go(r, "count") => requests'[r].pc = "count"
    BY StepOf
  <2>5. QED
    BY <2>2, <2>3, <2>4, AuthenticatedFair, QuietFair
<1>3. CASE CountUsers(r)
  <2>1. requests'[r].pc = "create"
    BY <1>1, <1>3 DEF CountUsers, Request
  <2>2. QED
    BY <2>1, QuietFair
<1>4. CASE CreateUser(r)
  <2>1. Answer(r) \/ Go(r, "promote") \/ Authenticated(r, FALSE)
    BY <1>4 DEF CreateUser
  <2>2. requests[r].pc # "idle"
    BY <1>4 DEF CreateUser
  <2>3. Go(r, "promote") => requests'[r].pc = "promote"
    BY StepOf
  <2>4. QED
    BY <2>1, <2>2, <2>3, AuthenticatedFair, QuietFair, AnswersFair
<1>5. CASE Promote(r)
  BY <1>5, AuthenticatedFair DEF Promote
<1>6. QED
  BY <1>2, <1>3, <1>4, <1>5 DEF Authenticate

\* The guard of a route whose row it looks up is the only one.
LEMMA GuardFair ==
    ASSUME AccessInv, FairInv, Watch, RowsKept, NEW r \in Requests, WellRead(r), Guard(r)
    PROVE  Fair(r)'
<1>1. requests[r].pc \notin {"alsoItem", "alsoOrg"}
  BY DEF AccessInv, Knows, WellRead, Misread
<1>2. ~ReadAlsoItem(r) /\ ~ReadAlsoOrganization(r)
  BY <1>1 DEF ReadAlsoItem, ReadAlsoOrganization
<1>3. QED
  BY <1>2, CheckSuperFair, CheckSelfFair, ReadOrganizationGrantFair, ReadConventionGrantFair,
     ReadGrantConventionFair, ReadItemFair, ReadCollectionFair, ReadConventionsFair,
     ReadAttendeeFair, ReadConventionFair, ReadOrganizationFair, ReadOwnGrantFair DEF Guard

LEMMA HandleFair ==
    ASSUME AccessInv, FairInv, Watch, NEW r \in Requests, WellRead(r), Handle(r)
    PROVE  Fair(r)'
<1>1. CASE ReadAccount(r)
  <2>1. PICK pc \in {"act", "newAccount"} : Go(r, pc)
    BY <1>1 DEF ReadAccount
  <2>2. QED
    BY <1>1, <2>1, GoesOnFair DEF ReadAccount
<1>2. CASE CreateAccount(r)
  <2>1. requests[r].pc = "newAccount" /\ (Answer(r) \/ Go(r, "act"))
    BY <1>2 DEF CreateAccount
  <2>2. QED
    BY <2>1, GoesOnFair, AnswersFair
<1>3. CASE Answer(r)
  BY <1>3, AnswersFair
<1>4. QED
  BY <1>1, <1>2, <1>3
     DEF Handle, UseRoute, UpdateAttendee, CreateOrganization, CreateConvention, UpdateConvention,
         CreateGrant,
         UpdateGrant, DeleteGrant

LEMMA FairNext == AccessInv /\ FairInv /\ [Next]_vars => FairInv'
<1> SUFFICES ASSUME AccessInv, FairInv, [Next]_vars PROVE FairInv'
  OBVIOUS
<1>1. CASE UNCHANGED vars
  <2>1. ASSUME NEW r \in Requests, WellRead(r)'
        PROVE  Placed(requests[r])' /\ Granted(r)' /\ Left(r)'
    <3>1. WellRead(r)
      BY <1>1, <2>1 DEF vars, WellRead
    <3>2. Placed(requests[r]) /\ Granted(r) /\ Left(r)
      BY <3>1 DEF FairInv, Fair
    <3>3. QED
      BY <1>1, <3>2 DEF vars, tables, Placed, Granted, Left, Changes
  <2>2. \A r \in Requests : Followed(r)'
    <3> SUFFICES ASSUME NEW r \in Requests PROVE Followed(r)'
      OBVIOUS
    <3>1. Followed(r)
      BY DEF FairInv, Fair
    <3>2. /\ \A table, n, p : RolesIn(table, n, p)' = RolesIn(table, n, p)
          /\ \A n : ItemOrganization(n)' = ItemOrganization(n)
          /\ ConventionNamed(requests[r])' = ConventionNamed(requests[r])
          /\ OrganizationNamed(requests[r])' = OrganizationNamed(requests[r])
      BY <1>1 DEF vars, tables, RolesIn, ItemOrganization, ConventionNamed,
                  OrganizationNamed, Row
    <3>3. /\ \A o, p : OrganizationRoles(o, p)' = OrganizationRoles(o, p)
          /\ \A c, p : ConventionRoles(c, p)' = ConventionRoles(c, p)
          /\ \A p, o : Sees(p, o)' <=> Sees(p, o)
      BY <1>1, <3>2 DEF vars, tables, OrganizationRoles, ConventionRoles, Sees
    <3>4. \A o : Ways(requests[r], o)' = Ways(requests[r], o)
      BY <1>1, <3>2, <3>3 DEF vars, tables, Ways
    <3>5. (InFlight(r)' <=> InFlight(r)) /\ homes' = homes /\ ever' = ever /\ always' = always
      BY <1>1 DEF vars, InFlight
    <3>6. (Entitled(r)' <=> Entitled(r)) /\ WaysOf(r)' = WaysOf(r)
      BY <3>4, <3>5 DEF Entitled, WaysOf
    <3>7. QED
      BY <3>1, <3>2, <3>5, <3>6 DEF Followed
  <2>3. QED
    BY <1>1, <2>1, <2>2 DEF FairInv, Fair, vars
<1>2. ASSUME NEW r \in Requests,
             Receive(r) \/ Authenticate(r) \/ Guard(r) \/ Handle(r) \/ Fail(r)
      PROVE  FairInv'
  <2>1. Watch /\ RowsKept
    BY <1>2, StepIsWatched, RowsStay
  <2>2. Fair(r)'
    <3>1. CASE Receive(r)
      <4>1. requests \in [Requests -> Request]
        BY DEF AccessInv, TypeOK
      <4>2. requests'[r].pc = "find"
        BY <3>1, <4>1 DEF Receive, Idle
      <4>3. QED
        BY <2>1, <4>2, QuietFair
    <3>2. CASE Fail(r)
      BY <2>1, <3>2, AnswersFair DEF Fail
    <3>3. CASE ~Receive(r) /\ ~Fail(r) /\ WellRead(r)
      BY <1>2, <2>1, <3>3, AuthenticateFair, GuardFair, HandleFair
    <3>4. CASE ~Receive(r) /\ ~WellRead(r)
      <4>1. requests'[r].route = requests[r].route \/ requests'[r].pc = "idle"
        BY <1>2, <3>4, RouteStays
      <4>2. requests'[r].pc = "idle" => Fair(r)'
        BY <2>1, FollowedAlways DEF Fair, Placed, Granted, Left, Guarding
      <4>3. QED
        BY <2>1, <3>4, <4>1, <4>2, MisreadFair
    <3>5. QED
      BY <3>1, <3>2, <3>3, <3>4
  <2>3. \A s \in Requests : s # r => Fair(s)'
    BY <1>2, <2>1, OthersStay, OthersFair
  <2>4. ever' \in [Requests -> BOOLEAN]
    BY <2>1, WatchSays DEF FairInv
  <2>5. QED
    BY <2>2, <2>3, <2>4 DEF FairInv
<1>3. QED
  BY <1>1, <1>2 DEF Next

\* The history of every request in flight follows the row that its handler works
\* on, and wherever the guard looks up that row, the history is true to what the
\* guard has read.
THEOREM FairInvariance == Spec => []FairInv
<1>1. Init => FairInv
  <2> SUFFICES ASSUME Init PROVE FairInv
    OBVIOUS
  <2>1. ever = [r \in Requests |-> FALSE]
    BY Zenon DEF Init
  <2>2. \A r \in Requests : requests[r].pc = "idle"
    BY DEF Init, Idle
  <2>3. QED
    BY <2>1, <2>2 DEF FairInv, Fair, Placed, Followed, Granted, Left, InFlight, Guarding
<1>2. AccessInv /\ FairInv /\ [Next]_vars => FairInv'
  BY FairNext
<1>3. QED
  BY <1>1, <1>2, AccessInvariance, PTL DEF Spec

\* Behind a guard that looks up the row its handler works on, no handler runs for
\* a caller who has never had, since the request arrived, the role that the
\* documentation of the guard asks for, in the organization or convention of that
\* row, however permissions are granted, changed and deleted and conventions
\* moved between the guard's reads; but a super admin's.
THEOREM NobodyActsWithoutRole == Spec => []ActsWithinRoles
<1>1. FairInv => ActsWithinRoles
  BY DEF FairInv, Fair, Granted, WellRead, ActsWithinRoles, RunsWithinRoles
<1>2. QED
  BY <1>1, FairInvariance, PTL

\* Such a guard refuses no caller who has had the role, in the organization or
\* convention of the row, all through the request, but a change of the caller's
\* own row.
THEOREM NobodyRefusedWithRole == Spec => []RefusedOnlyWithoutRole
<1>1. FairInv => RefusedOnlyWithoutRole
  BY DEF FairInv, Fair, Left, WellRead, RefusedOnlyWithoutRole
<1>2. QED
  BY <1>1, FairInvariance, PTL
=============================================================================
