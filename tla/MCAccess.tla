------------------------------ MODULE MCAccess ------------------------------
(* Two organizations and one convention, which belongs to the second, as    *)
(* does the collection that is attached to it; the second collection is the *)
(* first organization's: no number leads where the same number of another   *)
(* table does.  The system starts empty, or established with four           *)
(* permissions.                                                             *)
EXTENDS Access, TLC

CONSTANTS r1, r2, ann, bob, cat

Permission(table, p, n, role) ==
    [table |-> table, user |-> p, of |-> n, role |-> role, live |-> TRUE]

Empty == [users |-> [p \in People |-> "none"], owners |-> <<>>, conventions |-> <<>>,
          grants |-> <<>>]

Established ==
    [users |-> (ann :> "superAdmin") @@ (bob :> "user") @@ (cat :> "user"),
     owners |-> <<ann, ann>>,
     conventions |-> <<2>>,
     grants |-> <<Permission("org", bob, 1, "admin"), Permission("org", bob, 2, "geekGuide"),
                  Permission("org", cat, 2, "admin"), Permission("con", bob, 1, "basic")>>]

Symmetric == Permutations(Requests)

MCStarts == {Empty, Established}

MCItems == <<2, 1>>

MCAttachments == {<<1, 1>>}

MCRoutes ==
    {Use(guard, 1) : guard \in {"OrganizationReadGuard", "ConventionReadGuard",
                                "ConventionWriteGuard"}}
    \cup {Use("OrganizationReadGuard", 2), Use("CollectionReadGuard", 1)}
    \cup {Use(guard, 2) : guard \in {"ConventionTypeGuard", "CopyGuard"}}
    \cup {GetConventionTypes(1), ExportPlays(1), UseCollectionOf(1, 2)}
    \cup {UseOf("AttendeeGuard", n, cat) : n \in 1..2}
    \cup {PutAttendee(1, cat)}
    \cup {UseOf("UserSelfGuard", 0, cat)}
    \cup {UseInOrganization("CheckOutGuard", o, 1) : o \in 1..2}
    \cup {UseInOrganization("PrizeEntryGuard", 2, 1)}
    \cup {PostOrganization, PostConvention(1), PutConvention(1, 1)}
    \cup {PostOrganizationPermission(2, bob, "admin"),
          PostConventionPermission(1, cat, "geekGuide"),
          PutOrganizationPermission(2, "none"), PutOrganizationPermission(3, "basic"),
          PutConventionPermission(4, "admin"),
          DeleteOrganizationPermission(1), DeleteOrganizationPermission(2),
          DeleteConventionPermission(4),
          AddUserToOrganization(1, cat, "basic"), AddUserToConvention(1, cat, "admin")}
=============================================================================
