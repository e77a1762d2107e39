----------------------------- MODULE BookRoles -----------------------------
(***************************************************************************)
(* The records of a book and its members, and the pure decisions books.go  *)
(* takes about them.  A membership table is a function from user ids to a  *)
(* role, with "none" for a user who has no BookMember row.                 *)
(***************************************************************************)
EXTENDS Naturals

CONSTANTS Users,      \* user ids; the stores sort member rows by user id
          PlainRoles, \* the roles that manage nothing: "member", "viewer"
          Books,      \* ids a new book may receive (uuid.NewString)
          Fields,     \* the settings PATCH /books/{id} may change
          Values,     \* the values a setting takes
          NoBook,     \* no row stored under the id yet
          Keep        \* a nil field of UpdateBookRequest

\* User ids are ordered strings in the code; here each is its rank, and any
\* non-empty collection of them has a first one.
ASSUME UsersAssumption ==
    /\ Users \subseteq Nat
    /\ \A S \in SUBSET Users : S # {} => \E u \in S : \A v \in S : u <= v

\* Book management does not tell "member" from "viewer"; a small instance may
\* leave one of them out.
ASSUME PlainRolesAssumption == PlainRoles \subseteq {"member", "viewer"}

Roles == {"owner", "administrator"} \cup PlainRoles
None == "none"
RequestedRoles == Roles \cup {"unsupported"}   \* what a client may send
Membership == [Users -> Roles \cup {None}]

\* The role test repeated at the head of every managing operation.
IsManager(role) == role \in {"owner", "administrator"}

IsSupportedMemberRole(role) == role \in Roles

\* isAssignableNewMemberRole: AddBookMember never hands out "owner".
IsAssignableNewMemberRole(role) == role \in Roles \ {"owner"}

OwnersOf(members) == {u \in Users : members[u] = "owner"}

\* "cannot demote/remove the sole owner": the target is an owner and
\* ownerCount(members) <= 1.
IsSoleOwner(members, target) == OwnersOf(members) = {target}

\* firstOtherOwner: the first owner other than the excluded user, in user id
\* order (every BookMembers implementation sorts by user id).  When there is
\* none the callers return an error and leave the primary owner alone, so the
\* answer is then the excluded user itself.
FirstOtherOwner(members, excluded) ==
    LET others == OwnersOf(members) \ {excluded}
    IN  IF others = {} THEN excluded ELSE CHOOSE u \in others : \A v \in others : u <= v

-----------------------------------------------------------------------------
ASSUME KeepAssumption == Keep \notin Values

Settings == [Fields -> Values]
BookRecord == [owner: Users, settings: Settings]

ASSUME NoBookAssumption == NoBook \notin BookRecord

\* validateUpdateBookRequest: at least one field is present.
Patches == {p \in [Fields -> Values \cup {Keep}] : \E f \in Fields : p[f] # Keep}
Patched(settings, patch) ==
    [f \in Fields |-> IF patch[f] = Keep THEN settings[f] ELSE patch[f]]
=============================================================================
