--------------------------- MODULE BookMembership ---------------------------
(***************************************************************************)
(* What ledger.Service promises about books and their members when one     *)
(* request runs at a time: every action is one whole successful service    *)
(* call.  A call that is refused changes nothing.                          *)
(*                                                                         *)
(* BookRequests models the same calls as the sequences of store calls they *)
(* really are, and is shown to implement this module when a single handler *)
(* runs.                                                                   *)
(***************************************************************************)
EXTENDS BookRoles

VARIABLES book,       \* Store.Book: id -> book record
          member      \* Store.BookMembers: id -> membership table

vars == <<book, member>>

TypeOK == /\ book \in [Books -> BookRecord \cup {NoBook}]
          /\ member \in [Books -> Membership]

Init == /\ book = [b \in Books |-> NoBook]
        /\ member = [b \in Books |-> [u \in Users |-> None]]

\* authorizeBookMember followed by the role test.
Authorized(b, actor) == book[b] # NoBook /\ IsManager(member[b][actor])

CreateBook(b, actor, settings) ==
    /\ book[b] = NoBook
    /\ book' = [book EXCEPT ![b] = [owner |-> actor, settings |-> settings]]
    /\ member' = [member EXCEPT ![b] = [u \in Users |-> IF u = actor THEN "owner" ELSE None]]

UpdateBook(b, actor, patch) ==
    /\ Authorized(b, actor)
    /\ book' = [book EXCEPT ![b] = [owner |-> book[b].owner,
                                     settings |-> Patched(book[b].settings, patch)]]
    /\ UNCHANGED member

AddBookMember(b, actor, user, role) ==
    /\ Authorized(b, actor)
    /\ IsAssignableNewMemberRole(role)
    /\ member[b][user] = None
    /\ member' = [member EXCEPT ![b][user] = role]
    /\ UNCHANGED book

\* reconcilePrimaryOwner after a role change, reading the members as they
\* were before it.
ReconciledOwner(owner, members, user, role) ==
    IF role = "owner" THEN user
    ELSE IF members[user] = "owner" /\ owner = user THEN FirstOtherOwner(members, user)
    ELSE owner

\* The same decision when the member is removed.
OwnerAfterRemoval(owner, members, user) ==
    IF members[user] = "owner" /\ owner = user THEN FirstOtherOwner(members, user) ELSE owner

WithOwner(record, owner) == [owner |-> owner, settings |-> record.settings]

MayTakeRole(members, user, role) ==
    /\ IsSupportedMemberRole(role)
    /\ members[user] # None
    /\ ~(role # "owner" /\ IsSoleOwner(members, user))

UpdateBookMemberRole(b, actor, user, role) ==
    /\ Authorized(b, actor)
    /\ MayTakeRole(member[b], user, role)
    /\ member' = [member EXCEPT ![b][user] = role]
    /\ book' = [book EXCEPT ![b] = WithOwner(book[b],
                                   ReconciledOwner(book[b].owner, member[b], user, role))]

RemoveBookMember(b, actor, user) ==
    /\ Authorized(b, actor)
    /\ member[b][user] # None
    /\ ~IsSoleOwner(member[b], user)
    /\ member' = [member EXCEPT ![b][user] = None]
    /\ book' = [book EXCEPT ![b] = WithOwner(book[b],
                                   OwnerAfterRemoval(book[b].owner, member[b], user))]

Next ==
    \E b \in Books, actor \in Users :
       \/ \E s \in Settings : CreateBook(b, actor, s)
       \/ \E p \in Patches : UpdateBook(b, actor, p)
       \/ \E user \in Users :
             \/ \E role \in RequestedRoles : \/ AddBookMember(b, actor, user, role)
                                             \/ UpdateBookMemberRole(b, actor, user, role)
             \/ RemoveBookMember(b, actor, user)

Spec == Init /\ [][Next]_vars

-----------------------------------------------------------------------------
\* Book.OwnerUserID always names a member whose role is owner, so every book
\* keeps at least one owner whatever sequence of promotions, demotions and
\* removals is accepted (UpdateBookMemberRole, RemoveBookMember,
\* reconcilePrimaryOwner).
PrimaryOwnerIsOwner ==
    \A b \in Books : book[b] # NoBook => member[b][book[b].owner] = "owner"

\* A user who becomes an owner of an existing book becomes its primary owner
\* in the same call, and nobody becomes primary owner without being an owner
\* before or by that call (reconcilePrimaryOwner, RemoveBookMember).
PromotionMakesPrimary ==
    [][\A b \in Books : book[b] # NoBook =>
          /\ \A u \in Users : member[b][u] # "owner" /\ member'[b][u] = "owner"
                                 => book'[b].owner = u
          /\ book'[b].owner # book[b].owner => member'[b][book'[b].owner] = "owner"]_vars
=============================================================================
