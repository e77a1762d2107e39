---------------------------- MODULE BookRequests ----------------------------
(***************************************************************************)
(* Book and membership requests as the HTTP handlers run them: each is a   *)
(* goroutine whose ledger.Service call is a sequence of store calls.  The  *)
(* store makes each call atomic (MemoryStore.mu, SnapshotStore.mu, one SQL *)
(* statement), but nothing is held between two calls, so other handlers    *)
(* interleave there and a handler acts on rows it read earlier.            *)
(*                                                                         *)
(* A slot r of Reqs is a goroutine; req[r] is what it is doing and the     *)
(* part of what it has read that later steps still use.                    *)
(***************************************************************************)
EXTENDS BookRoles

CONSTANTS Reqs,       \* handler goroutines that may run at the same time
          Driver      \* "memory", "file" or "sql": the configured store

VARIABLES book, member,
          req,        \* what every handler is doing
          raced,      \* history: books where a member write demoted or removed
                      \* a user while another such request was between its
                      \* owner check and its own write
          overtaken,  \* history: requests whose copy of the book is older than
                      \* another's write of a member row or the primary owner
          drifted     \* history: books to which such a request wrote, or of
                      \* which a call wrote the member row and not the book

drift == <<overtaken, drifted>>
vars == <<book, member, req, raced, drift>>

\* The whole calls, with the book as it will be once a role change or a
\* removal that has written its member row has also written the book.
Pending(b) == {r \in Reqs : /\ req[r].pc = "writeBook" /\ req[r].bookID = b
                            /\ req[r].op \in {"role", "remove"}}
Settled == [b \in Books |-> IF Pending(b) # {} THEN req[CHOOSE r \in Pending(b) : TRUE].copy
                            ELSE book[b]]
Calls == INSTANCE BookMembership WITH book <- Settled

ASSUME DriverAssumption == Driver \in {"memory", "file", "sql"}
ASSUME NonEmptyAssumption == Users # {} /\ Books # {}

Ops == {"settings", "add", "role", "remove"}
PCs == {"idle", "authMember", "authBook", "existing", "create", "members",
        "writeMember", "deleteMember", "deleteRow", "writeBook"}
NoPatch == [f \in Fields |-> Keep]

Request == [pc: PCs, op: Ops, bookID: Books, actor: Users, user: Users,
            role: RequestedRoles, patch: [Fields -> Values \cup {Keep}],
            seen: Roles \cup {None},          \* role read for the actor or target
            heir: Users,                      \* firstOtherOwner of the rows read
            copy: BookRecord \cup {NoBook}]   \* the book read by authorizeBookMember

TypeOK == /\ book \in [Books -> BookRecord \cup {NoBook}]
          /\ member \in [Books -> Membership]
          /\ req \in [Reqs -> Request]
          /\ raced \subseteq Books /\ drifted \subseteq Books
          /\ overtaken \subseteq Reqs

AnyUser == CHOOSE u \in Users : TRUE
AnyBook == CHOOSE b \in Books : TRUE

\* A request as it arrives, and a slot that runs nothing.
Arrival(pc, op, b, actor, user, role, patch) ==
    [pc |-> pc, op |-> op, bookID |-> b, actor |-> actor, user |-> user, role |-> role,
     patch |-> patch, seen |-> None, heir |-> AnyUser, copy |-> NoBook]
Idle == Arrival("idle", "settings", AnyBook, AnyUser, AnyUser, "administrator", NoPatch)

\* Request q goes on at pc holding what it has read; the actor is not needed
\* after its membership has been read.
Holding(q, pc, seen, heir, copy) ==
    [pc |-> pc, op |-> q.op, bookID |-> q.bookID, actor |-> AnyUser, user |-> q.user,
     role |-> q.role, patch |-> q.patch, seen |-> seen, heir |-> heir, copy |-> copy]

Init == /\ book = [b \in Books |-> NoBook]
        /\ member = [b \in Books |-> [u \in Users |-> None]]
        /\ req = [r \in Reqs |-> Idle]
        /\ raced = {} /\ overtaken = {} /\ drifted = {}

Continue(r, q) == req' = [req EXCEPT ![r] = q]
Finish(r) == Continue(r, Idle)

\* The copies of the others are older than the write of r.
Overtake(r) == overtaken' = overtaken \cup {s \in Reqs \ {r} : /\ req[s].bookID = req[r].bookID
                                                               /\ req[s].copy # NoBook}
NoteDrift(r, lost) == drifted' = IF lost THEN drifted \cup {req[r].bookID} ELSE drifted

\* The handler after a store write that took effect: it goes on, unless the
\* store reports an error all the same.  SnapshotStore changes memory before
\* it persists and does not undo it; a SQL commit can be cut off by the
\* statement timeout.
AfterWrite(r, q) ==
    \/ Continue(r, q) /\ NoteDrift(r, r \in overtaken)
    \/ Driver # "memory" /\ Finish(r) /\ NoteDrift(r, r \in overtaken \/ q # Idle)

-----------------------------------------------------------------------------
\* Store.CreateBook writes the book and its owner row in one critical section
\* or transaction, and CreateBook reads nothing before it.
CreateBook(b, actor, settings) ==
    /\ book[b] = NoBook
    /\ book' = [book EXCEPT ![b] = [owner |-> actor, settings |-> settings]]
    /\ member' = [member EXCEPT ![b] = [u \in Users |-> IF u = actor THEN "owner" ELSE None]]
    /\ UNCHANGED <<req, raced, drift>>

\* A request for an existing book reaches its handler.
Receive(r, op, b, actor, user, role, patch) ==
    /\ req[r].pc = "idle"
    /\ book[b] # NoBook
    /\ Continue(r, Arrival("authMember", op, b, actor, user, role, patch))
    /\ UNCHANGED <<book, member, raced, drift>>

\* authorizeBookMember, first read: Store.Member.  Not a member: denied.
AuthMember(r) ==
    LET q == req[r]
        role == member[q.bookID][q.actor]
    IN
    /\ q.pc = "authMember"
    /\ Continue(r, IF role = None THEN Idle ELSE Holding(q, "authBook", role, q.heir, q.copy))
    /\ UNCHANGED <<book, member, raced, drift>>

AfterAuthorization(op) ==
    IF op = "settings" THEN "writeBook" ELSE IF op = "add" THEN "existing" ELSE "members"

\* Input checks of the call that do not read the store.
ValidRequest(q) ==
    /\ q.op = "add" => IsAssignableNewMemberRole(q.role)
    /\ q.op = "role" => IsSupportedMemberRole(q.role)

\* authorizeBookMember, second read: Store.Book; then the role test on the
\* member read before and the validation of the request.  UpdateBook patches
\* its copy of the book here.
AuthBook(r) ==
    LET q == req[r]
        b == book[q.bookID]
    IN
    /\ q.pc = "authBook"
    /\ Continue(r, IF ~IsManager(q.seen) \/ ~ValidRequest(q) THEN Idle
                   ELSE Holding(q, AfterAuthorization(q.op), None, q.heir,
                                [owner |-> b.owner, settings |-> Patched(b.settings, q.patch)]))
    /\ overtaken' = overtaken \ {r}
    /\ UNCHANGED <<book, member, raced, drifted>>

\* AddBookMember: an existing member is returned as it is.  A lookup that
\* fails for another reason is taken for "no such member".
LoadExisting(r) ==
    LET q == req[r] IN
    /\ q.pc = "existing"
    /\ \/ member[q.bookID][q.user] # None /\ Finish(r)
       \/ /\ member[q.bookID][q.user] = None \/ Driver = "sql"
          /\ Continue(r, Holding(q, "create", None, q.heir, NoBook))
    /\ UNCHANGED <<book, member, raced, drift>>

\* Store.CreateBookMember refuses a row that exists by now.
CreateMember(r) ==
    LET q == req[r] IN
    /\ q.pc = "create"
    /\ member' = IF member[q.bookID][q.user] # None THEN member
                 ELSE [member EXCEPT ![q.bookID][q.user] = q.role]
    /\ Finish(r)
    /\ UNCHANGED <<book, raced, drift>>

\* The target must be a member, and not the sole owner unless it stays owner.
OwnerCheckDropped(q, members) == members[q.user] # None
TargetAllowed(q, members) ==
    /\ members[q.user] # None
    /\ ~(IsSoleOwner(members, q.user) /\ (q.op = "remove" \/ q.role # "owner"))

\* UpdateBookMemberRole and RemoveBookMember read the member rows once; the
\* target's role and the other owner they may need come from these rows.
LoadMembers(r) ==
    LET q == req[r]
        members == member[q.bookID]
    IN
    /\ q.pc = "members"
    /\ Continue(r, IF ~TargetAllowed(q, members) THEN Idle
                   ELSE Holding(q, IF q.op = "role" THEN "writeMember" ELSE "deleteMember",
                                members[q.user], FirstOtherOwner(members, q.user), q.copy))
    /\ UNCHANGED <<book, member, raced, drift>>

\* Request q can take the owner role away from its target.
Demotes(q) == q.op = "remove" \/ (q.op = "role" /\ q.role # "owner")

\* Request q has passed its owner check and not yet written the member row.
Checked(q) == q.pc \in {"writeMember", "deleteMember", "deleteRow"}

NoteRace(r) ==
    raced' = IF Demotes(req[r]) /\ \E s \in Reqs \ {r} : /\ req[s].bookID = req[r].bookID
                                                         /\ Checked(req[s]) /\ Demotes(req[s])
             THEN raced \cup {req[r].bookID} ELSE raced

\* The primary owner a finished member write asks for, from the rows read
\* before it: reconcilePrimaryOwner, and the same decision in RemoveBookMember.
\* The caller's own user id means "leave it" (no other owner was read: the
\* call fails after the member write).
PrimaryNotReconciled(q) == IF q.op = "role" /\ q.role = "owner" THEN q.user ELSE q.copy.owner
NewPrimary(q) ==
    IF q.op = "role" /\ q.role = "owner" THEN q.user
    ELSE IF q.seen = "owner" /\ q.copy.owner = q.user THEN q.heir
    ELSE q.copy.owner

\* After the member row: write the book when its primary owner changes.
ReconcilePrimaryOwner(q) ==
    IF NewPrimary(q) = q.copy.owner THEN Idle
    ELSE Holding(q, "writeBook", None, AnyUser,
                 [owner |-> NewPrimary(q), settings |-> q.copy.settings])

\* Store.UpdateBookMember replaces the row, if there still is one.
WriteMember(r) ==
    LET q == req[r] IN
    /\ q.pc = "writeMember"
    /\ IF member[q.bookID][q.user] = None
       THEN Finish(r) /\ UNCHANGED <<member, raced, drift>>
       ELSE /\ member' = [member EXCEPT ![q.bookID][q.user] = q.role]
            /\ NoteRace(r) /\ Overtake(r)
            /\ AfterWrite(r, ReconcilePrimaryOwner(q))
    /\ UNCHANGED book

\* Store.DeleteBookMember.  SQLStore looks the row up and deletes it in two
\* statements.
DeleteMember(r) ==
    LET q == req[r] IN
    /\ q.pc = "deleteMember"
    /\ \/ /\ member[q.bookID][q.user] = None
          /\ Finish(r)
          /\ UNCHANGED <<member, raced, drift>>
       \/ /\ member[q.bookID][q.user] # None /\ Driver = "sql"
          /\ Continue(r, Holding(q, "deleteRow", q.seen, q.heir, q.copy))
          /\ UNCHANGED <<member, raced, drift>>
       \/ /\ member[q.bookID][q.user] # None /\ Driver # "sql"
          /\ member' = [member EXCEPT ![q.bookID][q.user] = None]
          /\ NoteRace(r) /\ Overtake(r)
          /\ AfterWrite(r, ReconcilePrimaryOwner(q))
    /\ UNCHANGED book

DeleteRow(r) ==
    LET q == req[r] IN
    /\ q.pc = "deleteRow"
    /\ member' = [member EXCEPT ![q.bookID][q.user] = None]
    /\ NoteRace(r) /\ Overtake(r)
    /\ AfterWrite(r, ReconcilePrimaryOwner(q))
    /\ UNCHANGED book

\* Store.UpdateBook replaces the whole book record with the handler's copy.
WriteSettingsOnly(r) ==
    LET q == req[r] IN
    /\ q.pc = "writeBook"
    /\ book' = [book EXCEPT ![q.bookID] = [owner |-> book[q.bookID].owner, settings |-> q.copy.settings]]
    /\ Finish(r) /\ NoteDrift(r, r \in overtaken)
    /\ UNCHANGED <<member, raced, overtaken>>
WriteBook(r) ==
    LET q == req[r] IN
    /\ q.pc = "writeBook"
    /\ book' = [book EXCEPT ![q.bookID] = q.copy]
    /\ Finish(r) /\ NoteDrift(r, r \in overtaken)
    /\ IF q.copy.owner = book[q.bookID].owner THEN UNCHANGED overtaken ELSE Overtake(r)
    /\ UNCHANGED <<member, raced>>

\* A SQL call fails without effect, the request is cancelled or the process
\* stops: the handler ends where it is.
StoreError(r) ==
    /\ Driver = "sql" /\ req[r].pc # "idle"
    /\ Finish(r) /\ NoteDrift(r, r \in Pending(req[r].bookID))
    /\ UNCHANGED <<book, member, raced, overtaken>>

ReceiveAny(r) ==
    \E b \in Books, actor \in Users :
       \/ \E p \in Patches : Receive(r, "settings", b, actor, AnyUser, "administrator", p)
       \/ \E user \in Users :
             \/ \E op \in {"add", "role"}, role \in RequestedRoles :
                   Receive(r, op, b, actor, user, role, NoPatch)
             \/ Receive(r, "remove", b, actor, user, "administrator", NoPatch)

Step(r) == \/ AuthMember(r) \/ AuthBook(r) \/ LoadExisting(r) \/ CreateMember(r)
           \/ LoadMembers(r) \/ WriteMember(r) \/ DeleteMember(r) \/ DeleteRow(r)
           \/ WriteBook(r)

Next == \/ \E b \in Books, actor \in Users, s \in Settings : CreateBook(b, actor, s)
        \/ \E r \in Reqs : ReceiveAny(r) \/ Step(r) \/ StoreError(r)

Spec == Init /\ [][Next]_vars

-----------------------------------------------------------------------------
\* A book loses its last owner only if two demotions or removals raced: the
\* sole-owner checks of UpdateBookMemberRole and RemoveBookMember are enough
\* against every other interleaving, stale write and store failure.
OwnerlessOnlyByRace ==
    \A b \in Books : book[b] # NoBook /\ b \notin raced => OwnersOf(member[b]) # {}

\* Once its calls are done, the primary owner of a book is one of its owners,
\* although UpdateBook writes back the owner it read and a role change or a
\* removal decides by rows it read before: unless such a write came after
\* another one that it had not seen, or the second write of a call was lost.
PrimaryLostOnlyByRace ==
    \A b \in Books : book[b] # NoBook /\ Pending(b) = {} /\ b \notin drifted =>
                       member[b][book[b].owner] = "owner"

\* A single handler implements the calls of BookMembership: each call takes
\* effect at once, when it writes its first row.
ImplementsCalls == Calls!Spec
=============================================================================
