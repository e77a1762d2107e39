------------------------- MODULE BookRequestsProofs -------------------------
(***************************************************************************)
(* Proofs about BookRequests, for any number of handlers, users and books  *)
(* and every store driver, and the refinement of BookMembership by one     *)
(* handler on the memory store.                                            *)
(***************************************************************************)
EXTENDS BookRequests, TLAPS

\* What a handler's position says about its request: the checks it has passed
\* and what it has read.
ControlOf(q) ==
    /\ q.pc # "idle" => book[q.bookID] # NoBook
    /\ q.pc \in {"existing", "create"} => q.op = "add" /\ q.role \in Roles \ {"owner"}
    /\ q.pc = "members" => q.op \in {"role", "remove"} /\ (q.op = "role" => q.role \in Roles)
    /\ q.pc = "writeMember" => q.op = "role" /\ q.role \in Roles
    /\ q.pc \in {"deleteMember", "deleteRow"} => q.op = "remove"
    /\ q.pc \in {"members", "writeMember", "deleteMember", "deleteRow", "writeBook"}
          => q.copy \in BookRecord

ControlInv == \A r \in Reqs : ControlOf(req[r])

\* While no demotion raced another on a book, the book has an owner, and a
\* request that passed its owner check still has another owner to rely on.
RaceInv ==
    \A b \in Books : book[b] # NoBook /\ b \notin raced =>
       /\ OwnersOf(member[b]) # {}
       /\ \A r \in Reqs : Checked(req[r]) /\ Demotes(req[r]) /\ req[r].bookID = b
             => \E v \in Users \ {req[r].user} : member[b][v] = "owner"

IInv == TypeOK /\ ControlInv /\ RaceInv

-----------------------------------------------------------------------------
\* The record a handler moves to is a request again.
LEMMA RecordTypes ==
    /\ AnyUser \in Users
    /\ Idle \in Request
    /\ \A op \in Ops, b \in Books, actor, user \in Users, role \in RequestedRoles,
          patch \in [Fields -> Values \cup {Keep}] :
          Arrival("authMember", op, b, actor, user, role, patch) \in Request
    /\ \A q \in Request, pc \in PCs, seen \in Roles \cup {None}, heir \in Users,
          copy \in BookRecord \cup {NoBook} : Holding(q, pc, seen, heir, copy) \in Request
<1>1. AnyUser \in Users /\ AnyBook \in Books
  BY NonEmptyAssumption DEF AnyUser, AnyBook
<1>2. Idle \in Request
  BY <1>1 DEF Idle, Arrival, Request, PCs, Ops, RequestedRoles, Roles, NoPatch
<1>3. \A op \in Ops, b \in Books, actor, user \in Users, role \in RequestedRoles,
         patch \in [Fields -> Values \cup {Keep}] :
         Arrival("authMember", op, b, actor, user, role, patch) \in Request
  BY <1>1 DEF Arrival, Request, PCs
<1>4. \A q \in Request, pc \in PCs, seen \in Roles \cup {None}, heir \in Users,
         copy \in BookRecord \cup {NoBook} : Holding(q, pc, seen, heir, copy) \in Request
  BY <1>1 DEF Holding, Request
<1> QED
  BY <1>1, <1>2, <1>3, <1>4

\* firstOtherOwner answers a user.
LEMMA HeirIsUser ==
    ASSUME NEW members \in Membership, NEW x \in Users
    PROVE  FirstOtherOwner(members, x) \in Users
<1> DEFINE others == OwnersOf(members) \ {x}
<1>1. others \in SUBSET Users
  BY DEF OwnersOf
<1>2. others # {} => \E u \in others : \A v \in others : u <= v
  BY <1>1, UsersAssumption
<1> QED
  BY <1>1, <1>2 DEF FirstOtherOwner

\* UpdateBook's patch of a book record is a book record.
LEMMA PatchedIsRecord ==
    ASSUME NEW b \in BookRecord, NEW patch \in [Fields -> Values \cup {Keep}]
    PROVE  [owner |-> b.owner, settings |-> Patched(b.settings, patch)] \in BookRecord
  BY DEF BookRecord, Patched, Settings

\* What a handler does once its member row is written.
LEMMA ReconcileTypes ==
    ASSUME NEW q \in Request, q.copy \in BookRecord
    PROVE  /\ ReconcilePrimaryOwner(q) \in Request
           /\ \/ ReconcilePrimaryOwner(q) = Idle
              \/ /\ ReconcilePrimaryOwner(q).pc = "writeBook"
                 /\ ReconcilePrimaryOwner(q).bookID = q.bookID
                 /\ ReconcilePrimaryOwner(q).copy \in BookRecord
<1> DEFINE n == [owner |-> NewPrimary(q), settings |-> q.copy.settings]
<1>1. NewPrimary(q) \in Users
  BY DEF NewPrimary, Request, BookRecord
<1>2. n \in BookRecord
  BY <1>1 DEF BookRecord
<1>3. Holding(q, "writeBook", None, AnyUser, n) \in Request
  BY <1>2, RecordTypes DEF PCs
<1> QED
  BY <1>2, <1>3, RecordTypes DEF ReconcilePrimaryOwner, Holding

-----------------------------------------------------------------------------
\* The actions that move one handler on without writing a row.
Reads(r) == AuthMember(r) \/ AuthBook(r) \/ LoadExisting(r) \/ LoadMembers(r) \/ StoreError(r)

\* A read step leaves the rows alone and moves handler r to a typed request
\* that satisfies the control invariant.
LEMMA ReadStep ==
    ASSUME TypeOK, ControlInv, NEW r \in Reqs, Reads(r)
    PROVE  /\ UNCHANGED <<book, member, raced>>
           /\ \E q \in Request : req' = [req EXCEPT ![r] = q] /\ ControlOf(q)
<1> DEFINE q == req[r]
<1> USE DEF TypeOK, Continue, Finish
<1>1. q \in Request /\ ControlOf(q)
  BY DEF ControlInv
<1>2. Idle \in Request /\ ControlOf(Idle)
  BY RecordTypes DEF ControlOf, Idle, Arrival
<1>3. CASE AuthMember(r)
  <2> DEFINE role == member[q.bookID][q.actor]
  <2>1. role \in Roles \cup {None}
    BY <1>1 DEF Request, Membership
  <2>2. Holding(q, "authBook", role, q.heir, q.copy) \in Request
    BY <1>1, <2>1, RecordTypes DEF PCs, Request
  <2>3. q.pc = "authMember" => ControlOf(Holding(q, "authBook", role, q.heir, q.copy))
    BY <1>1 DEF ControlOf, Holding
  <2> QED
    BY <1>2, <1>3, <2>2, <2>3 DEF AuthMember
<1>4. CASE AuthBook(r)
  <2> DEFINE b == book[q.bookID]
             n == [owner |-> b.owner, settings |-> Patched(b.settings, q.patch)]
             h == Holding(q, AfterAuthorization(q.op), None, q.heir, n)
  <2>1. q.pc = "authBook"
    BY <1>4 DEF AuthBook
  <2>2. b \in BookRecord
    BY <1>1, <2>1 DEF ControlOf, Request
  <2>3. n \in BookRecord
    BY <1>1, <2>2, PatchedIsRecord DEF Request
  <2>4. AfterAuthorization(q.op) \in PCs
    BY DEF AfterAuthorization, PCs
  <2>5. h \in Request
    BY <1>1, <2>3, <2>4, RecordTypes DEF Request
  <2>6. ValidRequest(q) => ControlOf(h)
    <3>1. h.pc = AfterAuthorization(q.op) /\ h.op = q.op /\ h.role = q.role
          /\ h.copy = n /\ h.bookID = q.bookID
      BY DEF Holding
    <3>2. q.op \in Ops
      BY <1>1 DEF Request
    <3>3. book[q.bookID] # NoBook
      BY <1>1, <2>1 DEF ControlOf
    <3>4. CASE q.op = "settings"
      BY <2>3, <3>1, <3>3, <3>4 DEF ControlOf, AfterAuthorization
    <3>5. CASE q.op = "add"
      BY <2>3, <3>1, <3>3, <3>5 DEF ControlOf, AfterAuthorization, ValidRequest,
         IsAssignableNewMemberRole
    <3>6. CASE q.op \in {"role", "remove"}
      BY <2>3, <3>1, <3>3, <3>6 DEF ControlOf, AfterAuthorization, ValidRequest,
         IsSupportedMemberRole
    <3> QED
      BY <3>2, <3>4, <3>5, <3>6 DEF Ops
  <2> QED
    BY <1>2, <1>4, <2>5, <2>6 DEF AuthBook
<1>5. CASE LoadExisting(r)
  <2>1. Holding(q, "create", None, q.heir, NoBook) \in Request
    BY <1>1, RecordTypes DEF PCs, Request
  <2>2. q.pc = "existing" => ControlOf(Holding(q, "create", None, q.heir, NoBook))
    BY <1>1 DEF ControlOf, Holding
  <2> QED
    BY <1>2, <1>5, <2>1, <2>2 DEF LoadExisting
<1>6. CASE LoadMembers(r)
  <2> DEFINE members == member[q.bookID]
             pc == IF q.op = "role" THEN "writeMember" ELSE "deleteMember"
             h == Holding(q, pc, members[q.user], FirstOtherOwner(members, q.user), q.copy)
  <2>1. members \in Membership /\ members[q.user] \in Roles \cup {None} /\ q.user \in Users
    BY <1>1 DEF Request, Membership
  <2>2. h \in Request
    <3>1. pc \in PCs /\ FirstOtherOwner(members, q.user) \in Users
      BY <2>1, HeirIsUser DEF PCs
    <3>2. q.copy \in BookRecord \cup {NoBook}
      BY <1>1 DEF Request
    <3> QED
      BY <1>1, <2>1, <3>1, <3>2, RecordTypes
  <2>3. q.pc = "members" => ControlOf(h)
    BY <1>1 DEF ControlOf, Holding
  <2> QED
    BY <1>2, <1>6, <2>2, <2>3 DEF LoadMembers
<1>7. CASE StoreError(r)
  BY <1>2, <1>7 DEF StoreError
<1> QED
  BY <1>3, <1>4, <1>5, <1>6, <1>7 DEF Reads

\* A step that changes one membership row at most, to a role of the model,
\* and moves handler r on keeps the types and the control invariant.
LEMMA RowStep ==
    ASSUME TypeOK, ControlInv, NEW r \in Reqs, NEW q \in Request, ControlOf(q),
           req' = [req EXCEPT ![r] = q], UNCHANGED book,
           member' \in [Books -> Membership], raced' \subseteq Books,
           overtaken' \subseteq Reqs, drifted' \subseteq Books
    PROVE  TypeOK' /\ ControlInv'
<1>1. TypeOK'
  BY DEF TypeOK
<1>2. \A s \in Reqs : ControlOf(req[s])
  BY DEF ControlInv
<1>3. ASSUME NEW s \in Reqs
      PROVE  ControlOf(req[s])'
  <2>1. req'[s] = IF s = r THEN q ELSE req[s]
    BY DEF TypeOK
  <2>2. CASE s = r
    BY <2>1, <2>2 DEF ControlOf
  <2>3. CASE s # r
    BY <1>2, <2>1, <2>3 DEF ControlOf
  <2> QED
    BY <2>2, <2>3
<1> QED
  BY <1>1, <1>3 DEF ControlInv

-----------------------------------------------------------------------------
\* What the four member-writing steps do: either the rows stay and the handler
\* ends or keeps its checked position, or one row is written and the handler
\* is past its check.
MemberWrites(r) == CreateMember(r) \/ WriteMember(r) \/ DeleteMember(r) \/ DeleteRow(r)

RowKept(r, q) ==
    /\ UNCHANGED <<member, raced>>
    /\ \/ ~Checked(q)
       \/ /\ Checked(req[r]) /\ q.op = req[r].op /\ q.role = req[r].role
          /\ q.bookID = req[r].bookID /\ q.user = req[r].user

RowAdded(r, q) ==
    /\ member[req[r].bookID][req[r].user] = None
    /\ \E role \in Roles : member' = [member EXCEPT ![req[r].bookID][req[r].user] = role]
    /\ UNCHANGED raced
    /\ ~Checked(q)

RowReplaced(r, q) ==
    /\ Checked(req[r])
    /\ NoteRace(r)
    /\ ~Checked(q)
    /\ \E role \in Roles \cup {None} :
          /\ member' = [member EXCEPT ![req[r].bookID][req[r].user] = role]
          /\ role # "owner" => Demotes(req[r])

\* A step that writes membership rows keeps, adds or replaces one row.
LEMMA MemberWriteStep ==
    ASSUME TypeOK, ControlInv, NEW r \in Reqs, MemberWrites(r)
    PROVE  /\ UNCHANGED book
           /\ \E q \in Request : /\ req' = [req EXCEPT ![r] = q] /\ ControlOf(q)
                                 /\ RowKept(r, q) \/ RowAdded(r, q) \/ RowReplaced(r, q)
<1> DEFINE q0 == req[r]
           n == ReconcilePrimaryOwner(q0)
<1>1. q0 \in Request /\ ControlOf(q0)
  BY DEF ControlInv, TypeOK
<1>2. Idle \in Request /\ ControlOf(Idle) /\ ~Checked(Idle)
  BY RecordTypes DEF ControlOf, Idle, Arrival, Checked
<1>3. Checked(q0) => n \in Request /\ ControlOf(n) /\ ~Checked(n)
  <2> SUFFICES ASSUME Checked(q0)
               PROVE  n \in Request /\ ControlOf(n) /\ ~Checked(n)
    OBVIOUS
  <2>1. q0.copy \in BookRecord /\ book[q0.bookID] # NoBook
    BY <1>1 DEF Checked, ControlOf
  <2>2. CASE n = Idle
    BY <1>2, <2>2
  <2>3. CASE n.pc = "writeBook" /\ n.bookID = q0.bookID /\ n.copy \in BookRecord
    BY <1>1, <2>1, <2>3, ReconcileTypes DEF ControlOf, Checked
  <2> QED
    BY <1>1, <2>1, <2>2, <2>3, ReconcileTypes
<1>4. CASE CreateMember(r)
  <2>1. q0.role \in Roles /\ req' = [req EXCEPT ![r] = Idle] /\ UNCHANGED <<book, raced>>
    BY <1>1, <1>4 DEF CreateMember, ControlOf, Finish, Continue
  <2>2. CASE member[q0.bookID][q0.user] # None
    BY <1>2, <1>4, <2>1, <2>2 DEF CreateMember, RowKept
  <2>3. CASE member[q0.bookID][q0.user] = None
    <3>1. member' = [member EXCEPT ![q0.bookID][q0.user] = q0.role]
      BY <1>4, <2>3 DEF CreateMember
    <3> QED
      BY <1>2, <2>1, <2>3, <3>1 DEF RowAdded
  <2> QED
    BY <2>2, <2>3
<1>5. CASE WriteMember(r)
  <2>1. q0.op = "role" /\ q0.role \in Roles /\ Checked(q0) /\ UNCHANGED book
    BY <1>1, <1>5 DEF WriteMember, ControlOf, Checked
  <2>2. CASE member[q0.bookID][q0.user] = None
    BY <1>2, <1>5, <2>1, <2>2 DEF WriteMember, RowKept, Finish, Continue
  <2>3. CASE member[q0.bookID][q0.user] # None
    <3>1. /\ member' = [member EXCEPT ![q0.bookID][q0.user] = q0.role] /\ NoteRace(r)
          /\ req' = [req EXCEPT ![r] = n] \/ req' = [req EXCEPT ![r] = Idle]
      BY <1>5, <2>3 DEF WriteMember, AfterWrite, Finish, Continue
    <3>2. q0.role # "owner" => Demotes(q0)
      BY <2>1 DEF Demotes
    <3> QED
      BY <1>2, <1>3, <2>1, <3>1, <3>2 DEF RowReplaced
  <2> QED
    BY <2>2, <2>3
<1>6. ASSUME q0.pc \in {"deleteMember", "deleteRow"}, UNCHANGED book, NoteRace(r),
             member' = [member EXCEPT ![q0.bookID][q0.user] = None],
             AfterWrite(r, n)
      PROVE  \E q \in Request : /\ req' = [req EXCEPT ![r] = q] /\ ControlOf(q)
                                /\ RowReplaced(r, q)
  <2>1. Demotes(q0) /\ Checked(q0)
    BY <1>1, <1>6 DEF ControlOf, Demotes, Checked
  <2>2. req' = [req EXCEPT ![r] = n] \/ req' = [req EXCEPT ![r] = Idle]
    BY <1>6 DEF AfterWrite, Finish, Continue
  <2> QED
    BY <1>2, <1>3, <1>6, <2>1, <2>2 DEF RowReplaced
<1>7. CASE DeleteMember(r)
  <2>1. UNCHANGED book /\ q0.pc = "deleteMember" /\ Checked(q0)
    BY <1>7 DEF DeleteMember, Checked
  <2>2. CASE Finish(r) /\ UNCHANGED <<member, raced>>
    BY <1>2, <2>1, <2>2 DEF RowKept, Finish, Continue
  <2>3. CASE /\ Continue(r, Holding(q0, "deleteRow", q0.seen, q0.heir, q0.copy))
             /\ UNCHANGED <<member, raced>>
    <3> DEFINE h == Holding(q0, "deleteRow", q0.seen, q0.heir, q0.copy)
    <3>1. h \in Request
      BY <1>1, RecordTypes DEF PCs, Request
    <3>2. ControlOf(h)
      BY <1>1, <2>1 DEF ControlOf, Holding
    <3>3. h.op = q0.op /\ h.role = q0.role /\ h.bookID = q0.bookID /\ h.user = q0.user
      BY DEF Holding
    <3> QED
      BY <2>1, <2>3, <3>1, <3>2, <3>3 DEF RowKept, Continue
  <2>4. CASE /\ member' = [member EXCEPT ![q0.bookID][q0.user] = None]
             /\ NoteRace(r) /\ AfterWrite(r, n)
    BY <1>6, <2>1, <2>4
  <2> QED
    BY <1>7, <2>1, <2>2, <2>3, <2>4 DEF DeleteMember
<1>8. CASE DeleteRow(r)
  BY <1>6, <1>8 DEF DeleteRow
<1> QED
  BY <1>4, <1>5, <1>7, <1>8 DEF MemberWrites

\* The membership tables stay typed over a member write.
LEMMA MembersTyped ==
    ASSUME TypeOK, NEW r \in Reqs, NEW q,
           RowKept(r, q) \/ RowAdded(r, q) \/ RowReplaced(r, q)
    PROVE  member' \in [Books -> Membership] /\ raced' \subseteq Books
<1>1. req[r].bookID \in Books /\ req[r].user \in Users
  BY DEF TypeOK, Request
<1>2. CASE RowKept(r, q)
  BY <1>2 DEF RowKept, TypeOK
<1>3. CASE RowAdded(r, q)
  BY <1>1, <1>3 DEF RowAdded, TypeOK, Membership
<1>4. CASE RowReplaced(r, q)
  <2>1. member' \in [Books -> Membership]
    BY <1>1, <1>4 DEF RowReplaced, TypeOK, Membership
  <2>2. raced' \subseteq Books
    BY <1>1, <1>4 DEF RowReplaced, NoteRace, TypeOK
  <2> QED
    BY <2>1, <2>2
<1> QED
  BY <1>2, <1>3, <1>4

\* So do the notes of who was overtaken and where.
LEMMA DriftTyped ==
    ASSUME TypeOK, [Next]_vars
    PROVE  overtaken' \subseteq Reqs /\ drifted' \subseteq Books
<1>1. /\ overtaken \subseteq Reqs /\ drifted \subseteq Books
      /\ \A r \in Reqs : req[r].bookID \in Books
  BY DEF TypeOK, Request
<1>2. CASE UNCHANGED drift
  BY <1>1, <1>2 DEF drift
<1>3. ASSUME NEW r \in Reqs, Step(r) \/ StoreError(r) PROVE overtaken' \subseteq Reqs
  BY <1>1, <1>3 DEF Step, AuthMember, AuthBook, LoadExisting, CreateMember, LoadMembers, WriteMember,
     DeleteMember, DeleteRow, WriteBook, StoreError, Overtake, drift
<1>4. ASSUME NEW r \in Reqs, NEW q, AfterWrite(r, q) PROVE drifted' \subseteq Books
  BY <1>1, <1>4 DEF AfterWrite, NoteDrift
<1>5. ASSUME NEW r \in Reqs, Step(r) \/ StoreError(r) PROVE drifted' \subseteq Books
  BY <1>1, <1>4, <1>5 DEF Step, AuthMember, AuthBook, LoadExisting, CreateMember, LoadMembers, WriteMember,
     DeleteMember, DeleteRow, WriteBook, StoreError, NoteDrift, drift
<1>6. ASSUME NEW r \in Reqs, ReceiveAny(r) PROVE UNCHANGED drift
  BY <1>6 DEF ReceiveAny, Receive
<1>7. CASE UNCHANGED vars
  BY <1>2, <1>7 DEF vars
<1>8. CASE \E b \in Books, actor \in Users, s \in Settings : CreateBook(b, actor, s)
  BY <1>2, <1>8 DEF CreateBook
<1> QED
  BY <1>2, <1>3, <1>5, <1>6, <1>7, <1>8 DEF Next

\* Types and control are kept by every step.
LEMMA TypeStep ==
    ASSUME TypeOK, ControlInv, [Next]_vars
    PROVE  TypeOK' /\ ControlInv'
<1>0. overtaken' \subseteq Reqs /\ drifted' \subseteq Books
  BY DriftTyped
<1>1. ASSUME NEW b \in Books, NEW actor \in Users, NEW s \in Settings, CreateBook(b, actor, s)
      PROVE  TypeOK' /\ ControlInv'
  <2>1. TypeOK'
    BY <1>0, <1>1 DEF CreateBook, TypeOK, BookRecord, Membership, Roles
  <2>2. \A r \in Reqs : ControlOf(req[r])
    BY DEF ControlInv
  <2>3. [owner |-> actor, settings |-> s] \in BookRecord
    BY DEF BookRecord
  <2>4. \A c \in Books : book[c] # NoBook => book'[c] # NoBook
    BY <1>1 DEF CreateBook, TypeOK
  <2>5. \A r \in Reqs : req[r].bookID \in Books
    BY DEF TypeOK, Request
  <2>6. ASSUME NEW r \in Reqs
        PROVE  ControlOf(req[r])'
    BY <1>1, <2>2, <2>4, <2>5 DEF ControlOf, CreateBook
  <2> QED
    BY <2>1, <2>6 DEF ControlInv
<1>2. ASSUME NEW r \in Reqs, ReceiveAny(r)
      PROVE  TypeOK' /\ ControlInv'
  <2>1. PICK op \in Ops, b \in Books, actor \in Users, user \in Users, role \in RequestedRoles,
             patch \in [Fields -> Values \cup {Keep}] : Receive(r, op, b, actor, user, role, patch)
    <3>1. AnyUser \in Users
      BY RecordTypes
    <3>2. NoPatch \in [Fields -> Values \cup {Keep}]
      BY DEF NoPatch
    <3>3. Patches \subseteq [Fields -> Values \cup {Keep}]
      BY DEF Patches
    <3> QED
      BY <1>2, <3>1, <3>2, <3>3 DEF ReceiveAny, Ops, RequestedRoles, Roles
  <2> DEFINE q == Arrival("authMember", op, b, actor, user, role, patch)
  <2>2. q \in Request
    BY RecordTypes
  <2>3. req' = [req EXCEPT ![r] = q] /\ UNCHANGED <<book, member, raced>> /\ book[b] # NoBook
    BY <2>1 DEF Receive, Continue
  <2>4. ControlOf(q)
    BY <2>3 DEF ControlOf, Arrival
  <2> QED
    BY <1>0, <2>2, <2>3, <2>4, RowStep DEF TypeOK
<1>3. ASSUME NEW r \in Reqs, Reads(r)
      PROVE  TypeOK' /\ ControlInv'
  BY <1>0, <1>3, ReadStep, RowStep DEF TypeOK
<1>4. ASSUME NEW r \in Reqs, MemberWrites(r)
      PROVE  TypeOK' /\ ControlInv'
  <2>1. UNCHANGED book
    BY <1>4, MemberWriteStep
  <2>2. PICK q \in Request : /\ req' = [req EXCEPT ![r] = q] /\ ControlOf(q)
                             /\ RowKept(r, q) \/ RowAdded(r, q) \/ RowReplaced(r, q)
    BY <1>4, MemberWriteStep
  <2> QED
    BY <1>0, <2>1, <2>2, MembersTyped, RowStep
<1>5. ASSUME NEW r \in Reqs, WriteBook(r)
      PROVE  TypeOK' /\ ControlInv'
  <2>1. /\ req[r] \in Request /\ req[r].copy \in BookRecord
        /\ \A s \in Reqs : ControlOf(req[s]) /\ req[s] \in Request
    BY <1>5 DEF TypeOK, ControlInv, ControlOf, WriteBook
  <2>2. /\ book' = [book EXCEPT ![req[r].bookID] = req[r].copy]
        /\ req' = [req EXCEPT ![r] = Idle] /\ UNCHANGED <<member, raced>>
    BY <1>5 DEF WriteBook, Finish, Continue
  <2>3. TypeOK'
    BY <1>0, <2>1, <2>2, RecordTypes DEF TypeOK
  <2>4. \A c \in Books : book[c] # NoBook => book'[c] # NoBook
    BY <2>1, <2>2, NoBookAssumption DEF TypeOK
  <2>5. ASSUME NEW s \in Reqs
        PROVE  ControlOf(req[s])'
    <3>1. CASE s = r
      <4>1. req'[s] = Idle
        BY <2>2, <3>1 DEF TypeOK
      <4> QED
        BY <4>1 DEF ControlOf, Idle, Arrival
    <3>2. CASE s # r
      <4>1. req'[s] = req[s] /\ req[s].bookID \in Books
        BY <2>1, <2>2, <3>2 DEF TypeOK, Request
      <4> QED
        BY <2>1, <2>4, <4>1 DEF ControlOf
    <3> QED
      BY <3>1, <3>2
  <2> QED
    BY <2>3, <2>5 DEF ControlInv
<1>6. CASE UNCHANGED vars
  BY <1>0, <1>6 DEF vars, TypeOK, ControlInv, ControlOf
<1> QED
  BY <1>1, <1>2, <1>3, <1>4, <1>5, <1>6 DEF Next, Step, Reads, MemberWrites

\* Every handler's state and every row keep their types under any
\* interleaving and every store failure, and a handler past a check really
\* passed it.
THEOREM BookRequestsTypes == Spec => [](TypeOK /\ ControlInv)
<1>1. Init => TypeOK /\ ControlInv
  <2> SUFFICES ASSUME Init
               PROVE  TypeOK /\ ControlInv
    OBVIOUS
  <2>1. TypeOK
    BY RecordTypes DEF Init, TypeOK, Membership
  <2>2. \A r \in Reqs : req[r].pc = "idle"
    BY DEF Init, Idle, Arrival
  <2> QED
    BY <2>1, <2>2 DEF ControlInv, ControlOf
<1>2. TypeOK /\ ControlInv /\ [Next]_vars => TypeOK' /\ ControlInv'
  BY TypeStep
<1> QED
  BY <1>1, <1>2, PTL DEF Spec

-----------------------------------------------------------------------------
\* A read step leaves handler r either not past an owner check, or past one
\* that found another owner.
LEMMA ReadCheck ==
    ASSUME TypeOK, ControlInv, NEW r \in Reqs, Reads(r), Checked(req'[r]), Demotes(req'[r]),
           OwnersOf(member[req'[r].bookID]) # {}
    PROVE  \E v \in Users \ {req'[r].user} : member[req'[r].bookID][v] = "owner"
<1> DEFINE q == req[r]
           members == member[q.bookID]
<1>1. q \in Request /\ members \in Membership /\ q.op \in Ops
  BY DEF TypeOK, Request
<1>2. ~Checked(Idle)
  BY DEF Checked, Idle, Arrival
<1>3. CASE AuthMember(r) \/ LoadExisting(r) \/ StoreError(r)
  <2>1. req'[r].pc \in {"idle", "authBook", "create"}
    BY <1>3 DEF AuthMember, LoadExisting, StoreError, Continue, Finish, TypeOK, Holding, Idle,
       Arrival
  <2> QED
    BY <2>1 DEF Checked
<1>4. CASE AuthBook(r)
  <2>1. req'[r].pc \in {"idle", AfterAuthorization(q.op)}
    BY <1>4 DEF AuthBook, Continue, TypeOK, Holding, Idle, Arrival
  <2> QED
    BY <2>1 DEF Checked, AfterAuthorization
<1>5. CASE LoadMembers(r)
  <2>1. PICK pc, seen, heir, copy :
           TargetAllowed(q, members) /\ req'[r] = Holding(q, pc, seen, heir, copy)
    BY <1>2, <1>5 DEF LoadMembers, Continue, TypeOK
  <2>2. /\ req'[r].bookID = q.bookID /\ req'[r].user = q.user /\ req'[r].op = q.op
        /\ req'[r].role = q.role
    BY <2>1 DEF Holding
  <2>3. OwnersOf(members) # {q.user} /\ OwnersOf(members) # {}
    BY <2>1, <2>2 DEF TargetAllowed, IsSoleOwner, Demotes
  <2> QED
    BY <2>2, <2>3 DEF OwnersOf
<1> QED
  BY <1>3, <1>4, <1>5 DEF Reads

\* RaceInv for one book whose rows and history stay the same and where only
\* handler r moves.
LEMMA ReadRace ==
    ASSUME TypeOK, RaceInv, NEW r \in Reqs, NEW q, req' = [req EXCEPT ![r] = q],
           UNCHANGED <<book, member, raced>>,
           Checked(q) /\ Demotes(q) /\ OwnersOf(member[q.bookID]) # {} =>
              \E v \in Users \ {q.user} : member[q.bookID][v] = "owner"
    PROVE  RaceInv'
<1>1. \A s \in Reqs : req'[s] = IF s = r THEN q ELSE req[s]
  BY DEF TypeOK
<1> SUFFICES ASSUME NEW b \in Books, book[b] # NoBook, b \notin raced
             PROVE  /\ OwnersOf(member[b]) # {}
                    /\ \A s \in Reqs : Checked(req'[s]) /\ Demotes(req'[s]) /\ req'[s].bookID = b
                          => \E v \in Users \ {req'[s].user} : member[b][v] = "owner"
  BY DEF RaceInv, Checked, Demotes, OwnersOf
<1>2. /\ OwnersOf(member[b]) # {}
      /\ \A s \in Reqs : Checked(req[s]) /\ Demotes(req[s]) /\ req[s].bookID = b
            => \E v \in Users \ {req[s].user} : member[b][v] = "owner"
  BY DEF RaceInv
<1> QED
  BY <1>1, <1>2

\* A member write keeps RaceInv: it leaves the owners alone, or it is the only
\* demotion past its check and the owner that check found is still there.
LEMMA WriteRace ==
    ASSUME TypeOK, ControlInv, RaceInv, NEW r \in Reqs, NEW q, req' = [req EXCEPT ![r] = q],
           UNCHANGED book, RowKept(r, q) \/ RowAdded(r, q) \/ RowReplaced(r, q)
    PROVE  RaceInv'
<1> DEFINE q0 == req[r]
<1>1. \A s \in Reqs : req'[s] = IF s = r THEN q ELSE req[s]
  BY DEF TypeOK
<1>2. q0.bookID \in Books /\ q0.user \in Users
  BY DEF TypeOK, Request
<1> DEFINE Kept(b) == /\ OwnersOf(member[b]) # {}
                      /\ \A s \in Reqs : Checked(req[s]) /\ Demotes(req[s]) /\ req[s].bookID = b
                            => \E v \in Users \ {req[s].user} : member[b][v] = "owner"
           Goal(b) == /\ \E v \in Users : member'[b][v] = "owner"
                      /\ \A s \in Reqs : Checked(req'[s]) /\ Demotes(req'[s]) /\ req'[s].bookID = b
                            => \E v \in Users \ {req'[s].user} : member'[b][v] = "owner"
<1>3. ASSUME NEW b \in Books, book[b] # NoBook, b \notin raced'
      PROVE  Goal(b)
  <2>1. CASE RowKept(r, q)
    <3>1. UNCHANGED <<member, raced>>
      BY <2>1 DEF RowKept
    <3>2. Kept(b)
      BY <1>3, <3>1 DEF RaceInv
    <3>3. Checked(q) /\ Demotes(q) => /\ Checked(q0) /\ Demotes(q0)
                                      /\ q.bookID = q0.bookID /\ q.user = q0.user
      BY <2>1 DEF RowKept, Demotes
    <3> QED
      BY <1>1, <3>1, <3>2, <3>3 DEF OwnersOf
  <2>2. CASE RowAdded(r, q)
    <3>1. \A v \in Users : member[b][v] = "owner" => member'[b][v] = "owner"
      BY <1>2, <2>2 DEF RowAdded, TypeOK, Membership, None
    <3>2. Kept(b)
      BY <1>3, <2>2 DEF RaceInv, RowAdded
    <3>3. ~Checked(q)
      BY <2>2 DEF RowAdded
    <3> QED
      BY <1>1, <3>1, <3>2, <3>3 DEF OwnersOf
  <2>3. CASE RowReplaced(r, q)
    <3>1. PICK role \in Roles \cup {None} :
             /\ member' = [member EXCEPT ![q0.bookID][q0.user] = role]
             /\ role # "owner" => Demotes(q0)
      BY <2>3 DEF RowReplaced
    <3>2. Checked(q0) /\ ~Checked(q) /\ NoteRace(r)
      BY <2>3 DEF RowReplaced
    <3>3. b \notin raced
      BY <1>3, <3>2 DEF NoteRace
    <3>4. Kept(b)
      BY <1>3, <3>3 DEF RaceInv
    <3>5. \A v \in Users : v # q0.user \/ b # q0.bookID => member'[b][v] = member[b][v]
      BY <1>2, <3>1 DEF TypeOK, Membership
    <3>6. CASE b # q0.bookID
      BY <1>1, <3>2, <3>4, <3>5, <3>6 DEF OwnersOf
    <3>7. CASE b = q0.bookID /\ ~Demotes(q0)
      <4>1. \A v \in Users : member[b][v] = "owner" => member'[b][v] = "owner"
        BY <1>2, <3>1, <3>5, <3>7 DEF TypeOK, Membership
      <4> QED
        BY <1>1, <3>2, <3>4, <4>1 DEF OwnersOf
    <3>8. CASE b = q0.bookID /\ Demotes(q0)
      <4>1. \A s \in Reqs \ {r} : ~(req[s].bookID = b /\ Checked(req[s]) /\ Demotes(req[s]))
        BY <1>3, <3>2, <3>8 DEF NoteRace
      <4>2. PICK v \in Users \ {q0.user} : member[b][v] = "owner"
        BY <3>2, <3>4, <3>8
      <4>3. member'[b][v] = "owner"
        BY <3>5, <4>2
      <4> QED
        BY <1>1, <3>2, <4>1, <4>2, <4>3
    <3> QED
      BY <3>6, <3>7, <3>8
  <2> QED
    BY <2>1, <2>2, <2>3
<1> QED
  BY <1>3 DEF RaceInv, OwnersOf, Checked, Demotes

\* A step of a handler keeps an owner in every book that nobody raced on.
LEMMA RaceStep ==
    ASSUME TypeOK, ControlInv, RaceInv, [Next]_vars
    PROVE  RaceInv'
<1>1. ASSUME NEW b \in Books, NEW actor \in Users, NEW s \in Settings, CreateBook(b, actor, s)
      PROVE  RaceInv'
  <2>1. /\ book[b] = NoBook /\ req' = req /\ raced' = raced
        /\ \A c \in Books \ {b} : book'[c] = book[c] /\ member'[c] = member[c]
        /\ \A u \in Users : member'[b][u] = IF u = actor THEN "owner" ELSE None
    BY <1>1 DEF CreateBook, TypeOK
  <2>2. \A r \in Reqs : Checked(req[r]) => req[r].bookID # b
    BY <2>1 DEF ControlInv, ControlOf, Checked
  <2>3. ASSUME NEW c \in Books, book'[c] # NoBook, c \notin raced
        PROVE  /\ \E v \in Users : member'[c][v] = "owner"
               /\ \A r \in Reqs : Checked(req[r]) /\ Demotes(req[r]) /\ req[r].bookID = c
                     => \E v \in Users \ {req[r].user} : member'[c][v] = "owner"
    <3>1. CASE c = b
      BY <2>1, <2>2, <3>1
    <3>2. CASE c # b
      BY <2>1, <2>3, <3>2 DEF RaceInv, OwnersOf
    <3> QED
      BY <3>1, <3>2
  <2> QED
    BY <2>1, <2>3 DEF RaceInv, OwnersOf, Checked, Demotes
<1>2. ASSUME NEW r \in Reqs, ReceiveAny(r)
      PROVE  RaceInv'
  <2>1. PICK op, b, actor, user, role, patch : Receive(r, op, b, actor, user, role, patch)
    BY <1>2 DEF ReceiveAny
  <2>2. /\ req' = [req EXCEPT ![r] = Arrival("authMember", op, b, actor, user, role, patch)]
        /\ UNCHANGED <<book, member, raced>>
    BY <2>1 DEF Receive, Continue
  <2>3. ~Checked(Arrival("authMember", op, b, actor, user, role, patch))
    BY DEF Checked, Arrival
  <2> QED
    BY <2>2, <2>3, ReadRace
<1>3. ASSUME NEW r \in Reqs, Reads(r)
      PROVE  RaceInv'
  <2>1. UNCHANGED <<book, member, raced>>
    BY <1>3, ReadStep
  <2>2. PICK q \in Request : req' = [req EXCEPT ![r] = q]
    BY <1>3, ReadStep
  <2>3. req'[r] = q
    BY <2>2 DEF TypeOK
  <2>4. Checked(q) /\ Demotes(q) /\ OwnersOf(member[q.bookID]) # {} =>
           \E v \in Users \ {q.user} : member[q.bookID][v] = "owner"
    BY <1>3, <2>3, ReadCheck
  <2> QED
    BY <2>1, <2>2, <2>4, ReadRace
<1>4. ASSUME NEW r \in Reqs, MemberWrites(r)
      PROVE  RaceInv'
  <2>1. UNCHANGED book
    BY <1>4, MemberWriteStep
  <2>2. PICK q \in Request : /\ req' = [req EXCEPT ![r] = q]
                             /\ RowKept(r, q) \/ RowAdded(r, q) \/ RowReplaced(r, q)
    BY <1>4, MemberWriteStep
  <2> QED
    BY <2>1, <2>2, WriteRace
<1>5. ASSUME NEW r \in Reqs, WriteBook(r)
      PROVE  RaceInv'
  <2>1. /\ \A s \in Reqs : req'[s] = IF s = r THEN Idle ELSE req[s]
        /\ UNCHANGED <<member, raced>>
    BY <1>5 DEF WriteBook, Finish, Continue, TypeOK
  <2>2. book[req[r].bookID] # NoBook
    BY <1>5 DEF ControlInv, ControlOf, WriteBook
  <2>3. \A c \in Books : book'[c] # NoBook => book[c] # NoBook
    BY <1>5, <2>2 DEF WriteBook, TypeOK
  <2>4. ~Checked(Idle)
    BY DEF Checked, Idle, Arrival
  <2>5. ASSUME NEW c \in Books, book'[c] # NoBook, c \notin raced
        PROVE  /\ OwnersOf(member[c]) # {}
               /\ \A s \in Reqs : Checked(req'[s]) /\ Demotes(req'[s]) /\ req'[s].bookID = c
                     => \E v \in Users \ {req'[s].user} : member[c][v] = "owner"
    BY <2>1, <2>3, <2>4, <2>5 DEF RaceInv
  <2> QED
    BY <2>1, <2>5 DEF RaceInv, OwnersOf, Checked, Demotes
<1>6. CASE UNCHANGED vars
  BY <1>6 DEF vars, RaceInv, OwnersOf, Checked, Demotes
<1> QED
  BY <1>1, <1>2, <1>3, <1>4, <1>5, <1>6 DEF Next, Step, Reads, MemberWrites

\* For any number of handlers, whatever they interleave and whatever store
\* calls fail, a book can lose its last owner only where two demotions or
\* removals overlapped between owner check and member write.
THEOREM OwnerlessNeedsRace == Spec => []OwnerlessOnlyByRace
<1>1. Init => RaceInv
  BY DEF Init, RaceInv
<1>2. TypeOK /\ ControlInv /\ RaceInv /\ [Next]_vars => RaceInv'
  BY RaceStep
<1>3. RaceInv => OwnerlessOnlyByRace
  BY DEF RaceInv, OwnerlessOnlyByRace
<1> QED
  BY <1>1, <1>2, <1>3, BookRequestsTypes, PTL DEF Spec
-----------------------------------------------------------------------------
(* The primary owner.                                                      *)

\* Request q has written its member row and is still to write the book.
HalfDone(q) == q.pc = "writeBook" /\ q.op \in {"role", "remove"}

\* What a request on a book with these members and this primary owner knows
\* as long as nobody has overtaken it.
UpToDate(q, members, owner) ==
    /\ HalfDone(q) => members[q.copy.owner] = "owner"
    /\ q.pc \in {"members", "writeMember", "deleteMember", "deleteRow"}
       \/ (q.pc = "writeBook" /\ ~HalfDone(q)) => q.copy.owner = owner
    /\ Checked(q) => /\ q.seen = members[q.user] /\ q.seen # None
                     /\ q.heir = FirstOtherOwner(members, q.user)
                     /\ Demotes(q) => OwnersOf(members) # {q.user}

\* The invariant: while nothing has drifted, the primary owner is an owner
\* unless a call is half done, and whoever was not overtaken is up to date.
DriftInv ==
    \A b \in Books : book[b] # NoBook /\ b \notin drifted =>
       /\ (\A r \in Reqs : req[r].bookID = b => ~HalfDone(req[r])) => member[b][book[b].owner] = "owner"
       /\ \A r \in Reqs \ overtaken : req[r].bookID = b => UpToDate(req[r], member[b], book[b].owner)

\* firstOtherOwner answers another owner where there is one.
LEMMA HeirIsOwner ==
    ASSUME NEW members \in Membership, NEW x \in Users, members[x] = "owner", OwnersOf(members) # {x}
    PROVE  /\ FirstOtherOwner(members, x) \in Users \ {x}
           /\ members[FirstOtherOwner(members, x)] = "owner"
<1> DEFINE others == OwnersOf(members) \ {x}
<1>1. others \in SUBSET Users /\ others # {}
  BY DEF OwnersOf
<1>2. \E u \in others : \A v \in others : u <= v
  BY <1>1, UsersAssumption
<1>3. FirstOtherOwner(members, x) \in others
  BY <1>1, <1>2 DEF FirstOtherOwner
<1> QED
  BY <1>3 DEF OwnersOf

\* A request that holds no book, or is past writing, has nothing to be wrong
\* about.
LEMMA NothingHeld ==
    ASSUME NEW q, q.pc \notin {"members", "writeMember", "deleteMember", "deleteRow", "writeBook"}
    PROVE  ~HalfDone(q) /\ \A members, owner : UpToDate(q, members, owner)
  BY DEF HalfDone, UpToDate, Checked

\* A step that only moves handler r, to where it is up to date, if it is not
\* overtaken, and from a call half done only with a note of it.
LEMMA MoveDrift ==
    ASSUME TypeOK, DriftInv, NEW r \in Reqs, NEW q, req' = [req EXCEPT ![r] = q],
           UNCHANGED <<book, member>>, drifted \subseteq drifted', overtaken \ {r} \subseteq overtaken',
           ~HalfDone(q), HalfDone(req[r]) => req[r].bookID \in drifted',
           q.bookID \notin drifted' /\ book[q.bookID] # NoBook /\ r \notin overtaken'
             => UpToDate(q, member[q.bookID], book[q.bookID].owner)
    PROVE  DriftInv'
<1>1. \A s \in Reqs : req'[s] = IF s = r THEN q ELSE req[s]
  BY DEF TypeOK
<1> SUFFICES ASSUME NEW b \in Books, book[b] # NoBook, b \notin drifted'
             PROVE  /\ (\A s \in Reqs : req'[s].bookID = b => ~HalfDone(req'[s])) => member[b][book[b].owner] = "owner"
                    /\ \A s \in Reqs \ overtaken' : req'[s].bookID = b => UpToDate(req'[s], member[b], book[b].owner)
  BY DEF DriftInv
<1>2. b \notin drifted
  OBVIOUS
<1>3. ASSUME \A s \in Reqs : req'[s].bookID = b => ~HalfDone(req'[s])
      PROVE  member[b][book[b].owner] = "owner"
  <2>1. \A s \in Reqs : req[s].bookID = b => ~HalfDone(req[s])
    BY <1>1, <1>3
  <2> QED
    BY <1>2, <2>1 DEF DriftInv
<1>4. ASSUME NEW s \in Reqs \ overtaken', req'[s].bookID = b PROVE UpToDate(req'[s], member[b], book[b].owner)
  <2>1. CASE s = r
    BY <1>1, <1>4, <2>1
  <2>2. CASE s # r
    BY <1>1, <1>2, <1>4, <2>2 DEF DriftInv
  <2> QED
    BY <2>1, <2>2
<1> QED
  BY <1>3, <1>4

\* The steps that read, receive or end.
LEMMA ReadDrift ==
    ASSUME TypeOK, ControlInv, DriftInv, NEW r \in Reqs, Reads(r)
    PROVE  DriftInv'
<1> DEFINE q == req[r]
<1>1. q \in Request /\ ControlOf(q) /\ q.bookID \in Books
  BY DEF TypeOK, ControlInv, Request
<1>2. ~HalfDone(Idle) /\ \A members, owner : UpToDate(Idle, members, owner)
  BY NothingHeld DEF Idle, Arrival
<1>3. CASE AuthMember(r)
  <2> DEFINE h == Holding(q, "authBook", member[q.bookID][q.actor], q.heir, q.copy)
  <2>1. req' = [req EXCEPT ![r] = Idle] \/ req' = [req EXCEPT ![r] = h]
    BY <1>3 DEF AuthMember, Continue
  <2>2. ~HalfDone(q) /\ UNCHANGED <<book, member, overtaken, drifted>>
    BY <1>3 DEF AuthMember, HalfDone, drift
  <2>3. ~HalfDone(h) /\ UpToDate(h, member[h.bookID], book[h.bookID].owner)
    BY NothingHeld DEF Holding
  <2> HIDE DEF h, q
  <2> QED
    BY <1>2, <2>1, <2>2, <2>3, MoveDrift DEF q
<1>4. CASE AuthBook(r)
  <2> DEFINE b == book[q.bookID]
             n == [owner |-> b.owner, settings |-> Patched(b.settings, q.patch)]
             h == Holding(q, AfterAuthorization(q.op), None, q.heir, n)
  <2>1. req' = [req EXCEPT ![r] = Idle] \/ req' = [req EXCEPT ![r] = h]
    BY <1>4 DEF AuthBook, Continue
  <2>2. /\ ~HalfDone(q) /\ UNCHANGED <<book, member, drifted>>
        /\ overtaken' = overtaken \ {r}
    BY <1>4 DEF AuthBook, HalfDone
  <2>3. /\ h.pc = AfterAuthorization(q.op) /\ h.op = q.op /\ h.bookID = q.bookID
        /\ h.copy.owner = book[q.bookID].owner
    BY DEF Holding
  <2> HIDE DEF h
  <2>4. ~HalfDone(h) /\ UpToDate(h, member[h.bookID], book[h.bookID].owner)
    BY <2>3 DEF HalfDone, UpToDate, AfterAuthorization, Checked
  <2> HIDE DEF q
  <2> QED
    BY <1>2, <2>1, <2>2, <2>4, MoveDrift DEF q
<1>5. CASE LoadExisting(r)
  <2> DEFINE h == Holding(q, "create", None, q.heir, NoBook)
  <2>1. req' = [req EXCEPT ![r] = Idle] \/ req' = [req EXCEPT ![r] = h]
    BY <1>5 DEF LoadExisting, Continue, Finish
  <2>2. ~HalfDone(q) /\ UNCHANGED <<book, member, overtaken, drifted>>
    BY <1>5 DEF LoadExisting, HalfDone, drift
  <2>3. ~HalfDone(h) /\ UpToDate(h, member[h.bookID], book[h.bookID].owner)
    BY NothingHeld DEF Holding
  <2> HIDE DEF h, q
  <2> QED
    BY <1>2, <2>1, <2>2, <2>3, MoveDrift DEF q
<1>6. CASE LoadMembers(r)
  <2> DEFINE members == member[q.bookID]
             pc == IF q.op = "role" THEN "writeMember" ELSE "deleteMember"
             h == Holding(q, pc, members[q.user], FirstOtherOwner(members, q.user), q.copy)
  <2>1. \/ req' = [req EXCEPT ![r] = Idle]
        \/ TargetAllowed(q, members) /\ req' = [req EXCEPT ![r] = h]
    BY <1>6 DEF LoadMembers, Continue
  <2>2. q.pc = "members" /\ ~HalfDone(q) /\ UNCHANGED <<book, member, overtaken, drifted>>
    BY <1>6 DEF LoadMembers, HalfDone, drift
  <2>3. /\ h.pc \in {"writeMember", "deleteMember"} /\ h.op = q.op /\ h.bookID = q.bookID /\ h.role = q.role
        /\ h.copy = q.copy /\ h.user = q.user /\ h.seen = members[q.user]
        /\ h.heir = FirstOtherOwner(members, q.user)
    BY DEF Holding
  <2> HIDE DEF h
  <2>4. ~HalfDone(h)
    BY <2>3 DEF HalfDone
  <2>5. ASSUME TargetAllowed(q, members), q.bookID \notin drifted, book[q.bookID] # NoBook, r \notin overtaken
        PROVE  UpToDate(h, member[h.bookID], book[h.bookID].owner)
    <3>1. UpToDate(q, member[q.bookID], book[q.bookID].owner)
      BY <1>1, <2>5 DEF DriftInv
    <3>2. q.copy.owner = book[q.bookID].owner
      BY <2>2, <3>1 DEF UpToDate
    <3>3. members[q.user] # None /\ (Demotes(h) => OwnersOf(members) # {q.user})
      BY <2>3, <2>5 DEF TargetAllowed, Demotes, IsSoleOwner
    <3> QED
      BY <2>3, <2>4, <3>2, <3>3 DEF UpToDate
  <2>6. CASE req' = [req EXCEPT ![r] = Idle]
    <3> HIDE DEF q
    <3> QED
      BY <1>2, <2>2, <2>6, MoveDrift DEF q
  <2>7. CASE TargetAllowed(q, members) /\ req' = [req EXCEPT ![r] = h]
    <3>1. h.bookID \notin drifted' /\ book[h.bookID] # NoBook /\ r \notin overtaken' => UpToDate(h, member[h.bookID], book[h.bookID].owner)
      BY <2>2, <2>3, <2>5, <2>7
    <3> HIDE DEF q
    <3> QED
      BY <2>2, <2>4, <2>7, <3>1, MoveDrift DEF q
  <2> QED
    BY <2>1, <2>6, <2>7
<1>7. CASE StoreError(r)
  <2>1. /\ req' = [req EXCEPT ![r] = Idle] /\ UNCHANGED <<book, member, overtaken>>
        /\ NoteDrift(r, r \in Pending(q.bookID))
    BY <1>7 DEF StoreError, Finish, Continue
  <2>2. HalfDone(q) => r \in Pending(q.bookID)
    BY DEF HalfDone, Pending
  <2>3. drifted \subseteq drifted' /\ (HalfDone(q) => q.bookID \in drifted')
    BY <2>1, <2>2 DEF NoteDrift
  <2> HIDE DEF q
  <2> QED
    BY <1>2, <2>1, <2>3, MoveDrift DEF q
<1> QED
  BY <1>3, <1>4, <1>5, <1>6, <1>7 DEF Reads

\* The choice of firstOtherOwner depends on the owners only.
LEMMA SameHeir ==
    ASSUME NEW before, NEW after, NEW x, OwnersOf(after) = OwnersOf(before)
    PROVE  FirstOtherOwner(after, x) = FirstOtherOwner(before, x)
<1> DEFINE Heir(others) == IF others = {} THEN x ELSE CHOOSE u \in others : \A v \in others : u <= v
<1>1. FirstOtherOwner(after, x) = Heir(OwnersOf(after) \ {x})
  BY DEF FirstOtherOwner
<1>2. FirstOtherOwner(before, x) = Heir(OwnersOf(before) \ {x})
  BY DEF FirstOtherOwner
<1> HIDE DEF Heir
<1> QED
  BY <1>1, <1>2

\* A request that holds no book has nothing to be wrong about either.
LEMMA NoCopy ==
    ASSUME TypeOK, ControlInv, NEW s \in Reqs, req[s].copy = NoBook
    PROVE  ~HalfDone(req[s]) /\ \A members, owner : UpToDate(req[s], members, owner)
<1>1. req[s].pc \notin {"members", "writeMember", "deleteMember", "deleteRow", "writeBook"}
  BY NoBookAssumption DEF ControlInv, ControlOf
<1> QED
  BY <1>1, NothingHeld

\* A request for a book arrives with nothing read.
LEMMA ArrivalDrift ==
    ASSUME TypeOK, DriftInv, NEW r \in Reqs, ReceiveAny(r)
    PROVE  DriftInv'
<1>1. PICK op, b, actor, user, role, patch : Receive(r, op, b, actor, user, role, patch)
  BY DEF ReceiveAny
<1> DEFINE h == Arrival("authMember", op, b, actor, user, role, patch)
<1>2. req' = [req EXCEPT ![r] = h] /\ UNCHANGED <<book, member, overtaken, drifted>> /\ req[r].pc = "idle"
  BY <1>1 DEF Receive, Continue, drift
<1>3. ~HalfDone(h) /\ UpToDate(h, member[h.bookID], book[h.bookID].owner)
  BY NothingHeld DEF Arrival
<1>4. ~HalfDone(req[r])
  BY <1>2 DEF HalfDone
<1> HIDE DEF h
<1> QED
  BY <1>2, <1>3, <1>4, MoveDrift

\* A new book has its creator as primary owner and owner, and no request yet.
LEMMA NewBookDrift ==
    ASSUME TypeOK, ControlInv, DriftInv, NEW b \in Books, NEW actor \in Users, NEW st \in Settings,
           CreateBook(b, actor, st)
    PROVE  DriftInv'
<1>1. /\ book[b] = NoBook /\ req' = req /\ UNCHANGED <<overtaken, drifted>>
      /\ book'[b] = [owner |-> actor, settings |-> st] /\ member'[b][actor] = "owner"
      /\ \A c \in Books \ {b} : book'[c] = book[c] /\ member'[c] = member[c]
  BY DEF CreateBook, TypeOK, drift
<1>2. \A s \in Reqs : req[s].bookID = b =>
         ~HalfDone(req[s]) /\ \A members, owner : UpToDate(req[s], members, owner)
  <2> SUFFICES ASSUME NEW s \in Reqs, req[s].bookID = b
               PROVE  ~HalfDone(req[s]) /\ \A members, owner : UpToDate(req[s], members, owner)
    OBVIOUS
  <2>1. req[s].pc = "idle"
    BY <1>1 DEF ControlInv, ControlOf
  <2> QED
    BY <2>1, NothingHeld
<1> SUFFICES ASSUME NEW c \in Books, book'[c] # NoBook, c \notin drifted
             PROVE  /\ (\A s \in Reqs : req[s].bookID = c => ~HalfDone(req[s])) => member'[c][book'[c].owner] = "owner"
                    /\ \A s \in Reqs \ overtaken : req[s].bookID = c => UpToDate(req[s], member'[c], book'[c].owner)
  BY <1>1 DEF DriftInv
<1>3. CASE c = b
  BY <1>1, <1>2, <1>3
<1>4. CASE c # b
  BY <1>1, <1>4 DEF DriftInv
<1> QED
  BY <1>3, <1>4

\* A new member row is no owner's, and nobody had read it.
LEMMA AddDrift ==
    ASSUME TypeOK, ControlInv, DriftInv, NEW r \in Reqs, CreateMember(r)
    PROVE  DriftInv'
<1> DEFINE q == req[r]
           b == q.bookID
<1>1. /\ q.pc = "create" /\ req' = [req EXCEPT ![r] = Idle] /\ UNCHANGED <<book, overtaken, drifted>>
      /\ q.role \in Roles \ {"owner"} /\ b \in Books /\ q.user \in Users
  BY DEF CreateMember, Finish, Continue, drift, ControlInv, ControlOf, TypeOK, Request
<1>2. ~HalfDone(q) /\ ~HalfDone(Idle) /\ \A members, owner : UpToDate(Idle, members, owner)
  BY <1>1, NothingHeld DEF HalfDone, Idle, Arrival
<1>3. CASE member' = member
  <2> HIDE DEF q
  <2> QED
    BY <1>1, <1>2, <1>3, MoveDrift DEF q
<1>4. CASE member[b][q.user] = None /\ member' = [member EXCEPT ![b][q.user] = q.role]
  <2>1. \A s \in Reqs : req'[s] = IF s = r THEN Idle ELSE req[s]
    BY <1>1 DEF TypeOK
  <2>2. \A c \in Books, u \in Users : member'[c][u] = IF c = b /\ u = q.user THEN q.role ELSE member[c][u]
    BY <1>1, <1>4 DEF TypeOK, Membership
  <2>3. \A c \in Books : OwnersOf(member'[c]) = OwnersOf(member[c])
    BY <1>1, <1>4, <2>2 DEF OwnersOf, None
  <2>4. \A c \in Books, u \in Users : FirstOtherOwner(member'[c], u) = FirstOtherOwner(member[c], u)
    <3> SUFFICES ASSUME NEW c \in Books, NEW u \in Users
                 PROVE  FirstOtherOwner(member'[c], u) = FirstOtherOwner(member[c], u)
      OBVIOUS
    <3>1. OwnersOf(member'[c]) = OwnersOf(member[c])
      BY <2>3
    <3> QED
      BY <3>1, SameHeir
  <2>5. \A c \in Books, u \in Users : member[c][u] # None => member'[c][u] = member[c][u]
    BY <1>4, <2>2
  <2> SUFFICES ASSUME NEW c \in Books, book[c] # NoBook, c \notin drifted
               PROVE  /\ (\A s \in Reqs : req'[s].bookID = c => ~HalfDone(req'[s])) => member'[c][book[c].owner] = "owner"
                      /\ \A s \in Reqs \ overtaken : req'[s].bookID = c => UpToDate(req'[s], member'[c], book[c].owner)
    BY <1>1 DEF DriftInv
  <2>6. book[c].owner \in Users
    BY DEF TypeOK, BookRecord
  <2>7. ASSUME \A s \in Reqs : req'[s].bookID = c => ~HalfDone(req'[s])
        PROVE  member'[c][book[c].owner] = "owner"
    <3>1. \A s \in Reqs : req[s].bookID = c => ~HalfDone(req[s])
      BY <1>2, <2>1, <2>7
    <3> QED
      BY <2>5, <2>6, <3>1 DEF DriftInv, None
  <2>8. ASSUME NEW s \in Reqs \ overtaken, req'[s].bookID = c
        PROVE  UpToDate(req'[s], member'[c], book[c].owner)
    <3>1. CASE s = r
      BY <1>2, <2>1, <3>1
    <3>2. CASE s # r
      <4>1. req'[s] = req[s] /\ UpToDate(req[s], member[c], book[c].owner) /\ req[s].user \in Users
        BY <2>1, <2>8, <3>2 DEF DriftInv, TypeOK, Request
      <4>2. HalfDone(req[s]) => req[s].copy.owner \in Users
        BY DEF HalfDone, ControlInv, ControlOf, BookRecord
      <4> QED
        BY <2>3, <2>4, <2>5, <4>1, <4>2 DEF UpToDate, None
    <3> QED
      BY <3>1, <3>2
  <2> QED
    BY <2>7, <2>8
<1> QED
  BY <1>3, <1>4 DEF CreateMember

\* What the write of a member row leaves to do: the primary owner that the
\* call asks for is an owner among the rows as they are then.
LEMMA NewPrimaryIsOwner ==
    ASSUME NEW q \in Request, Checked(q), q.op \in {"role", "remove"}, q.copy \in BookRecord,
           NEW members \in Membership, NEW owner, UpToDate(q, members, owner),
           NEW after \in Membership,
           \A u \in Users : after[u] = IF u # q.user THEN members[u]
                                       ELSE IF q.op = "role" THEN q.role ELSE None,
           NewPrimary(q) # q.copy.owner \/ members[owner] = "owner"
    PROVE  after[NewPrimary(q)] = "owner"
<1>1. /\ q.seen = members[q.user] /\ q.heir = FirstOtherOwner(members, q.user)
      /\ Demotes(q) => OwnersOf(members) # {q.user}
      /\ q.copy.owner = owner /\ q.user \in Users /\ owner \in Users
  BY DEF UpToDate, Checked, Request, BookRecord
<1>2. CASE q.op = "role" /\ q.role = "owner"
  BY <1>1, <1>2 DEF NewPrimary
<1>3. CASE ~(q.op = "role" /\ q.role = "owner") /\ q.seen = "owner" /\ q.copy.owner = q.user
  <2>1. Demotes(q) /\ NewPrimary(q) = q.heir
    BY <1>3 DEF Demotes, NewPrimary
  <2>2. q.heir \in Users \ {q.user} /\ members[q.heir] = "owner"
    <3>1. members[q.user] = "owner" /\ OwnersOf(members) # {q.user} /\ q.user \in Users
      BY <1>1, <1>3, <2>1
    <3>2. /\ FirstOtherOwner(members, q.user) \in Users \ {q.user}
          /\ members[FirstOtherOwner(members, q.user)] = "owner"
      BY <3>1, HeirIsOwner
    <3> QED
      BY <1>1, <3>2
  <2> QED
    BY <2>1, <2>2
<1>4. CASE ~(q.op = "role" /\ q.role = "owner") /\ ~(q.seen = "owner" /\ q.copy.owner = q.user)
  <2>1. NewPrimary(q) = q.copy.owner
    BY <1>4 DEF NewPrimary
  <2>2. members[owner] = "owner" /\ owner # q.user
    BY <1>1, <1>4, <2>1
  <2> QED
    BY <1>1, <2>1, <2>2
<1> QED
  BY <1>2, <1>3, <1>4

\* The write of a member row, with the note of whom it overtakes: the call
\* goes on to the book where the primary owner must change.
LEMMA RowDrift ==
    ASSUME TypeOK, ControlInv, DriftInv, NEW r \in Reqs, Checked(req[r]), UNCHANGED book,
           member' = [member EXCEPT ![req[r].bookID][req[r].user] =
                         IF req[r].op = "role" THEN req[r].role ELSE None],
           member' \in [Books -> Membership], Overtake(r), AfterWrite(r, ReconcilePrimaryOwner(req[r]))
    PROVE  DriftInv'
<1> DEFINE q == req[r]
           b == q.bookID
           n == ReconcilePrimaryOwner(q)
<1>1. /\ q \in Request /\ q.copy \in BookRecord /\ q.op \in {"role", "remove"} /\ ~HalfDone(q)
      /\ b \in Books /\ q.user \in Users
  BY DEF TypeOK, ControlInv, ControlOf, Checked, HalfDone, Request
<1>2. ~HalfDone(Idle) /\ \A members, owner : UpToDate(Idle, members, owner)
  BY NothingHeld DEF Idle, Arrival
<1>3. \/ NewPrimary(q) = q.copy.owner /\ n = Idle
      \/ /\ NewPrimary(q) # q.copy.owner /\ n # Idle /\ HalfDone(n) /\ n.bookID = b
         /\ n.copy.owner = NewPrimary(q)
  BY <1>1 DEF ReconcilePrimaryOwner, Holding, HalfDone, Idle, Arrival
<1>4. PICK p \in {n, Idle} : /\ \A s \in Reqs : req'[s] = IF s = r THEN p ELSE req[s]
                             /\ drifted \subseteq drifted'
                             /\ b \notin drifted' => r \notin overtaken /\ p = n
  BY DEF AfterWrite, Continue, Finish, NoteDrift, TypeOK
<1>5. /\ overtaken \subseteq overtaken'
      /\ \A s \in Reqs \ {r} : req[s].bookID = b /\ s \notin overtaken' => req[s].copy = NoBook
  BY DEF Overtake
<1>6. /\ \A c \in Books \ {b} : member'[c] = member[c]
      /\ \A u \in Users : member'[b][u] = IF u # q.user THEN member[b][u]
                                          ELSE IF q.op = "role" THEN q.role ELSE None
  BY <1>1 DEF TypeOK, Membership
<1> SUFFICES ASSUME NEW c \in Books, book[c] # NoBook, c \notin drifted'
             PROVE  /\ (\A s \in Reqs : req'[s].bookID = c => ~HalfDone(req'[s])) => member'[c][book[c].owner] = "owner"
                    /\ \A s \in Reqs \ overtaken' : req'[s].bookID = c => UpToDate(req'[s], member'[c], book[c].owner)
  BY DEF DriftInv
<1> HIDE DEF n, q
<1>7. CASE c # b
  <2>1. \A s \in Reqs : req'[s].bookID = c => req'[s] = Idle \/ (s # r /\ req'[s] = req[s])
    BY <1>3, <1>4, <1>7
  <2>2. \A s \in Reqs : HalfDone(req[s]) /\ req[s].bookID = c => req'[s] = req[s]
    BY <1>4, <1>7 DEF q
  <2>3. c \notin drifted /\ member'[c] = member[c]
    BY <1>4, <1>6, <1>7
  <2> QED
    BY <1>2, <1>5, <2>1, <2>2, <2>3 DEF DriftInv
<1>8. CASE c = b
  <2>1. r \notin overtaken /\ b \notin drifted /\ UpToDate(q, member[b], book[b].owner)
    BY <1>4, <1>8 DEF DriftInv, q
  <2>2. \A s \in Reqs \ {r} : req'[s] = req[s]
    BY <1>4
  <2>3. req'[r] = n
    BY <1>4, <1>8
  <2>4. ASSUME NewPrimary(q) # q.copy.owner \/ member[b][book[b].owner] = "owner"
        PROVE  member'[b][NewPrimary(q)] = "owner"
    <3> DEFINE owner == book[b].owner
               members == member[b]
               after == member'[b]
    <3>1. members \in Membership /\ after \in Membership /\ Checked(q)
      BY <1>1 DEF TypeOK, q
    <3>2. /\ UpToDate(q, members, owner) /\ (NewPrimary(q) # q.copy.owner \/ members[owner] = "owner")
          /\ \A u \in Users : after[u] = IF u # q.user THEN members[u]
                                         ELSE IF q.op = "role" THEN q.role ELSE None
      BY <1>6, <2>1, <2>4
    <3> HIDE DEF owner, members, after, b
    <3>3. after[NewPrimary(q)] = "owner"
      BY <1>1, <3>1, <3>2, NewPrimaryIsOwner
    <3> QED
      BY <3>3 DEF after
  <2>5. ASSUME \A s \in Reqs : req'[s].bookID = b => ~HalfDone(req'[s])
        PROVE  member'[b][book[b].owner] = "owner"
    <3>1. NewPrimary(q) = q.copy.owner
      BY <1>3, <2>3, <2>5
    <3>2. \A s \in Reqs : req[s].bookID = b => ~HalfDone(req[s])
      BY <1>1, <2>2, <2>5 DEF q
    <3>3. member[b][book[b].owner] = "owner"
      BY <1>8, <2>1, <3>2 DEF DriftInv
    <3>4. q.copy.owner = book[b].owner
      BY <2>1 DEF UpToDate, Checked, q
    <3> QED
      BY <2>4, <3>1, <3>3, <3>4
  <2>6. ASSUME NEW s \in Reqs \ overtaken', req'[s].bookID = b
        PROVE  UpToDate(req'[s], member'[b], book[b].owner)
    <3>1. CASE s = r /\ n = Idle
      BY <1>2, <2>3, <3>1
    <3>2. CASE s = r /\ n # Idle
      <4>1. HalfDone(n) /\ member'[b][n.copy.owner] = "owner"
        BY <1>3, <2>4, <3>2
      <4> QED
        BY <2>3, <3>2, <4>1 DEF UpToDate, HalfDone, Checked
    <3>3. CASE s # r
      BY <1>5, <2>2, <2>6, <3>3, NoCopy
    <3> QED
      BY <3>1, <3>2, <3>3
  <2> QED
    BY <1>8, <2>5, <2>6
<1> QED
  BY <1>7, <1>8

\* The steps that write, replace or delete member rows.
LEMMA MemberDrift ==
    ASSUME TypeOK, TypeOK', ControlInv, DriftInv, NEW r \in Reqs, MemberWrites(r)
    PROVE  DriftInv'
<1> DEFINE q == req[r]
<1>1. q \in Request /\ ControlOf(q) /\ member' \in [Books -> Membership]
  BY DEF TypeOK, ControlInv
<1>2. ~HalfDone(Idle) /\ \A members, owner : UpToDate(Idle, members, owner)
  BY NothingHeld DEF Idle, Arrival
<1>3. ASSUME Checked(q), Finish(r), UNCHANGED <<book, member, drift>> PROVE DriftInv'
  <2>1. ~HalfDone(q)
    BY <1>3 DEF Checked, HalfDone
  <2>2. req' = [req EXCEPT ![r] = Idle] /\ UNCHANGED <<book, member, overtaken, drifted>>
    BY <1>3 DEF Finish, Continue, drift
  <2> HIDE DEF q
  <2> QED
    BY <1>2, <2>1, <2>2, MoveDrift DEF q
<1>4. CASE CreateMember(r)
  BY <1>4, AddDrift
<1>5. CASE WriteMember(r)
  <2>1. q.op = "role" /\ Checked(q) /\ UNCHANGED book
    BY <1>1, <1>5 DEF WriteMember, ControlOf, Checked
  <2>2. CASE member[q.bookID][q.user] = None
    BY <1>3, <1>5, <2>1, <2>2 DEF WriteMember
  <2>3. CASE member[q.bookID][q.user] # None
    <3>1. /\ member' = [member EXCEPT ![q.bookID][q.user] = IF q.op = "role" THEN q.role ELSE None]
          /\ Overtake(r) /\ AfterWrite(r, ReconcilePrimaryOwner(q))
      BY <1>5, <2>1, <2>3 DEF WriteMember
    <3> QED
      BY <1>1, <2>1, <3>1, RowDrift
  <2> QED
    BY <2>2, <2>3
<1>6. ASSUME q.pc \in {"deleteMember", "deleteRow"}, UNCHANGED book, Overtake(r),
             member' = [member EXCEPT ![q.bookID][q.user] = None], AfterWrite(r, ReconcilePrimaryOwner(q))
      PROVE  DriftInv'
  <2>1. q.op = "remove" /\ Checked(q)
    BY <1>1, <1>6 DEF ControlOf, Checked
  <2>2. member' = [member EXCEPT ![q.bookID][q.user] = IF q.op = "role" THEN q.role ELSE None]
    BY <1>6, <2>1
  <2> QED
    BY <1>1, <1>6, <2>1, <2>2, RowDrift
<1>7. CASE DeleteMember(r)
  <2>1. q.pc = "deleteMember" /\ UNCHANGED book /\ Checked(q) /\ ~HalfDone(q)
    BY <1>7 DEF DeleteMember, Checked, HalfDone
  <2>2. CASE Finish(r) /\ UNCHANGED <<member, drift>>
    BY <1>3, <2>1, <2>2
  <2>3. CASE Continue(r, Holding(q, "deleteRow", q.seen, q.heir, q.copy)) /\ UNCHANGED <<member, drift>>
    <3> DEFINE h == Holding(q, "deleteRow", q.seen, q.heir, q.copy)
    <3>1. /\ h.pc = "deleteRow" /\ h.op = q.op /\ h.bookID = q.bookID /\ h.user = q.user /\ h.role = q.role
          /\ h.seen = q.seen /\ h.heir = q.heir /\ h.copy = q.copy
      BY DEF Holding
    <3>2. req' = [req EXCEPT ![r] = h] /\ UNCHANGED <<book, member, overtaken, drifted>>
      BY <2>1, <2>3 DEF Continue, drift
    <3> HIDE DEF h
    <3>3. ~HalfDone(h)
      BY <3>1 DEF HalfDone
    <3>4. ASSUME h.bookID \notin drifted', book[h.bookID] # NoBook, r \notin overtaken'
          PROVE  UpToDate(h, member[h.bookID], book[h.bookID].owner)
      <4>1. UpToDate(q, member[q.bookID], book[q.bookID].owner)
        BY <1>1, <3>1, <3>2, <3>4 DEF DriftInv, Request
      <4> QED
        BY <2>1, <3>1, <3>3, <4>1 DEF UpToDate, Checked, Demotes
    <3> HIDE DEF q
    <3> QED
      BY <2>1, <3>2, <3>3, <3>4, MoveDrift DEF q
  <2>4. CASE /\ member' = [member EXCEPT ![q.bookID][q.user] = None]
             /\ Overtake(r) /\ AfterWrite(r, ReconcilePrimaryOwner(q))
    BY <1>6, <2>1, <2>4
  <2> QED
    BY <1>7, <2>2, <2>3, <2>4 DEF DeleteMember
<1>8. CASE DeleteRow(r)
  BY <1>6, <1>8 DEF DeleteRow
<1> QED
  BY <1>4, <1>5, <1>7, <1>8 DEF MemberWrites

\* The write of the whole book record.
LEMMA BookDrift ==
    ASSUME TypeOK, ControlInv, DriftInv, NEW r \in Reqs, WriteBook(r)
    PROVE  DriftInv'
<1> DEFINE q == req[r]
           b == q.bookID
<1>1. /\ q.pc = "writeBook" /\ q.bookID \in Books /\ book[b] # NoBook
      /\ book' = [book EXCEPT ![b] = q.copy] /\ UNCHANGED member
      /\ \A s \in Reqs : req'[s] = IF s = r THEN Idle ELSE req[s]
      /\ drifted \subseteq drifted' /\ (b \notin drifted' => r \notin overtaken)
      /\ IF q.copy.owner = book[b].owner THEN UNCHANGED overtaken ELSE Overtake(r)
  BY DEF WriteBook, Finish, Continue, NoteDrift, TypeOK, Request, ControlInv, ControlOf
<1>2. ~HalfDone(Idle) /\ \A members, owner : UpToDate(Idle, members, owner)
  BY NothingHeld DEF Idle, Arrival
<1>3. overtaken \subseteq overtaken'
  BY <1>1 DEF Overtake
<1> SUFFICES ASSUME NEW c \in Books, book'[c] # NoBook, c \notin drifted'
             PROVE  /\ (\A s \in Reqs : req'[s].bookID = c => ~HalfDone(req'[s])) => member[c][book'[c].owner] = "owner"
                    /\ \A s \in Reqs \ overtaken' : req'[s].bookID = c => UpToDate(req'[s], member[c], book'[c].owner)
  BY <1>1 DEF DriftInv
<1>4. CASE c # b
  <2>1. book'[c] = book[c] /\ c \notin drifted
    BY <1>1, <1>4 DEF TypeOK
  <2>2. \A s \in Reqs : req[s].bookID = c => req'[s] = req[s]
    BY <1>1, <1>4
  <2>3. \A s \in Reqs : req'[s] = req[s] \/ req'[s] = Idle
    BY <1>1
  <2> QED
    BY <1>2, <1>3, <2>1, <2>2, <2>3 DEF DriftInv
<1>5. CASE c = b
  <2>1. r \notin overtaken /\ b \notin drifted /\ book'[b] = q.copy /\ UpToDate(q, member[b], book[b].owner)
    BY <1>1, <1>5 DEF DriftInv, TypeOK
  <2>2. ASSUME \A s \in Reqs : req'[s].bookID = b => ~HalfDone(req'[s])
        PROVE  member[b][q.copy.owner] = "owner"
    <3>1. CASE HalfDone(q)
      BY <2>1, <3>1 DEF UpToDate
    <3>2. CASE ~HalfDone(q)
      <4>1. \A s \in Reqs : req[s].bookID = b => ~HalfDone(req[s])
        BY <1>1, <2>2, <3>2
      <4>2. q.copy.owner = book[b].owner
        BY <1>1, <2>1, <3>2 DEF UpToDate
      <4> QED
        BY <1>1, <2>1, <4>1, <4>2 DEF DriftInv
    <3> QED
      BY <3>1, <3>2
  <2>3. ASSUME NEW s \in Reqs \ overtaken', req'[s].bookID = b
        PROVE  UpToDate(req'[s], member[b], q.copy.owner)
    <3>1. CASE s = r
      BY <1>1, <1>2, <3>1
    <3>2. CASE s # r /\ q.copy.owner = book[b].owner
      BY <1>1, <1>3, <2>1, <2>3, <3>2 DEF DriftInv
    <3>3. CASE s # r /\ q.copy.owner # book[b].owner
      <4>1. req'[s] = req[s] /\ req[s].copy = NoBook
        BY <1>1, <2>3, <3>3 DEF Overtake
      <4> QED
        BY <4>1, NoCopy
    <3> QED
      BY <3>1, <3>2, <3>3
  <2> QED
    BY <1>5, <2>1, <2>2, <2>3
<1> QED
  BY <1>4, <1>5

\* The notes cover every step.
LEMMA DriftStep ==
    ASSUME TypeOK, TypeOK', ControlInv, DriftInv, [Next]_vars
    PROVE  DriftInv'
<1>1. CASE UNCHANGED vars
  BY <1>1 DEF vars, drift, DriftInv
<1> QED
  BY <1>1, NewBookDrift, ArrivalDrift, ReadDrift, MemberDrift, BookDrift DEF Next, Step, Reads, MemberWrites

\* For any number of handlers and every store failure, the primary owner of a
\* book whose calls are done is one of its owners, unless a handler wrote over
\* a change it had not seen or the book write of a call was lost.
THEOREM PrimaryNeedsRace == Spec => []PrimaryLostOnlyByRace
<1>1. Init => DriftInv
  BY DEF Init, DriftInv
<1>2. TypeOK /\ TypeOK' /\ ControlInv /\ DriftInv /\ [Next]_vars => DriftInv'
  BY DriftStep
<1>3. DriftInv => PrimaryLostOnlyByRace
  BY DEF DriftInv, PrimaryLostOnlyByRace, Pending, HalfDone
<1> QED
  BY <1>1, <1>2, <1>3, BookRequestsTypes, PTL DEF Spec

-----------------------------------------------------------------------------
(* A single handler on the memory store implements the whole calls: what   *)
(* it has read stays true until it writes.                                 *)

Serial == Driver = "memory" /\ \A r, s \in Reqs : r = s

\* What the only handler holds is still so.
SerialOf(q) ==
    LET members == member[q.bookID]
        stored == book[q.bookID]
    IN
    /\ q.pc \in {"authMember", "authBook"} =>
          IF q.op = "settings" THEN q.patch \in Patches ELSE q.patch = NoPatch
    /\ q.pc = "authBook" => \E u \in Users : members[u] = q.seen
    /\ q.pc \in {"existing", "create", "members", "writeMember", "deleteMember"}
       \/ (q.pc = "writeBook" /\ q.op = "settings") => \E u \in Users : IsManager(members[u])
    /\ q.pc \in {"existing", "create"} => IsAssignableNewMemberRole(q.role)
    /\ q.pc = "create" => members[q.user] = None
    /\ q.pc \in {"members", "writeMember", "deleteMember"} => q.copy = stored
    /\ q.pc \in {"writeMember", "deleteMember"} =>
          /\ TargetAllowed(q, members) /\ q.seen = members[q.user]
          /\ q.heir = FirstOtherOwner(members, q.user)
    /\ q.pc = "writeBook" =>
          \/ /\ q.op = "settings" /\ q.patch \in Patches
             /\ q.copy = [owner |-> stored.owner, settings |-> Patched(stored.settings, q.patch)]
          \/ q.op \in {"role", "remove"}
    /\ q.pc # "deleteRow"

SerialInv == \A r \in Reqs : SerialOf(req[r])

\* Request q has changed its member row and is still to write the book b.
Awaited(q, b) == q.pc = "writeBook" /\ q.bookID = b /\ q.op \in {"role", "remove"}

\* With one handler the refinement mapping needs no choice.
LEMMA SettledBooks ==
    ASSUME Serial, NEW r \in Reqs
    PROVE  /\ Settled = [b \in Books |-> IF Awaited(req[r], b) THEN req[r].copy ELSE book[b]]
           /\ Settled' = [b \in Books |-> IF Awaited(req'[r], b) THEN req'[r].copy ELSE book'[b]]
<1>1. \A s \in Reqs : s = r
  BY DEF Serial
<1>2. \A b \in Books : Pending(b) = IF Awaited(req[r], b) THEN {r} ELSE {}
  BY <1>1 DEF Pending, Awaited
<1>3. \A b \in Books : Pending(b)' = IF Awaited(req'[r], b) THEN {r} ELSE {}
  BY <1>1 DEF Pending, Awaited
<1>4. (CHOOSE s \in {r} : TRUE) = r
  OBVIOUS
<1>5. Settled = [b \in Books |-> IF Awaited(req[r], b) THEN req[r].copy ELSE book[b]]
  BY <1>2, <1>4 DEF Settled
<1>6. Settled' = [b \in Books |-> IF Awaited(req'[r], b) THEN req'[r].copy ELSE book'[b]]
  BY <1>3, <1>4 DEF Settled
<1> QED
  BY <1>5, <1>6

\* The only handler moves on.
LEMMA SerialMoves ==
    ASSUME Serial, TypeOK, NEW r \in Reqs, NEW h, Continue(r, h),
           req'[r] = h => SerialOf(req[r])'
    PROVE  SerialInv' /\ req'[r] = h
<1>1. req'[r] = h /\ \A s \in Reqs : s = r
  BY DEF TypeOK, Continue, Serial
<1> QED
  BY <1>1 DEF SerialInv

\* A step that writes nothing is a stutter of the calls.
LEMMA QuietCall ==
    ASSUME Serial, TypeOK, NEW r \in Reqs, NEW h, Continue(r, h), UNCHANGED <<book, member>>,
           \A b \in Books : ~Awaited(req[r], b) /\ ~Awaited(h, b),
           req'[r] = h => SerialOf(req[r])'
    PROVE  SerialInv' /\ UNCHANGED Calls!vars
<1>1. SerialInv' /\ req'[r] = h
  BY SerialMoves
<1>2. Settled' = Settled
  BY <1>1, SettledBooks
<1> QED
  BY <1>1, <1>2 DEF Calls!vars

\* A handler that has ended holds nothing.
LEMMA IdleSerial ==
    ASSUME NEW r \in Reqs
    PROVE  /\ req'[r] = Idle => SerialOf(req[r])'
           /\ \A b \in Books : ~Awaited(Idle, b)
<1>1. Idle.pc = "idle"
  BY DEF Idle, Arrival
<1> HIDE DEF Idle
<1> QED
  BY <1>1 DEF SerialOf, Awaited

\* A book record is its owner and its settings.
LEMMA RecordIs == \A b \in BookRecord : b = [owner |-> b.owner, settings |-> b.settings]
  BY DEF BookRecord

\* The reading steps keep what the handler holds.
LEMMA SerialReads ==
    ASSUME Serial, TypeOK, ControlInv, SerialInv, NEW r \in Reqs, Reads(r)
    PROVE  SerialInv' /\ UNCHANGED Calls!vars
<1> DEFINE q == req[r]
           members == member[q.bookID]
           stored == book[q.bookID]
<1>1. /\ q \in Request /\ ControlOf(q) /\ SerialOf(q) /\ q.bookID \in Books /\ q.user \in Users
      /\ q.op \in Ops
  BY DEF TypeOK, ControlInv, SerialInv, Request
<1>2. CASE AuthMember(r)
  <2> DEFINE h == IF members[q.actor] = None THEN Idle
                  ELSE Holding(q, "authBook", members[q.actor], q.heir, q.copy)
  <2>1. q.pc = "authMember" /\ UNCHANGED <<book, member>> /\ Continue(r, h) /\ q.actor \in Users
    BY <1>1, <1>2 DEF AuthMember, Request
  <2>2. h = Idle \/ /\ h.pc = "authBook" /\ h.op = q.op /\ h.patch = q.patch
                    /\ h.bookID = q.bookID /\ h.seen = members[q.actor]
    BY DEF Holding
  <2> HIDE DEF h
  <2>3. ASSUME req'[r] = h PROVE SerialOf(req[r])'
    BY <1>1, <2>1, <2>2, <2>3, IdleSerial DEF SerialOf
  <2>4. \A b \in Books : ~Awaited(q, b) /\ ~Awaited(h, b)
    BY <2>1, <2>2, IdleSerial DEF Awaited
  <2> QED
    BY <2>1, <2>3, <2>4, QuietCall
<1>3. CASE AuthBook(r)
  <2> DEFINE copy == [owner |-> stored.owner, settings |-> Patched(stored.settings, q.patch)]
             g == Holding(q, AfterAuthorization(q.op), None, q.heir, copy)
             h == IF ~IsManager(q.seen) \/ ~ValidRequest(q) THEN Idle ELSE g
  <2>1. q.pc = "authBook" /\ UNCHANGED <<book, member>> /\ Continue(r, h)
    BY <1>3 DEF AuthBook
  <2>2. /\ g.pc = AfterAuthorization(q.op) /\ g.op = q.op /\ g.bookID = q.bookID
        /\ g.patch = q.patch /\ g.copy = copy /\ g.role = q.role
    BY DEF Holding
  <2>3. h = Idle \/ (h = g /\ IsManager(q.seen) /\ ValidRequest(q))
    OBVIOUS
  <2>4. stored \in BookRecord
    BY <1>1, <2>1 DEF ControlOf, TypeOK
  <2>5. q.op # "settings" => copy = stored
    <3>1. q.op # "settings" => q.patch = NoPatch
      BY <1>1, <2>1 DEF SerialOf
    <3>2. Patched(stored.settings, NoPatch) = stored.settings
      BY <2>4 DEF Patched, NoPatch, BookRecord, Settings
    <3> QED
      BY <2>4, <3>1, <3>2, RecordIs
  <2>6. \E u \in Users : members[u] = q.seen
    BY <1>1, <2>1 DEF SerialOf
  <2>7. q.op = "settings" => q.patch \in Patches
    BY <1>1, <2>1 DEF SerialOf
  <2> HIDE DEF h, g
  <2>8. ASSUME req'[r] = g, h = g PROVE SerialOf(req[r])'
    <3>1. IsManager(q.seen) /\ ValidRequest(q)
      BY <2>3, <2>8, <2>2, <1>1 DEF Idle, Arrival, AfterAuthorization
    <3>2. CASE q.op = "settings"
      BY <2>1, <2>2, <2>6, <2>7, <2>8, <3>1, <3>2 DEF SerialOf, AfterAuthorization
    <3>3. CASE q.op = "add"
      BY <2>1, <2>2, <2>6, <2>8, <3>1, <3>3 DEF SerialOf, AfterAuthorization, ValidRequest
    <3>4. CASE q.op \in {"role", "remove"}
      BY <2>1, <2>2, <2>5, <2>6, <2>8, <3>1, <3>4 DEF SerialOf, AfterAuthorization
    <3> QED
      BY <1>1, <3>2, <3>3, <3>4 DEF Ops
  <2>9. ASSUME req'[r] = h PROVE SerialOf(req[r])'
    BY <2>3, <2>8, <2>9, IdleSerial
  <2>10. \A b \in Books : ~Awaited(q, b) /\ ~Awaited(h, b)
    BY <2>1, <2>2, <2>3, IdleSerial DEF Awaited, AfterAuthorization
  <2> QED
    BY <2>1, <2>9, <2>10, QuietCall
<1>4. CASE LoadExisting(r)
  <2> DEFINE g == Holding(q, "create", None, q.heir, NoBook)
  <2>1. /\ q.pc = "existing" /\ UNCHANGED <<book, member>>
        /\ Continue(r, Idle) \/ (Continue(r, g) /\ members[q.user] = None)
    BY <1>4 DEF LoadExisting, Finish, Serial
  <2>2. g.pc = "create" /\ g.bookID = q.bookID /\ g.user = q.user /\ g.role = q.role
    BY DEF Holding
  <2> HIDE DEF g
  <2>3. ASSUME req'[r] = g, members[q.user] = None PROVE SerialOf(req[r])'
    BY <1>1, <2>1, <2>2, <2>3 DEF SerialOf
  <2>4. \A b \in Books : ~Awaited(q, b) /\ ~Awaited(g, b)
    BY <2>1, <2>2 DEF Awaited
  <2> QED
    BY <2>1, <2>3, <2>4, IdleSerial, QuietCall
<1>5. CASE LoadMembers(r)
  <2> DEFINE g == Holding(q, IF q.op = "role" THEN "writeMember" ELSE "deleteMember",
                          members[q.user], FirstOtherOwner(members, q.user), q.copy)
  <2>1. /\ q.pc = "members" /\ UNCHANGED <<book, member>>
        /\ Continue(r, Idle) \/ (Continue(r, g) /\ TargetAllowed(q, members))
    BY <1>5 DEF LoadMembers
  <2>2. /\ g.pc \in {"writeMember", "deleteMember"} /\ g.bookID = q.bookID /\ g.user = q.user
        /\ g.role = q.role /\ g.op = q.op /\ g.copy = q.copy /\ g.seen = members[q.user]
        /\ g.heir = FirstOtherOwner(members, q.user)
    BY DEF Holding
  <2> HIDE DEF g
  <2>3. TargetAllowed(q, members) => TargetAllowed(g, members)
    BY <2>2 DEF TargetAllowed
  <2>4. ASSUME req'[r] = g, TargetAllowed(q, members) PROVE SerialOf(req[r])'
    BY <1>1, <2>1, <2>2, <2>3, <2>4 DEF SerialOf
  <2>5. \A b \in Books : ~Awaited(q, b) /\ ~Awaited(g, b)
    BY <2>1, <2>2 DEF Awaited
  <2> QED
    BY <2>1, <2>4, <2>5, IdleSerial, QuietCall
<1> QED
  BY <1>2, <1>3, <1>4, <1>5 DEF Reads, StoreError, Serial

\* BookMembership has the roles and their tests from BookRoles, as
\* BookRequests has.
LEMMA SameRoles ==
    /\ Calls!None = None /\ Calls!Roles = Roles /\ Calls!RequestedRoles = RequestedRoles
    /\ Calls!Patches = Patches /\ Calls!Settings = Settings
    /\ \A role : Calls!IsManager(role) <=> IsManager(role)
    /\ \A role : Calls!IsSupportedMemberRole(role) <=> IsSupportedMemberRole(role)
    /\ \A role : Calls!IsAssignableNewMemberRole(role) <=> IsAssignableNewMemberRole(role)
    /\ \A m, u : Calls!IsSoleOwner(m, u) <=> IsSoleOwner(m, u)
    /\ \A m, u : Calls!FirstOtherOwner(m, u) = FirstOtherOwner(m, u)
    /\ \A s, p : Calls!Patched(s, p) = Patched(s, p)
<1>1. Calls!None = None /\ Calls!Roles = Roles /\ Calls!RequestedRoles = RequestedRoles
  BY DEF Calls!None, None, Calls!Roles, Roles, Calls!RequestedRoles, RequestedRoles
<1>2. Calls!Patches = Patches /\ Calls!Settings = Settings
  BY DEF Calls!Patches, Patches, Calls!Settings, Settings
<1>3. /\ \A role : Calls!IsManager(role) <=> IsManager(role)
      /\ \A role : Calls!IsSupportedMemberRole(role) <=> IsSupportedMemberRole(role)
      /\ \A role : Calls!IsAssignableNewMemberRole(role) <=> IsAssignableNewMemberRole(role)
  BY <1>1 DEF Calls!IsManager, IsManager, Calls!IsSupportedMemberRole, IsSupportedMemberRole,
              Calls!IsAssignableNewMemberRole, IsAssignableNewMemberRole
<1>4. \A m : Calls!OwnersOf(m) = OwnersOf(m)
  BY DEF Calls!OwnersOf, OwnersOf
<1>5. \A m, u : Calls!IsSoleOwner(m, u) <=> IsSoleOwner(m, u)
  BY <1>4 DEF Calls!IsSoleOwner, IsSoleOwner
<1>6. \A m, u : Calls!FirstOtherOwner(m, u) = FirstOtherOwner(m, u)
  BY DEF Calls!FirstOtherOwner, FirstOtherOwner, Calls!OwnersOf, OwnersOf
<1>7. \A s, p : Calls!Patched(s, p) = Patched(s, p)
  BY DEF Calls!Patched, Patched
<1> QED
  BY <1>1, <1>2, <1>3, <1>5, <1>6, <1>7

\* The calls that a handler may have made, named by what they change.
LEMMA ACall ==
    ASSUME NEW b \in Books, NEW actor \in Users, NEW user \in Users, NEW role \in RequestedRoles,
           \/ Calls!AddBookMember(b, actor, user, role)
           \/ Calls!UpdateBookMemberRole(b, actor, user, role)
           \/ Calls!RemoveBookMember(b, actor, user)
           \/ \E p \in Patches : Calls!UpdateBook(b, actor, p)
    PROVE  Calls!Next
  BY SameRoles DEF Calls!Next

\* AddBookMember takes effect when its row is stored.
LEMMA SerialCreate ==
    ASSUME Serial, TypeOK, ControlInv, SerialInv, NEW r \in Reqs, CreateMember(r)
    PROVE  SerialInv' /\ [Calls!Next]_(Calls!vars)
<1> DEFINE q == req[r]
           b == q.bookID
<1>1. /\ q \in Request /\ ControlOf(q) /\ SerialOf(q) /\ b \in Books /\ q.user \in Users
      /\ q.role \in RequestedRoles
  BY DEF TypeOK, ControlInv, SerialInv, Request
<1>2. q.pc = "create" /\ Continue(r, Idle) /\ UNCHANGED book
  BY DEF CreateMember, Finish
<1>3. PICK u \in Users : IsManager(member[b][u])
  BY <1>1, <1>2 DEF SerialOf
<1>4. member[b][q.user] = None /\ IsAssignableNewMemberRole(q.role) /\ book[b] # NoBook
  BY <1>1, <1>2 DEF SerialOf, ControlOf
<1>5. SerialInv' /\ req'[r] = Idle
  BY <1>2, IdleSerial, SerialMoves
<1>6. Settled = book /\ Settled' = book
  BY <1>2, <1>5, SettledBooks, IdleSerial DEF Awaited, TypeOK
<1>7. Calls!AddBookMember(b, u, q.user, q.role)
  BY <1>3, <1>4, <1>6, SameRoles DEF CreateMember, Calls!AddBookMember, Calls!Authorized
<1> QED
  BY <1>1, <1>3, <1>5, <1>7, ACall

\* A role change and a removal take effect when the member row is written:
\* the book is as good as written.
LEMMA MemberCall ==
    ASSUME Serial, TypeOK, ControlInv, SerialInv, NEW r \in Reqs,
           req[r].pc \in {"writeMember", "deleteMember"},
           Continue(r, ReconcilePrimaryOwner(req[r])), UNCHANGED book
    PROVE  LET q == req[r] IN
           /\ SerialInv' /\ Settled = book
           /\ Settled' = [book EXCEPT ![q.bookID] = [owner |-> NewPrimary(q),
                                                     settings |-> book[q.bookID].settings]]
<1> DEFINE q == req[r]
           b == q.bookID
           h == ReconcilePrimaryOwner(q)
           new == [owner |-> NewPrimary(q), settings |-> book[b].settings]
<1>1. /\ q \in Request /\ ControlOf(q) /\ SerialOf(q) /\ b \in Books
  BY DEF TypeOK, ControlInv, SerialInv, Request
<1>2. q.copy = book[b] /\ book[b] \in BookRecord /\ q.op \in {"role", "remove"}
  BY <1>1 DEF SerialOf, ControlOf
<1>3. CASE NewPrimary(q) = q.copy.owner
  <2>1. h = Idle /\ new = book[b]
    BY <1>2, <1>3, RecordIs DEF ReconcilePrimaryOwner
  <2>2. SerialInv' /\ req'[r] = Idle
    BY <2>1, IdleSerial, SerialMoves
  <2>3. Settled = book /\ Settled' = book
    BY <2>2, SettledBooks, IdleSerial DEF Awaited, TypeOK
  <2>4. [book EXCEPT ![b] = new] = book
    BY <1>1, <2>1 DEF TypeOK
  <2> QED
    BY <2>2, <2>3, <2>4
<1>4. CASE NewPrimary(q) # q.copy.owner
  <2>1. h.pc = "writeBook" /\ h.bookID = b /\ h.op = q.op /\ h.copy = new
    BY <1>2, <1>4 DEF ReconcilePrimaryOwner, Holding
  <2> HIDE DEF h
  <2>2. ASSUME req'[r] = h PROVE SerialOf(req[r])'
    BY <1>2, <2>1, <2>2 DEF SerialOf
  <2>3. SerialInv' /\ req'[r] = h
    BY <2>2, SerialMoves DEF h
  <2>4. Settled = book
    BY SettledBooks DEF Awaited, TypeOK
  <2>5. Settled' = [c \in Books |-> IF c = b THEN new ELSE book[c]]
    BY <1>2, <2>1, <2>3, SettledBooks DEF Awaited
  <2>6. [book EXCEPT ![b] = new] = [c \in Books |-> IF c = b THEN new ELSE book[c]]
    BY DEF TypeOK
  <2> QED
    BY <2>3, <2>4, <2>5, <2>6
<1> QED
  BY <1>3, <1>4

\* UpdateBookMemberRole
LEMMA SerialWrite ==
    ASSUME Serial, TypeOK, ControlInv, SerialInv, NEW r \in Reqs, WriteMember(r)
    PROVE  SerialInv' /\ [Calls!Next]_(Calls!vars)
<1> DEFINE q == req[r]
           b == q.bookID
<1>1. /\ q \in Request /\ ControlOf(q) /\ SerialOf(q) /\ b \in Books /\ q.user \in Users
      /\ q.role \in RequestedRoles /\ q.pc = "writeMember" /\ UNCHANGED book
  BY DEF TypeOK, ControlInv, SerialInv, Request, WriteMember
<1>2. /\ q.op = "role" /\ q.role \in Roles /\ book[b] # NoBook /\ q.copy = book[b]
      /\ TargetAllowed(q, member[b]) /\ q.seen = member[b][q.user]
      /\ q.heir = FirstOtherOwner(member[b], q.user)
  BY <1>1 DEF SerialOf, ControlOf
<1>3. PICK u \in Users : IsManager(member[b][u])
  BY <1>1 DEF SerialOf
<1>4. /\ member' = [member EXCEPT ![b][q.user] = q.role]
      /\ Continue(r, ReconcilePrimaryOwner(q))
  BY <1>2 DEF WriteMember, TargetAllowed, AfterWrite, Serial
<1>5. /\ SerialInv' /\ Settled = book
      /\ Settled' = [book EXCEPT ![b] = [owner |-> NewPrimary(q), settings |-> book[b].settings]]
  BY <1>1, <1>4, MemberCall
<1>6. NewPrimary(q) = Calls!ReconciledOwner(book[b].owner, member[b], q.user, q.role)
  BY <1>2, SameRoles DEF NewPrimary, Calls!ReconciledOwner
<1>7. Calls!MayTakeRole(member[b], q.user, q.role)
  BY <1>2, SameRoles DEF TargetAllowed, Calls!MayTakeRole, IsSupportedMemberRole
<1>8. Calls!UpdateBookMemberRole(b, u, q.user, q.role)
  BY <1>2, <1>3, <1>4, <1>5, <1>6, <1>7, SameRoles
  DEF Calls!UpdateBookMemberRole, Calls!Authorized, Calls!WithOwner
<1> QED
  BY <1>1, <1>3, <1>5, <1>8, ACall

\* RemoveBookMember
LEMMA SerialDelete ==
    ASSUME Serial, TypeOK, ControlInv, SerialInv, NEW r \in Reqs, DeleteMember(r)
    PROVE  SerialInv' /\ [Calls!Next]_(Calls!vars)
<1> DEFINE q == req[r]
           b == q.bookID
<1>1. /\ q \in Request /\ ControlOf(q) /\ SerialOf(q) /\ b \in Books /\ q.user \in Users
      /\ q.role \in RequestedRoles /\ q.pc = "deleteMember" /\ UNCHANGED book
  BY DEF TypeOK, ControlInv, SerialInv, Request, DeleteMember
<1>2. /\ q.op = "remove" /\ book[b] # NoBook /\ q.copy = book[b]
      /\ TargetAllowed(q, member[b]) /\ q.seen = member[b][q.user]
      /\ q.heir = FirstOtherOwner(member[b], q.user)
  BY <1>1 DEF SerialOf, ControlOf
<1>3. PICK u \in Users : IsManager(member[b][u])
  BY <1>1 DEF SerialOf
<1>4. /\ member' = [member EXCEPT ![b][q.user] = None]
      /\ Continue(r, ReconcilePrimaryOwner(q))
  BY <1>2 DEF DeleteMember, TargetAllowed, AfterWrite, Serial
<1>5. /\ SerialInv' /\ Settled = book
      /\ Settled' = [book EXCEPT ![b] = [owner |-> NewPrimary(q), settings |-> book[b].settings]]
  BY <1>1, <1>4, MemberCall
<1>6. NewPrimary(q) = Calls!OwnerAfterRemoval(book[b].owner, member[b], q.user)
  BY <1>2, SameRoles DEF NewPrimary, Calls!OwnerAfterRemoval
<1>7. Calls!RemoveBookMember(b, u, q.user)
  BY <1>2, <1>3, <1>4, <1>5, <1>6, SameRoles
  DEF Calls!RemoveBookMember, Calls!Authorized, Calls!WithOwner, TargetAllowed
<1> QED
  BY <1>1, <1>3, <1>5, <1>7, ACall

\* The book is written: a change of settings takes effect, and what a role
\* change or a removal had promised is stored.
LEMMA SerialWriteBook ==
    ASSUME Serial, TypeOK, ControlInv, SerialInv, NEW r \in Reqs, WriteBook(r)
    PROVE  SerialInv' /\ [Calls!Next]_(Calls!vars)
<1> DEFINE q == req[r]
           b == q.bookID
<1>1. /\ q \in Request /\ ControlOf(q) /\ SerialOf(q) /\ b \in Books /\ q.user \in Users
      /\ q.role \in RequestedRoles /\ q.pc = "writeBook" /\ UNCHANGED member
      /\ book' = [book EXCEPT ![b] = q.copy] /\ Continue(r, Idle) /\ book[b] # NoBook
  BY DEF TypeOK, ControlInv, ControlOf, SerialInv, Request, WriteBook, Finish
<1>2. SerialInv' /\ req'[r] = Idle
  BY <1>1, IdleSerial, SerialMoves
<1>3. Settled' = book'
  <2>1. book' \in [Books -> {book'[c] : c \in Books}]
    BY <1>1 DEF TypeOK
  <2> QED
    BY <1>2, <2>1, SettledBooks, IdleSerial
<1>4. CASE q.op = "settings"
  <2>1. /\ q.patch \in Patches
        /\ q.copy = [owner |-> book[b].owner, settings |-> Patched(book[b].settings, q.patch)]
    BY <1>1, <1>4 DEF SerialOf
  <2>2. PICK u \in Users : IsManager(member[b][u])
    BY <1>1, <1>4 DEF SerialOf
  <2>3. Settled = book
    BY <1>4, SettledBooks DEF Awaited, TypeOK
  <2>4. Calls!UpdateBook(b, u, q.patch)
    BY <1>1, <1>3, <2>1, <2>2, <2>3, SameRoles DEF Calls!UpdateBook, Calls!Authorized
  <2> QED
    BY <1>1, <1>2, <2>1, <2>2, <2>4, ACall
<1>5. CASE q.op \in {"role", "remove"}
  <2>1. Settled = [c \in Books |-> IF c = b THEN q.copy ELSE book[c]]
    BY <1>1, <1>5, SettledBooks DEF Awaited
  <2>2. book' = [c \in Books |-> IF c = b THEN q.copy ELSE book[c]]
    BY <1>1 DEF TypeOK
  <2> QED
    BY <1>1, <1>2, <1>3, <2>1, <2>2 DEF Calls!vars
<1> QED
  BY <1>1, <1>4, <1>5 DEF SerialOf

\* CreateBook is one call of the store, for a book nobody works on.
LEMMA SerialNewBook ==
    ASSUME TypeOK, ControlInv, SerialInv, NEW b \in Books, NEW actor \in Users, NEW s \in Settings,
           CreateBook(b, actor, s)
    PROVE  SerialInv' /\ [Calls!Next]_(Calls!vars)
<1> DEFINE new == [owner |-> actor, settings |-> s]
<1>1. /\ book[b] = NoBook /\ book' = [book EXCEPT ![b] = new] /\ req' = req
      /\ \A c \in Books \ {b} : book'[c] = book[c] /\ member'[c] = member[c]
  BY DEF CreateBook, TypeOK
<1>2. \A r \in Reqs : req[r].pc # "idle" => req[r].bookID \in Books \ {b}
  BY <1>1 DEF ControlInv, ControlOf, TypeOK, Request
<1>3. ASSUME NEW r \in Reqs PROVE SerialOf(req[r])'
  <2>1. SerialOf(req[r])
    BY DEF SerialInv
  <2>2. CASE req[r].pc = "idle"
    BY <1>1, <2>2 DEF SerialOf
  <2>3. CASE req[r].pc # "idle"
    BY <1>1, <1>2, <2>1, <2>3 DEF SerialOf
  <2> QED
    BY <2>2, <2>3
<1>4. Pending(b) = {} /\ \A c \in Books : Pending(c)' = Pending(c)
  BY <1>1, <1>2 DEF Pending
<1>5. Settled[b] = NoBook /\ Settled' = [Settled EXCEPT ![b] = new]
  <2>1. \A c \in Books : Settled[c] = IF Pending(c) # {} THEN req[CHOOSE r \in Pending(c) : TRUE].copy
                                      ELSE book[c]
    BY DEF Settled
  <2>2. \A c \in Books : Settled'[c] = IF Pending(c) # {} THEN req[CHOOSE r \in Pending(c) : TRUE].copy
                                       ELSE book'[c]
    <3>1. req' = req
      BY <1>1
    <3> QED
      BY <3>1 DEF Settled, Pending
  <2>3. book'[b] = new
    BY <1>1 DEF TypeOK
  <2>4. Settled = [c \in Books |-> Settled[c]] /\ Settled' = [c \in Books |-> Settled'[c]]
    BY DEF Settled
  <2> HIDE DEF new
  <2> QED
    BY <1>1, <1>4, <2>1, <2>2, <2>3, <2>4
<1>6. Calls!CreateBook(b, actor, s)
  BY <1>5, SameRoles DEF CreateBook, Calls!CreateBook
<1> QED
  BY <1>3, <1>6, SameRoles DEF SerialInv, Calls!Next

\* A request arrives.
LEMMA SerialArrival ==
    ASSUME Serial, TypeOK, NEW r \in Reqs, ReceiveAny(r)
    PROVE  SerialInv' /\ UNCHANGED Calls!vars
<1>1. PICK op \in Ops, b \in Books, actor \in Users, user \in Users, role \in RequestedRoles,
           patch \in [Fields -> Values \cup {Keep}] :
         /\ Receive(r, op, b, actor, user, role, patch)
         /\ IF op = "settings" THEN patch \in Patches ELSE patch = NoPatch
  BY RecordTypes DEF ReceiveAny, Ops, RequestedRoles, Roles, Patches, NoPatch
<1> DEFINE h == Arrival("authMember", op, b, actor, user, role, patch)
<1>2. h.pc = "authMember" /\ h.op = op /\ h.patch = patch
  BY DEF Arrival
<1>3. req[r].pc = "idle" /\ Continue(r, h) /\ UNCHANGED <<book, member>>
  BY <1>1 DEF Receive
<1> HIDE DEF h
<1>4. ASSUME req'[r] = h PROVE SerialOf(req[r])'
  BY <1>1, <1>2, <1>4 DEF SerialOf
<1>5. \A c \in Books : ~Awaited(req[r], c) /\ ~Awaited(h, c)
  BY <1>2, <1>3 DEF Awaited
<1> QED
  BY <1>3, <1>4, <1>5, QuietCall

\* Every step of a single handler is a call or a stutter.
LEMMA SerialStep ==
    ASSUME Serial, TypeOK, ControlInv, SerialInv, [Next]_vars
    PROVE  SerialInv' /\ [Calls!Next]_(Calls!vars)
<1>1. ASSUME NEW r \in Reqs, ReceiveAny(r) PROVE SerialInv' /\ [Calls!Next]_(Calls!vars)
  BY <1>1, SerialArrival
<1>2. ASSUME NEW r \in Reqs, Reads(r) PROVE SerialInv' /\ [Calls!Next]_(Calls!vars)
  BY <1>2, SerialReads
<1>3. ASSUME NEW r \in Reqs, DeleteRow(r) PROVE FALSE
  BY <1>3 DEF DeleteRow, SerialInv, SerialOf
<1>4. CASE UNCHANGED vars
  <2>1. UNCHANGED <<book, member, req>>
    BY <1>4 DEF vars
  <2>2. SerialInv'
    BY <2>1 DEF SerialInv, SerialOf
  <2>3. UNCHANGED Calls!vars
    BY <2>1 DEF Calls!vars, Settled, Pending
  <2> QED
    BY <2>2, <2>3
<1> QED
  BY <1>1, <1>2, <1>3, <1>4, SerialNewBook, SerialCreate, SerialWrite, SerialDelete, SerialWriteBook
  DEF Next, Step, Reads

\* One handler on the memory store implements the calls of BookMembership, for
\* any users, books and settings: each call takes effect at once, when it
\* writes its first row.
THEOREM SingleHandlerImplementsCalls ==
    ASSUME Serial
    PROVE  Spec => ImplementsCalls
<1>1. Init => Calls!Init /\ SerialInv
  <2> SUFFICES ASSUME Init PROVE Calls!Init /\ SerialInv
    OBVIOUS
  <2>1. \A r \in Reqs : req[r].pc = "idle"
    BY DEF Init, Idle, Arrival
  <2>2. \A b \in Books : Pending(b) = {}
    BY <2>1 DEF Pending
  <2>3. Settled = [b \in Books |-> NoBook]
    BY <2>2 DEF Settled, Init
  <2>4. SerialInv
    BY <2>1 DEF SerialInv, SerialOf
  <2> QED
    BY <2>3, <2>4, SameRoles DEF Init, Calls!Init
<1>2. TypeOK /\ ControlInv /\ SerialInv /\ [Next]_vars => SerialInv' /\ [Calls!Next]_(Calls!vars)
  BY SerialStep
<1> QED
  BY <1>1, <1>2, BookRequestsTypes, PTL DEF Spec, ImplementsCalls, Calls!Spec

-----------------------------------------------------------------------------
(* What the calls of BookMembership promise, and so one handler keeps.     *)

\* firstOtherOwner answers a user, and an owner other than the excluded user
\* whenever the excluded user is not the only owner.
LEMMA FirstOtherOwnerIsOwner ==
    ASSUME NEW members \in Calls!Membership, NEW x \in Users
    PROVE  /\ Calls!FirstOtherOwner(members, x) \in Users
           /\ Calls!OwnersOf(members) \ {x} # {} =>
                 /\ Calls!FirstOtherOwner(members, x) # x
                 /\ members[Calls!FirstOtherOwner(members, x)] = "owner"
<1> DEFINE others == Calls!OwnersOf(members) \ {x}
<1>1. others \in SUBSET Users
  BY DEF Calls!OwnersOf
<1>2. CASE others = {}
  BY <1>2 DEF Calls!FirstOtherOwner
<1>3. CASE others # {}
  <2>1. \E u \in others : \A v \in others : u <= v
    BY <1>1, <1>3, UsersAssumption
  <2>2. Calls!FirstOtherOwner(members, x) \in others
    BY <2>1, <1>3 DEF Calls!FirstOtherOwner
  <2> QED
    BY <2>2, <1>1 DEF Calls!OwnersOf
<1> QED
  BY <1>2, <1>3

\* The records of BookMembership keep their types: roles are supported roles
\* and the primary owner is a user (every book and member write).
THEOREM BookMembershipTypes == Calls!Spec => []Calls!TypeOK
<1>1. Calls!Init => Calls!TypeOK
  BY DEF Calls!Init, Calls!TypeOK, Calls!Membership
<1>2. Calls!TypeOK /\ [Calls!Next]_(Calls!vars) => Calls!TypeOK'
  <2> SUFFICES ASSUME Calls!TypeOK, [Calls!Next]_(Calls!vars)
               PROVE  Calls!TypeOK'
    OBVIOUS
  <2> USE DEF Calls!TypeOK
  <2>1. ASSUME NEW b \in Books, NEW actor \in Users, NEW s \in Calls!Settings, Calls!CreateBook(b, actor, s)
        PROVE  Calls!TypeOK'
    BY <2>1 DEF Calls!CreateBook, Calls!BookRecord, Calls!Membership, Calls!Roles
  <2>2. ASSUME NEW b \in Books, NEW actor \in Users, NEW p \in Calls!Patches, Calls!UpdateBook(b, actor, p)
        PROVE  Calls!TypeOK'
    <3>1. Settled[b] \in Calls!BookRecord
      BY <2>2, NoBookAssumption DEF Calls!UpdateBook, Calls!Authorized
    <3>2. Calls!Patched(Settled[b].settings, p) \in Calls!Settings
      BY <3>1 DEF Calls!Patched, Calls!Patches, Calls!Settings, Calls!BookRecord
    <3> QED
      BY <2>2, <3>1, <3>2 DEF Calls!UpdateBook, Calls!BookRecord
  <2>3. ASSUME NEW b \in Books, NEW actor \in Users, NEW user \in Users, NEW role,
               Calls!AddBookMember(b, actor, user, role)
        PROVE  Calls!TypeOK'
    BY <2>3 DEF Calls!AddBookMember, Calls!IsAssignableNewMemberRole, Calls!Membership, Calls!Roles
  <2>4. ASSUME NEW b \in Books, NEW actor \in Users, NEW user \in Users, NEW role,
               Calls!UpdateBookMemberRole(b, actor, user, role)
        PROVE  Calls!TypeOK'
    <3>1. Settled[b] \in Calls!BookRecord /\ member[b] \in Calls!Membership
      BY <2>4 DEF Calls!UpdateBookMemberRole, Calls!Authorized
    <3>2. Calls!ReconciledOwner(Settled[b].owner, member[b], user, role) \in Users
      BY <3>1, FirstOtherOwnerIsOwner DEF Calls!ReconciledOwner, Calls!BookRecord
    <3>3. member' \in [Books -> Calls!Membership]
      BY <2>4 DEF Calls!UpdateBookMemberRole, Calls!MayTakeRole, Calls!IsSupportedMemberRole, Calls!Membership
    <3> QED
      BY <2>4, <3>1, <3>2, <3>3 DEF Calls!UpdateBookMemberRole, Calls!WithOwner, Calls!BookRecord
  <2>5. ASSUME NEW b \in Books, NEW actor \in Users, NEW user \in Users,
               Calls!RemoveBookMember(b, actor, user)
        PROVE  Calls!TypeOK'
    <3>1. Settled[b] \in Calls!BookRecord /\ member[b] \in Calls!Membership
      BY <2>5 DEF Calls!RemoveBookMember, Calls!Authorized
    <3>2. Calls!FirstOtherOwner(member[b], user) \in Users
      BY <3>1, FirstOtherOwnerIsOwner
    <3>3. member' \in [Books -> Calls!Membership]
      BY <2>5 DEF Calls!RemoveBookMember, Calls!Membership
    <3> QED
      BY <2>5, <3>1, <3>2, <3>3 DEF Calls!RemoveBookMember, Calls!OwnerAfterRemoval, Calls!WithOwner, Calls!BookRecord
  <2>6. CASE UNCHANGED Calls!vars
    BY <2>6 DEF Calls!vars
  <2> QED
    BY <2>1, <2>2, <2>3, <2>4, <2>5, <2>6 DEF Calls!Next
<1> QED
  BY <1>1, <1>2, PTL DEF Calls!Spec

\* One request at a time, the primary owner of a book is always a member with
\* the owner role, so no accepted sequence of role changes and removals
\* leaves a book without an owner (the sole-owner checks, firstOtherOwner and
\* reconcilePrimaryOwner together).
THEOREM PrimaryOwnerAlwaysOwner == Calls!Spec => []Calls!PrimaryOwnerIsOwner
<1>1. Calls!Init => Calls!PrimaryOwnerIsOwner
  BY DEF Calls!Init, Calls!PrimaryOwnerIsOwner
<1>2. Calls!TypeOK /\ Calls!PrimaryOwnerIsOwner /\ [Calls!Next]_(Calls!vars) => Calls!PrimaryOwnerIsOwner'
  <2> SUFFICES ASSUME Calls!TypeOK, Calls!PrimaryOwnerIsOwner, [Calls!Next]_(Calls!vars)
               PROVE  Calls!PrimaryOwnerIsOwner'
    OBVIOUS
  <2> USE DEF Calls!TypeOK, Calls!PrimaryOwnerIsOwner
  <2>1. ASSUME NEW b \in Books, NEW actor \in Users, NEW s \in Calls!Settings, Calls!CreateBook(b, actor, s)
        PROVE  Calls!PrimaryOwnerIsOwner'
    BY <2>1 DEF Calls!CreateBook
  <2>2. ASSUME NEW b \in Books, NEW actor \in Users, NEW p \in Calls!Patches, Calls!UpdateBook(b, actor, p)
        PROVE  Calls!PrimaryOwnerIsOwner'
    BY <2>2, NoBookAssumption DEF Calls!UpdateBook, Calls!Authorized, Calls!BookRecord
  <2>3. ASSUME NEW b \in Books, NEW actor \in Users, NEW user \in Users, NEW role,
               Calls!AddBookMember(b, actor, user, role)
        PROVE  Calls!PrimaryOwnerIsOwner'
    BY <2>3 DEF Calls!AddBookMember, Calls!Membership, Calls!None, Calls!BookRecord
  <2>4. ASSUME NEW b \in Books, NEW actor \in Users, NEW user \in Users, NEW role,
               Calls!UpdateBookMemberRole(b, actor, user, role)
        PROVE  Calls!PrimaryOwnerIsOwner'
    <3> DEFINE owner == Settled[b].owner
               newOwner == Calls!ReconciledOwner(owner, member[b], user, role)
    <3>1. /\ Settled[b] \in Calls!BookRecord /\ member[b] \in Calls!Membership
          /\ member[b][owner] = "owner" /\ owner \in Users
      BY <2>4 DEF Calls!UpdateBookMemberRole, Calls!Authorized, Calls!BookRecord
    <3>2. role # "owner" /\ owner = user => Calls!OwnersOf(member[b]) \ {user} # {}
      BY <2>4, <3>1 DEF Calls!UpdateBookMemberRole, Calls!MayTakeRole, Calls!IsSoleOwner, Calls!OwnersOf
    <3>3. /\ newOwner \in Users
          /\ IF newOwner = user THEN role = "owner" ELSE member[b][newOwner] = "owner"
      BY <3>1, <3>2, FirstOtherOwnerIsOwner DEF Calls!ReconciledOwner
    <3>4. /\ member' = [member EXCEPT ![b][user] = role]
          /\ Settled' = [Settled EXCEPT ![b] = Calls!WithOwner(Settled[b], newOwner)]
      BY <2>4 DEF Calls!UpdateBookMemberRole
    <3>5. member'[b][Settled'[b].owner] = "owner"
      BY <3>1, <3>3, <3>4 DEF Calls!Membership, Calls!BookRecord, Calls!WithOwner
    <3> QED
      BY <3>4, <3>5
  <2>5. ASSUME NEW b \in Books, NEW actor \in Users, NEW user \in Users,
               Calls!RemoveBookMember(b, actor, user)
        PROVE  Calls!PrimaryOwnerIsOwner'
    <3> DEFINE owner == Settled[b].owner
    <3>1. /\ Settled[b] \in Calls!BookRecord /\ member[b] \in Calls!Membership
          /\ member[b][owner] = "owner" /\ owner \in Users
      BY <2>5 DEF Calls!RemoveBookMember, Calls!Authorized, Calls!BookRecord
    <3>2. owner = user => Calls!OwnersOf(member[b]) \ {user} # {}
      BY <2>5, <3>1 DEF Calls!RemoveBookMember, Calls!IsSoleOwner, Calls!OwnersOf
    <3>3. PICK newOwner \in Users :
             /\ newOwner # user /\ member[b][newOwner] = "owner"
             /\ Settled' = [Settled EXCEPT ![b] = Calls!WithOwner(Settled[b], newOwner)]
      BY <2>5, <3>1, <3>2, FirstOtherOwnerIsOwner DEF Calls!RemoveBookMember, Calls!OwnerAfterRemoval
    <3>4. member' = [member EXCEPT ![b][user] = Calls!None]
      BY <2>5 DEF Calls!RemoveBookMember
    <3>5. member'[b][Settled'[b].owner] = "owner"
      BY <3>1, <3>3, <3>4 DEF Calls!Membership, Calls!BookRecord, Calls!WithOwner
    <3> QED
      BY <3>3, <3>4, <3>5
  <2>6. CASE UNCHANGED Calls!vars
    BY <2>6 DEF Calls!vars
  <2> QED
    BY <2>1, <2>2, <2>3, <2>4, <2>5, <2>6 DEF Calls!Next
<1> QED
  BY <1>1, <1>2, BookMembershipTypes, PTL DEF Calls!Spec

\* A promotion to owner hands the primary ownership over in the same call, and
\* a primary owner is only ever replaced by an owner (reconcilePrimaryOwner and
\* the same decision in RemoveBookMember).
THEOREM PromotionHandsOver == Calls!Spec => Calls!PromotionMakesPrimary
<1> DEFINE HandsOver == \A b \in Books : Settled[b] # NoBook =>
              /\ \A u \in Users : member[b][u] # "owner" /\ member'[b][u] = "owner"
                                    => Settled'[b].owner = u
              /\ Settled'[b].owner # Settled[b].owner => member'[b][Settled'[b].owner] = "owner"
<1>1. Calls!TypeOK /\ [Calls!Next]_(Calls!vars) => [HandsOver]_(Calls!vars)
  <2> SUFFICES ASSUME Calls!TypeOK, Calls!Next
               PROVE  HandsOver
    OBVIOUS
  <2> USE DEF Calls!TypeOK
  <2>1. ASSUME NEW b \in Books, NEW actor \in Users, NEW s \in Calls!Settings, Calls!CreateBook(b, actor, s)
        PROVE  HandsOver
    BY <2>1 DEF Calls!CreateBook
  <2>2. ASSUME NEW b \in Books, NEW actor \in Users, NEW p \in Calls!Patches, Calls!UpdateBook(b, actor, p)
        PROVE  HandsOver
    BY <2>2, NoBookAssumption DEF Calls!UpdateBook, Calls!Authorized, Calls!BookRecord
  <2>3. ASSUME NEW b \in Books, NEW actor \in Users, NEW user \in Users, NEW role,
               Calls!AddBookMember(b, actor, user, role)
        PROVE  HandsOver
    BY <2>3 DEF Calls!AddBookMember, Calls!IsAssignableNewMemberRole, Calls!Membership
  <2>4. ASSUME NEW b \in Books, NEW actor \in Users, NEW user \in Users, NEW role,
               Calls!UpdateBookMemberRole(b, actor, user, role)
        PROVE  HandsOver
    <3> DEFINE owner == Settled[b].owner
               newOwner == Calls!ReconciledOwner(owner, member[b], user, role)
    <3>1. Settled[b] \in Calls!BookRecord /\ member[b] \in Calls!Membership
      BY <2>4 DEF Calls!UpdateBookMemberRole, Calls!Authorized
    <3>2. role # "owner" /\ member[b][user] = "owner" => Calls!OwnersOf(member[b]) \ {user} # {}
      BY <2>4, <3>1 DEF Calls!UpdateBookMemberRole, Calls!MayTakeRole, Calls!IsSoleOwner, Calls!OwnersOf
    <3>3. /\ newOwner \in Users
          /\ role = "owner" => newOwner = user
          /\ role # "owner" /\ newOwner # owner => newOwner # user /\ member[b][newOwner] = "owner"
      BY <3>1, <3>2, FirstOtherOwnerIsOwner DEF Calls!ReconciledOwner, Calls!BookRecord
    <3>4. /\ member' = [member EXCEPT ![b][user] = role]
          /\ Settled' = [Settled EXCEPT ![b] = Calls!WithOwner(Settled[b], newOwner)]
      BY <2>4 DEF Calls!UpdateBookMemberRole
    <3>5. /\ Settled'[b].owner = newOwner
          /\ \A u \in Users : member'[b][u] = IF u = user THEN role ELSE member[b][u]
      BY <3>1, <3>4 DEF Calls!WithOwner, Calls!Membership
    <3> QED
      BY <3>3, <3>4, <3>5
  <2>5. ASSUME NEW b \in Books, NEW actor \in Users, NEW user \in Users,
               Calls!RemoveBookMember(b, actor, user)
        PROVE  HandsOver
    <3> DEFINE owner == Settled[b].owner
               newOwner == Calls!OwnerAfterRemoval(owner, member[b], user)
    <3>1. Settled[b] \in Calls!BookRecord /\ member[b] \in Calls!Membership
      BY <2>5 DEF Calls!RemoveBookMember, Calls!Authorized
    <3>2. member[b][user] = "owner" => Calls!OwnersOf(member[b]) \ {user} # {}
      BY <2>5, <3>1 DEF Calls!RemoveBookMember, Calls!IsSoleOwner, Calls!OwnersOf
    <3>3. newOwner \in Users /\ (newOwner # owner => newOwner # user /\ member[b][newOwner] = "owner")
      BY <3>1, <3>2, FirstOtherOwnerIsOwner DEF Calls!OwnerAfterRemoval, Calls!BookRecord
    <3>4. /\ member' = [member EXCEPT ![b][user] = Calls!None]
          /\ Settled' = [Settled EXCEPT ![b] = Calls!WithOwner(Settled[b], newOwner)]
      BY <2>5 DEF Calls!RemoveBookMember
    <3>5. /\ Settled'[b].owner = newOwner
          /\ \A u \in Users : member'[b][u] = IF u = user THEN Calls!None ELSE member[b][u]
      BY <3>1, <3>4 DEF Calls!WithOwner, Calls!Membership
    <3> QED
      BY <3>3, <3>4, <3>5 DEF Calls!None
  <2> QED
    BY <2>1, <2>2, <2>3, <2>4, <2>5 DEF Calls!Next
<1> QED
  BY <1>1, BookMembershipTypes, PTL DEF Calls!Spec, Calls!PromotionMakesPrimary

\* So one handler on the memory store, with each call as the store calls it
\* really is, never leaves a book without its primary owner among the owners,
\* and hands the primary ownership over with every promotion, once the call has
\* written its rows (UpdateBookMemberRole, RemoveBookMember).
THEOREM SingleHandlerKeepsPrimary ==
    ASSUME Serial
    PROVE  Spec => []Calls!PrimaryOwnerIsOwner /\ Calls!PromotionMakesPrimary
  BY SingleHandlerImplementsCalls, PrimaryOwnerAlwaysOwner, PromotionHandsOver, PTL DEF ImplementsCalls

=============================================================================
