------------------------------- MODULE Entries -------------------------------
(***************************************************************************)
(* Entries, accounts and account groups (ledger/entries.go, service.go,    *)
(* accounts_categories.go) under concurrent handlers.  A service call is a *)
(* series of store calls with nothing held in between: references, roles   *)
(* and the reporting currency are read one after the other, checked, and   *)
(* at the end a whole record is written.                                   *)
(*                                                                         *)
(* All entries are of the book Home; accounts may also be shared with the  *)
(* other books.  The exchange-rate table is complete (see Rates), so an    *)
(* entry converts by its own text or by the table.  A text field such as   *)
(* the note matters only as one more field of the record that is replaced; *)
(* length checks, trimming and timestamps are left out, and so is the      *)
(* audit event a handler records afterwards (see AuditChain).  A request   *)
(* is served once, by one goroutine; a store call that fails ends it, and  *)
(* a write that is reported as failed may have happened.                   *)
(***************************************************************************)
EXTENDS Money

CONSTANTS Users, Books, Home,  \* users, books, and the book of the entries
          Accounts, Groups, Cats, EntryIds,
          Reqs,                \* handler goroutines
          Drivers,             \* which stores are in use
          Words,               \* names, notes and types, as text
          Absent,              \* no record, no membership, an empty optional field
          Drafts,              \* bodies of entry creations
          Patches,             \* bodies of entry updates: some of the fields
          GroupPatches,        \* bodies of group updates
          AccountDrafts,       \* bodies of account creations
          StartAccounts, StartGroups, StartEntries, StartRoles, \* the stored records at start
          MaxChanges           \* bound on what other calls change meanwhile

EntryTypes == {"expense", "income", "transfer", "refund", "reimbursement",
               "borrow", "lend", "repayment"}
Directions == {"income", "expense"}
Roles == {"owner", "administrator", "member", "viewer"}
Managers == {"owner", "administrator"}

Account == [user: Users, group: Groups \cup {Absent}, currency: Currencies, shared: SUBSET Books]
Group == [user: Users, name: Words, order: Nat]
Texts == {NoText} \cup {d.text : d \in Drafts}
         \cup {p.text : p \in {x \in Patches : "text" \in DOMAIN x}}
\* What a body may say of each field; an unsupported currency is Unknown.
FieldValues == [type |-> Words, account |-> Accounts, dest |-> Accounts \cup {Absent},
                category |-> Cats \cup {Absent}, currency |-> Currencies \cup {Absent, Unknown},
                text |-> Texts, note |-> Words]
EntryFields == DOMAIN FieldValues

\* An entry carries the reporting currency that its book had when it was
\* last validated.  One that is still to be validated may have a type or a
\* currency that is refused, or no currency yet.
Entry == [creator: Users, type: EntryTypes, account: Accounts, dest: Accounts \cup {Absent},
          category: Cats \cup {Absent}, currency: Currencies, text: Texts, note: Words,
          reporting: Currencies]
EntryCopy == [creator: Users, type: Words, account: Accounts, dest: Accounts \cup {Absent},
              category: Cats \cup {Absent}, currency: Currencies \cup {Absent, Unknown},
              text: Texts, note: Words, reporting: Currencies]

ASSUME EntriesAssumption ==
    /\ Home \in Books
    /\ MaxChanges \in Nat
    /\ EntryTypes \cup {"new"} \subseteq Words
    /\ EntryIds \cap Groups = {}
    /\ Absent \notin EntryCopy \cup Account \cup Group \cup Users \cup Roles \cup Currencies

ASSUME BodiesAssumption ==
    /\ \A d \in Drafts : DOMAIN d = EntryFields /\ \A f \in EntryFields : d[f] \in FieldValues[f]
    /\ \A p \in Patches : /\ p # << >> /\ DOMAIN p \subseteq EntryFields
                          /\ \A f \in DOMAIN p : p[f] \in FieldValues[f]
    /\ \A p \in GroupPatches : /\ DOMAIN p \subseteq {"name", "order"}
                               /\ "name" \in DOMAIN p => p.name \in Words
                               /\ "order" \in DOMAIN p => p.order \in Nat
    /\ \A d \in AccountDrafts : /\ d.group \in Groups \cup {Absent}
                                /\ d.currency \in Currencies /\ d.shared \subseteq Books

\* The stored records are ones that the service has accepted; the categories
\* start as active expense categories.
ASSUME StartAssumption ==
    /\ StartRoles \in [Books -> [Users -> Roles \cup {Absent}]]
    /\ StartAccounts \in [Accounts -> Account \cup {Absent}]
    /\ StartGroups \in [Groups -> Group \cup {Absent}]
    /\ StartEntries \in [EntryIds -> Entry \cup {Absent}]
    /\ \A e \in EntryIds : StartEntries[e] # Absent => LET x == StartEntries[e] IN
          /\ StartAccounts[x.account] # Absent
          /\ Converts(x.currency, x.reporting, x.text, Currencies)
          /\ Converts(x.currency, StartAccounts[x.account].currency, x.text, Currencies)
          /\ x.category # Absent => x.type # "income"

VARIABLES driver,
          role,      \* Store.Member: book -> user -> role or Absent
          reporting, \* the reporting currency of Home
          category,  \* Store.Categories: id -> direction and archive flag
          account, group, entry,
          req,       \* what every handler is doing
          changes,   \* how often other calls have changed roles, categories or the book
          intended,  \* history: what entries and groups are when writes follow one another
          raced,     \* history: records written over a copy that another write overtook
          removed,   \* history: shares <<account, book>> that were removed
          stale,     \* history: what was overtaken since each request read it
          drifted    \* history: entries whose category changed after it was checked

tables == <<role, reporting, category, account, group, entry>>
vars == <<driver, tables, req, changes, intended, raced, removed, stale, drifted>>

\* The next step of a request; "done" is the answer.
PCs == {"idle", "book", "member", "creator", "entries", "entry", "account", "dest", "category",
        "rates", "group", "shares", "write", "row", "done"}
Kinds == {"create", "update", "delete", "unshare", "account", "group", "newgroup"}

Idle == [pc |-> "idle", kind |-> "create", actor |-> Absent, id |-> Absent, body |-> << >>,
         copy |-> Absent, seen |-> Absent]

TypeOK ==
    /\ driver \in Drivers
    /\ role \in [Books -> [Users -> Roles \cup {Absent}]]
    /\ reporting \in Currencies
    /\ category \in [Cats -> [direction: Directions, archived: BOOLEAN]]
    /\ DOMAIN account = Accounts /\ \A a \in Accounts : account[a] \in Account \cup {Absent}
    /\ DOMAIN group = Groups /\ \A g \in Groups : group[g] \in Group \cup {Absent}
    /\ DOMAIN entry = EntryIds /\ \A e \in EntryIds : entry[e] \in Entry \cup {Absent}
    /\ DOMAIN req = Reqs /\ \A r \in Reqs : req[r].pc \in PCs /\ req[r].kind \in Kinds
    /\ changes \in 0..MaxChanges
    /\ raced \subseteq EntryIds \cup Groups \cup Accounts
    /\ removed \subseteq Accounts \X Books
    /\ stale \in [Reqs -> SUBSET {"role", "category", "record"}]
    /\ drifted \subseteq EntryIds

Init ==
    /\ driver \in Drivers
    /\ role = StartRoles
    /\ reporting = USD
    /\ category = [c \in Cats |-> [direction |-> "expense", archived |-> FALSE]]
    /\ account = StartAccounts
    /\ group = StartGroups
    /\ entry = StartEntries
    /\ req = [r \in Reqs |-> Idle]
    /\ changes = 0
    /\ intended = [x \in EntryIds \cup Groups |-> IF x \in EntryIds THEN entry[x] ELSE group[x]]
    /\ raced = {} /\ removed = {} /\ drifted = {}
    /\ stale = [r \in Reqs |-> {}]

-----------------------------------------------------------------------------
\* A request goes on with q; an answered one keeps nothing.
Continue(r, q) == req' = [req EXCEPT ![r] = q]
Answer(r) == Continue(r, [Idle EXCEPT !.pc = "done"])
Proceed(r, pc) == Continue(r, [req[r] EXCEPT !.pc = pc])

\* A step that reads: the request goes on to pc, or is refused.
ReadStep(r, accepted, pc) ==
    /\ IF accepted THEN Proceed(r, pc) ELSE Answer(r)
    /\ UNCHANGED <<driver, tables, changes, intended, raced, removed, stale, drifted>>

Waiting(r) == req[r].pc = "idle"
Receive(r, q) ==
    /\ Continue(r, q)
    /\ UNCHANGED <<driver, tables, changes, intended, raced, removed, stale, drifted>>
Request(kind, pc, actor, id, body, copy) ==
    [pc |-> pc, kind |-> kind, actor |-> actor, id |-> id, body |-> body, copy |-> copy,
     seen |-> Absent]

\* POST .../entries, for the actor or on behalf of another member.
ReceiveCreate(r) ==
    /\ Waiting(r)
    /\ \E u \in Users, w \in Users, d \in Drafts :
          Receive(r, Request("create", "book", u, Absent, << >>,
                             [creator |-> w, type |-> d.type, account |-> d.account, dest |-> d.dest,
                              category |-> d.category, currency |-> d.currency, text |-> d.text,
                              note |-> d.note, reporting |-> USD]))
ReceiveUpdate(r) ==
    /\ Waiting(r)
    /\ \E u \in Users, e \in EntryIds, p \in Patches :
          Receive(r, Request("update", "member", u, e, p, Absent))
ReceiveDelete(r) ==
    /\ Waiting(r)
    /\ \E u \in Users, e \in EntryIds : Receive(r, Request("delete", "member", u, e, << >>, Absent))

\* DELETE /accounts/{id}/shares/{book}; the book is the body here.
ReceiveUnshare(r) ==
    /\ Waiting(r)
    /\ \E u \in Users, a \in Accounts, b \in Books :
          Receive(r, Request("unshare", "member", u, a, b, Absent))
ReceiveAccount(r) ==
    /\ Waiting(r)
    /\ \E u \in Users, d \in AccountDrafts :
          Receive(r, Request("account", "group", u, Absent, d.shared,
                             [user |-> u, group |-> d.group, currency |-> d.currency,
                              shared |-> d.shared]))
ReceiveGroup(r) ==
    /\ Waiting(r)
    /\ \E u \in Users, g \in Groups, p \in GroupPatches :
          Receive(r, Request("group", "group", u, g, p, Absent))
ReceiveNewGroup(r) ==
    /\ Waiting(r)
    /\ \E u \in Users : Receive(r, Request("newgroup", "write", u, Absent, << >>,
                                           [user |-> u, name |-> "new", order |-> 0]))

-----------------------------------------------------------------------------
\* Store.Book
ReadBook(r) ==
    LET q == req[r] IN
    /\ q.pc = "book"
    /\ Continue(r, IF q.kind = "create"
                   THEN [q EXCEPT !.pc = "member", !.copy.reporting = reporting]
                   ELSE [q EXCEPT !.pc = "entry", !.seen = reporting])
    /\ UNCHANGED <<driver, tables, changes, intended, raced, removed, stale, drifted>>

\* Store.Member of the actor, and what the call demands of the role.  The
\* role seen is kept for EntryMutationPolicy.
ReadMember(r) ==
    LET q == req[r]
        seen == role[IF q.kind = "unshare" THEN q.body ELSE Home][q.actor]
        creates == seen \in Roles \ {"viewer"}
    IN
    /\ q.pc = "member"
    /\ \/ /\ q.kind = "create"
          /\ IF creates /\ (q.copy.creator = q.actor \/ seen \in Managers)
             THEN Proceed(r, IF q.copy.creator = q.actor THEN "account" ELSE "creator")
             ELSE Answer(r)
       \/ /\ q.kind \in {"update", "delete"}
          /\ IF seen # Absent THEN Continue(r, [q EXCEPT !.pc = "entries", !.seen = seen])
             ELSE Answer(r)
       \/ /\ q.kind = "unshare"
          /\ IF seen \in Managers THEN Proceed(r, "account") ELSE Answer(r)
    /\ stale' = [stale EXCEPT ![r] = @ \ {"role"}]
    /\ UNCHANGED <<driver, tables, changes, intended, raced, removed, drifted>>

\* createEntryCreatorUserID: a creator other than the actor is a member.
ReadCreator(r) ==
    /\ req[r].pc = "creator"
    /\ ReadStep(r, role[Home][req[r].copy.creator] # Absent, "account")

\* EntryMutationPolicy
AnyMember(seen, actor, creator) == seen # Absent
MayMutate(seen, actor, creator) == seen \in Managers \/ (seen = "member" /\ creator = actor)

\* Store.Entries, and the policy.
ReadEntries(r) ==
    LET q == req[r] IN
    /\ q.pc = "entries"
    /\ ReadStep(r, entry[q.id] # Absent /\ MayMutate(q.seen, q.actor, entry[q.id].creator),
                IF q.kind = "update" THEN "book" ELSE "write")

\* patchEntry: a field of the body replaces the stored one.
PatchedWithoutNilCheck(old, body) ==
    [f \in DOMAIN old |-> IF f \in DOMAIN body THEN body[f] ELSE IF f = "note" THEN "" ELSE old[f]]
Patched(old, body) == [f \in DOMAIN old |-> IF f \in DOMAIN body THEN body[f] ELSE old[f]]

\* Store.Entry, patched; the reporting currency is the one of the book read before.
ReadEntry(r) ==
    LET q == req[r] IN
    /\ q.pc = "entry"
    /\ IF entry[q.id] = Absent THEN Answer(r)
       ELSE Continue(r, [q EXCEPT !.pc = "account", !.seen = Absent,
                                  !.copy = [Patched(entry[q.id], q.body) EXCEPT !.reporting = q.seen]])
    /\ stale' = [stale EXCEPT ![r] = @ \ {"record"}]
    /\ UNCHANGED <<driver, tables, changes, intended, raced, removed, drifted>>

\* visibleAccount, or accountByID when an update leaves the reference alone.
Visible(a, actor) == account[a] # Absent /\ (account[a].user = actor \/ Home \in account[a].shared)
Usable(q, field) ==
    LET a == q.copy[field] IN
    IF q.kind = "create" \/ field \in DOMAIN q.body THEN Visible(a, q.actor)
    ELSE account[a] # Absent

\* removeID
RemoveOthers(books, b) == IF b = Home THEN books ELSE books \ {b}
RemoveID(books, b) == books \ {b}

AfterAccounts(q) == IF q.copy.category = Absent THEN "rates" ELSE "category"

\* Store.Accounts: for an entry the account it names, whose currency is the
\* default of the transaction; for UnshareAccount the record to rewrite.
ReadAccount(r) ==
    LET q == req[r]
        next == IF q.copy.dest # Absent THEN "dest" ELSE AfterAccounts(q)
        currency == IF q.copy.currency = Absent THEN account[q.copy.account].currency
                    ELSE q.copy.currency
    IN
    /\ q.pc = "account"
    /\ \/ /\ q.kind # "unshare"
          /\ IF Usable(q, "account")
             THEN Continue(r, [q EXCEPT !.pc = next, !.copy.currency = currency])
             ELSE Answer(r)
          /\ UNCHANGED stale
       \/ /\ q.kind = "unshare"
          /\ IF account[q.id] # Absent /\ q.body \in account[q.id].shared
             THEN Continue(r, [q EXCEPT !.pc = "write",
                                        !.copy = [account[q.id] EXCEPT !.shared = RemoveID(@, q.body)]])
             ELSE Answer(r)
          /\ stale' = [stale EXCEPT ![r] = @ \ {"record"}]
    /\ UNCHANGED <<driver, tables, changes, intended, raced, removed, drifted>>

ReadDestination(r) ==
    /\ req[r].pc = "dest"
    /\ ReadStep(r, Usable(req[r], "dest"), AfterAccounts(req[r]))

\* entryCategory; the direction is kept for the validation.
ReadCategory(r) ==
    LET q == req[r] IN
    /\ q.pc = "category"
    /\ IF category[q.copy.category].archived THEN Answer(r)
       ELSE Continue(r, [q EXCEPT !.pc = "rates", !.seen = category[q.copy.category].direction])
    /\ stale' = [stale EXCEPT ![r] = @ \ {"category"}]
    /\ UNCHANGED <<driver, tables, changes, intended, raced, removed, drifted>>

\* validateEntryCategory
FitsExpense(type, direction) == type = "expense" => direction = "expense"
Fits(type, direction) == type \in Directions => direction = type

\* validateCreateEntryRequest, which updates use as well.
Valid(copy, direction) ==
    /\ copy.type \in EntryTypes
    /\ Converts(copy.currency, copy.reporting, copy.text, Currencies)
    /\ Converts(copy.currency, account[copy.account].currency, copy.text, Currencies)
    /\ copy.category # Absent => Fits(copy.type, direction)
    /\ copy.type = "transfer" => copy.dest # Absent

\* exchangeRateIndex, and then the validation of what has been read.
ReadRates(r) ==
    /\ req[r].pc = "rates"
    /\ ReadStep(r, Valid(req[r].copy, req[r].seen), "write")

\* validateAccountGroup of an account creation, or the group to be updated.
OwnGroup(g, actor) == group[g] # Absent /\ group[g].user = actor
ReadGroup(r) ==
    LET q == req[r] IN
    /\ q.pc = "group"
    /\ \/ /\ q.kind = "account"
          /\ IF q.copy.group = Absent \/ OwnGroup(q.copy.group, q.actor)
             THEN Proceed(r, "shares") ELSE Answer(r)
          /\ UNCHANGED stale
       \/ /\ q.kind = "group"
          /\ IF OwnGroup(q.id, q.actor)
             THEN Continue(r, [q EXCEPT !.pc = "write", !.copy = Patched(group[q.id], q.body)])
             ELSE Answer(r)
          /\ stale' = [stale EXCEPT ![r] = @ \ {"record"}]
    /\ UNCHANGED <<driver, tables, changes, intended, raced, removed, drifted>>

\* validateSharedBooks: the actor's membership, book by book.
ReadShares(r) ==
    LET q == req[r] IN
    /\ q.pc = "shares"
    /\ \/ q.body = {} /\ Proceed(r, "write")
       \/ \E b \in q.body : IF role[b][q.actor] # Absent
                            THEN Continue(r, [q EXCEPT !.body = @ \ {b}]) ELSE Answer(r)
    /\ UNCHANGED <<driver, tables, changes, intended, raced, removed, stale, drifted>>

-----------------------------------------------------------------------------
\* History: what an edit makes of a record.
Edited(old, body) == [f \in DOMAIN old |-> IF f \in DOMAIN body THEN body[f] ELSE old[f]]

\* History: a write leaves the copies that others hold of the record behind.
Overtake(r, x) ==
    stale' = [s \in Reqs |-> IF s # r /\ req[s].id = x /\ req[s].copy # Absent
                             THEN stale[s] \cup {"record"} ELSE stale[s]]
NoteRace(r, x) == raced' = IF "record" \in stale[r] THEN raced \cup {x} ELSE raced

\* Store.CreateEntry under a fresh id.
CreateEntry(r) ==
    LET q == req[r] IN
    /\ q.pc = "write" /\ q.kind = "create"
    /\ \E e \in EntryIds :
          /\ intended[e] = Absent
          /\ entry' = [entry EXCEPT ![e] = q.copy]
          /\ intended' = [intended EXCEPT ![e] = q.copy]
          /\ drifted' = IF "category" \in stale[r] THEN drifted \cup {e} ELSE drifted
    /\ Answer(r)
    /\ UNCHANGED <<driver, role, reporting, category, account, group, changes, raced, removed, stale>>

\* Store.UpdateEntry replaces the whole record if there still is one.
UpsertEntry(r) ==
    LET q == req[r] IN
    /\ q.pc = "write" /\ q.kind = "update"
    /\ entry' = [entry EXCEPT ![q.id] = q.copy]
    /\ intended' = [intended EXCEPT ![q.id] = q.copy]
    /\ NoteRace(r, q.id) /\ Overtake(r, q.id)
    /\ Answer(r)
    /\ UNCHANGED <<driver, role, reporting, category, account, group, changes, removed, drifted>>
UpdateEntry(r) ==
    LET q == req[r]
        new == Edited(intended[q.id], q.body)
        currency == IF new.currency = Absent THEN q.copy.currency ELSE new.currency
    IN
    /\ q.pc = "write" /\ q.kind = "update"
    /\ \/ /\ entry[q.id] # Absent
          /\ entry' = [entry EXCEPT ![q.id] = q.copy]
          /\ intended' = [intended EXCEPT ![q.id] = [new EXCEPT !.reporting = q.copy.reporting,
                                                              !.currency = currency]]
          /\ drifted' = IF "category" \in stale[r] THEN drifted \cup {q.id} ELSE drifted \ {q.id}
          /\ NoteRace(r, q.id) /\ Overtake(r, q.id)
       \/ entry[q.id] = Absent /\ UNCHANGED <<entry, intended, drifted, raced, stale>>
    /\ Answer(r)
    /\ UNCHANGED <<driver, role, reporting, category, account, group, changes, removed>>

\* Store.DeleteEntry: one locked call in memory, a lookup and a statement in
\* SQL.
LookupRow(r) ==
    /\ req[r].pc = "write" /\ req[r].kind = "delete" /\ driver = "sql"
    /\ ReadStep(r, entry[req[r].id] # Absent, "row")
DeleteEntry(r) ==
    LET q == req[r] IN
    /\ q.kind = "delete"
    /\ q.pc = IF driver = "sql" THEN "row" ELSE "write"
    /\ entry' = [entry EXCEPT ![q.id] = Absent]
    /\ Answer(r)
    /\ UNCHANGED <<driver, role, reporting, category, account, group, changes, intended, raced,
                   removed, stale, drifted>>

\* Store.UpdateAccount replaces the record, share list included.
UnshareAccount(r) ==
    LET q == req[r] IN
    /\ q.pc = "write" /\ q.kind = "unshare"
    /\ account' = [account EXCEPT ![q.id] = q.copy]
    /\ removed' = removed \cup {<<q.id, q.body>>}
    /\ NoteRace(r, q.id) /\ Overtake(r, q.id)
    /\ Answer(r)
    /\ UNCHANGED <<driver, role, reporting, category, group, entry, changes, intended, drifted>>

CreateAccount(r) ==
    LET q == req[r] IN
    /\ q.pc = "write" /\ q.kind = "account"
    /\ \E a \in Accounts : account[a] = Absent /\ account' = [account EXCEPT ![a] = q.copy]
    /\ Answer(r)
    /\ UNCHANGED <<driver, role, reporting, category, group, entry, changes, intended, raced,
                   removed, stale, drifted>>

CreateAccountGroup(r) ==
    LET q == req[r] IN
    /\ q.pc = "write" /\ q.kind = "newgroup"
    /\ \E g \in Groups : /\ group[g] = Absent
                         /\ group' = [group EXCEPT ![g] = q.copy]
                         /\ intended' = [intended EXCEPT ![g] = q.copy]
    /\ Answer(r)
    /\ UNCHANGED <<driver, role, reporting, category, account, entry, changes, raced, removed,
                   stale, drifted>>

UpdateAccountGroup(r) ==
    LET q == req[r] IN
    /\ q.pc = "write" /\ q.kind = "group"
    /\ group' = [group EXCEPT ![q.id] = q.copy]
    /\ intended' = [intended EXCEPT ![q.id] = Edited(@, q.body)]
    /\ NoteRace(r, q.id) /\ Overtake(r, q.id)
    /\ Answer(r)
    /\ UNCHANGED <<driver, role, reporting, category, account, entry, changes, removed, drifted>>

\* A store call fails, or the instance has no id left: the request ends.
GiveUp(r) ==
    /\ req[r].pc \notin {"idle", "done"}
    /\ Answer(r)
    /\ UNCHANGED <<driver, tables, changes, intended, raced, removed, stale, drifted>>

-----------------------------------------------------------------------------
\* Meanwhile the book calls change a role (see BookRequests), the reporting
\* currency, or a category (see Categories).
ChangeRole ==
    \E b \in Books, u \in Users, x \in Roles \cup {Absent} :
       /\ changes < MaxChanges /\ changes' = changes + 1
       /\ role[b][u] # x
       /\ role' = [role EXCEPT ![b][u] = x]
       /\ stale' = [s \in Reqs |-> IF req[s].actor = u /\ b = Home
                                   THEN stale[s] \cup {"role"} ELSE stale[s]]
       /\ UNCHANGED <<driver, reporting, category, account, group, entry, req, intended, raced,
                      removed, drifted>>

ChangeReporting ==
    \E x \in Currencies \ {reporting} :
       /\ changes < MaxChanges /\ changes' = changes + 1
       /\ reporting' = x
       /\ UNCHANGED <<driver, role, category, account, group, entry, req, intended, raced,
                      removed, stale, drifted>>

EditCategory ==
    \E c \in Cats, d \in Directions, z \in BOOLEAN :
       /\ changes < MaxChanges /\ changes' = changes + 1
       /\ category[c] # [direction |-> d, archived |-> z]
       /\ category' = [category EXCEPT ![c] = [direction |-> d, archived |-> z]]
       /\ drifted' = drifted \cup {e \in EntryIds : entry[e] # Absent /\ entry[e].category = c}
       /\ stale' = [s \in Reqs |-> IF /\ req[s].kind \in {"create", "update"}
                                      /\ req[s].pc \in {"rates", "write"}
                                      /\ req[s].copy.category = c
                                   THEN stale[s] \cup {"category"} ELSE stale[s]]
       /\ UNCHANGED <<driver, role, reporting, account, group, entry, req, intended, raced, removed>>

Arrive(r) == \/ ReceiveCreate(r) \/ ReceiveUpdate(r) \/ ReceiveDelete(r) \/ ReceiveUnshare(r)
             \/ ReceiveAccount(r) \/ ReceiveGroup(r) \/ ReceiveNewGroup(r)
Step(r) == \/ ReadBook(r) \/ ReadMember(r) \/ ReadCreator(r) \/ ReadEntries(r) \/ ReadEntry(r)
           \/ ReadAccount(r) \/ ReadDestination(r) \/ ReadCategory(r) \/ ReadRates(r)
           \/ ReadGroup(r) \/ ReadShares(r) \/ CreateEntry(r) \/ UpdateEntry(r) \/ LookupRow(r)
           \/ DeleteEntry(r) \/ UnshareAccount(r) \/ CreateAccount(r) \/ CreateAccountGroup(r)
           \/ UpdateAccountGroup(r)

Next == \/ \E r \in Reqs : Arrive(r) \/ Step(r) \/ GiveUp(r)
        \/ ChangeRole \/ ChangeReporting \/ EditCategory

Spec == Init /\ [][Next]_vars

-----------------------------------------------------------------------------
\* Every edit of an entry or a group survives later edits of other fields:
\* the record is what the edits make of it one after the other, unless an
\* edit was written over a copy that another one had overtaken (UpdateEntry,
\* UpdateAccountGroup).
EditsLostOnlyByRace ==
    /\ \A e \in EntryIds \ raced : entry[e] # Absent => entry[e] = intended[e]
    /\ \A g \in Groups \ raced : group[g] = intended[g]

\* A share that was removed stays removed, unless two removals of the same
\* account overlapped (UnshareAccount).
RemovedSharesStayRemoved ==
    \A x \in removed : x[1] \notin raced => x[2] \notin account[x[1]].shared

\* A deleted entry is never stored again, whatever updates of it are still
\* on their way (DeleteEntry, UpdateEntry).
DeletedStaysDeleted ==
    [][\A e \in EntryIds : intended[e] # Absent /\ entry[e] = Absent => entry'[e] = Absent]_vars

\* Records are well formed and a stored entry stays one that validation
\* accepts, whatever changes between reading and writing: it converts to its
\* account's currency and to the reporting currency it carries, so a summary
\* in that currency can be made, and its category is active and of its
\* direction unless the category was edited after the check
\* (validateCreateEntryRequest, entryCategory, validateEntryCategory).
EntriesStayValid ==
    /\ TypeOK
    /\ \A e \in {d \in EntryIds : entry[d] # Absent} : LET x == entry[e] IN
          /\ Converts(x.currency, x.reporting, x.text, Currencies)
          /\ Converts(x.currency, account[x.account].currency, x.text, Currencies)
          /\ x.category # Absent /\ e \notin drifted =>
                /\ ~category[x.category].archived
                /\ x.type \in Directions => category[x.category].direction = x.type

\* An entry is changed or deleted only by a request whose actor is a manager
\* of the book, or a member and its creator, or was one when the role was
\* checked and has been changed since (EntryMutationPolicy).
MutationsArePermitted ==
    [][\A e \in EntryIds : entry[e] # Absent /\ entry'[e] # entry[e] =>
          \E r \in Reqs : /\ req[r].id = e /\ req'[r].pc = "done" /\ req[r].pc # "done"
                          /\ LET now == role[Home][req[r].actor] IN
                             \/ now \in Managers
                             \/ now = "member" /\ entry[e].creator = req[r].actor
                             \/ "role" \in stale[r]]_vars
=============================================================================
