---------------------------- MODULE EntriesProofs ----------------------------
(***************************************************************************)
(* For every number of users, books, records, handlers and request bodies: *)
(* what concurrent requests can and cannot do to entries, groups and the   *)
(* share lists of accounts.                                                *)
(*                                                                         *)
(* The argument is one inductive invariant.  Its first half says of every  *)
(* request what it holds: what it has read still is what is stored, or the *)
(* history variable stale says that it was overtaken.  Its second half is  *)
(* about the tables, the properties of Entries among it.                   *)
(***************************************************************************)
EXTENDS Entries, TLAPS

RequestFields == {"pc", "kind", "actor", "id", "body", "copy", "seen"}
Live(r) == req[r].pc \notin {"idle", "done"}
Serves(r, kind) == req[r].kind = kind /\ Live(r)

\* Validation is still to come, in this order.
Referring == {"account", "dest", "category", "rates", "write"}

\* The role that r has seen is the actor's, or has been changed since.
RoleSeen(r) == "role" \in stale[r] \/ req[r].seen = role[Home][req[r].actor]

\* EntryMutationPolicy has let r pass, and would do so again.
Permitted(r) ==
    LET now == role[Home][req[r].actor]
        old == entry[req[r].id]
    IN \/ "role" \in stale[r]
       \/ now \in Managers
       \/ now = "member" /\ (old # Absent => old.creator = req[r].actor)

\* What r is about to store follows from what is stored by its own edit; a
\* currency that it left out has been filled in.
Follows(copy, old, body) ==
    /\ \A f \in EntryFields \ {"currency"} : copy[f] = Edited(old, body)[f]
    /\ Edited(old, body).currency # Absent => copy.currency = Edited(old, body).currency

\* The references of the entry in hand, as far as they have been checked.
ReferencesOK(r) ==
    LET q == req[r]
        c == q.copy.category
    IN /\ q.copy \in EntryCopy
       /\ q.pc \in {"dest", "category", "rates", "write"} => account[q.copy.account] # Absent
       /\ q.pc \in {"rates", "write"} /\ c # Absent /\ "category" \notin stale[r] =>
             ~category[c].archived
       /\ q.pc = "rates" /\ c # Absent /\ "category" \notin stale[r] =>
             q.seen = category[c].direction
       /\ q.pc = "write" =>
             /\ q.copy.type \in EntryTypes
             /\ Converts(q.copy.currency, q.copy.reporting, q.copy.text, Currencies)
             /\ Converts(q.copy.currency, account[q.copy.account].currency, q.copy.text, Currencies)
             /\ c # Absent /\ "category" \notin stale[r] =>
                   Fits(q.copy.type, category[c].direction)

CreateOK(r) ==
    Serves(r, "create") =>
       /\ req[r].pc \in {"book", "member", "creator"} \cup Referring
       /\ ReferencesOK(r)

UpdateOK(r) ==
    Serves(r, "update") => LET q == req[r] IN
       /\ q.pc \in {"member", "entries", "book", "entry"} \cup Referring
       /\ q.actor \in Users /\ q.id \in EntryIds /\ q.body \in Patches
       /\ q.pc = "entries" => RoleSeen(r)
       /\ q.pc = "entry" => q.seen \in Currencies
       /\ q.pc \in {"book", "entry"} \cup Referring => intended[q.id] # Absent /\ Permitted(r)
       /\ q.pc \in Referring =>
             /\ ReferencesOK(r)
             /\ entry[q.id] # Absent => q.copy.creator = entry[q.id].creator
             /\ entry[q.id] # Absent /\ "record" \notin stale[r] =>
                   Follows(q.copy, entry[q.id], q.body)

DeleteOK(r) ==
    Serves(r, "delete") => LET q == req[r] IN
       /\ q.pc \in {"member", "entries", "write", "row"}
       /\ q.actor \in Users /\ q.id \in EntryIds
       /\ q.pc = "entries" => RoleSeen(r)
       /\ q.pc \in {"write", "row"} => intended[q.id] # Absent /\ Permitted(r)

UnshareOK(r) ==
    Serves(r, "unshare") => LET q == req[r] IN
       /\ q.pc \in {"member", "account", "write"}
       /\ q.id \in Accounts /\ q.body \in Books
       /\ q.pc = "write" =>
             /\ q.copy \in Account /\ account[q.id] # Absent
             /\ q.copy.currency = account[q.id].currency
             /\ "record" \notin stale[r] => q.copy.shared = account[q.id].shared \ {q.body}

AccountOK(r) ==
    Serves(r, "account") => /\ req[r].pc \in {"group", "shares", "write"}
                            /\ req[r].copy \in Account

GroupOK(r) ==
    Serves(r, "group") => LET q == req[r] IN
       /\ q.pc \in {"group", "write"}
       /\ q.id \in Groups /\ q.body \in GroupPatches
       /\ q.pc = "write" =>
             /\ q.copy \in Group /\ group[q.id] # Absent
             /\ "record" \notin stale[r] => q.copy = Edited(group[q.id], q.body)

NewGroupOK(r) == Serves(r, "newgroup") => req[r].pc = "write" /\ req[r].copy \in Group

RequestOK(r) ==
    /\ DOMAIN req[r] = RequestFields /\ req[r].pc \in PCs /\ req[r].kind \in Kinds
    /\ CreateOK(r) /\ UpdateOK(r) /\ DeleteOK(r) /\ UnshareOK(r)
    /\ AccountOK(r) /\ GroupOK(r) /\ NewGroupOK(r)

\* The tables, and the history that is kept of them.
Typed ==
    /\ driver \in Drivers
    /\ role \in [Books -> [Users -> Roles \cup {Absent}]]
    /\ reporting \in Currencies
    /\ category \in [Cats -> [direction: Directions, archived: BOOLEAN]]
    /\ account \in [Accounts -> Account \cup {Absent}]
    /\ group \in [Groups -> Group \cup {Absent}]
    /\ entry \in [EntryIds -> Entry \cup {Absent}]
    /\ DOMAIN req = Reqs
    /\ changes \in 0..MaxChanges
    /\ raced \subseteq EntryIds \cup Groups \cup Accounts
    /\ removed \subseteq Accounts \X Books
    /\ stale \in [Reqs -> SUBSET {"role", "category", "record"}]
    /\ drifted \subseteq EntryIds

\* The history knows of every record, and of deleted entries as well.
HistoryOK ==
    /\ DOMAIN intended = EntryIds \cup Groups
    /\ \A e \in EntryIds : /\ intended[e] \in EntryCopy \cup {Absent}
                           /\ intended[e] = Absent => entry[e] = Absent
    /\ \A g \in Groups : /\ intended[g] \in Group \cup {Absent}
                         /\ intended[g] = Absent <=> group[g] = Absent
    /\ \A x \in removed : account[x[1]] # Absent

\* The account of an entry exists and the entry converts to its currency.
AccountOfEntry(e) ==
    /\ account[entry[e].account] # Absent
    /\ Converts(entry[e].currency, entry[e].reporting, entry[e].text, Currencies)
    /\ Converts(entry[e].currency, account[entry[e].account].currency, entry[e].text, Currencies)

\* Its category is the one that was checked, or has been edited since.
CategoryOfEntry(e) ==
    entry[e].category # Absent /\ e \notin drifted =>
       /\ ~category[entry[e].category].archived
       /\ Fits(entry[e].type, category[entry[e].category].direction)

EntryOK == \A e \in EntryIds : entry[e] # Absent => AccountOfEntry(e) /\ CategoryOfEntry(e)

IInv ==
    /\ Typed /\ HistoryOK /\ EntryOK
    /\ EditsLostOnlyByRace /\ RemovedSharesStayRemoved
    /\ \A r \in Reqs : RequestOK(r)

-----------------------------------------------------------------------------
(* What the helpers on records do.                                         *)

\* An entry that is stored is one that may be patched.
LEMMA EntryIsCopy == \A x \in Entry : x \in EntryCopy
<1>1. \A t \in EntryTypes : t \in Words
  BY EntriesAssumption
<1> QED
  BY <1>1 DEF Entry, EntryCopy

\* Entries are equal when their fields are.
LEMMA CopiesEqual ==
    ASSUME NEW x \in EntryCopy, NEW y \in EntryCopy,
           x.creator = y.creator, x.type = y.type, x.account = y.account, x.dest = y.dest,
           x.category = y.category, x.currency = y.currency, x.text = y.text, x.note = y.note,
           x.reporting = y.reporting
    PROVE  x = y
  BY DEF EntryCopy

\* patchEntry keeps the shape of an entry, its creator and its reporting
\* currency.
LEMMA EditedCopy ==
    ASSUME NEW old \in EntryCopy, NEW body \in Patches
    PROVE  /\ Edited(old, body) \in EntryCopy
           /\ Edited(old, body).creator = old.creator
           /\ Edited(old, body).reporting = old.reporting
<1> DEFINE new == Edited(old, body)
           D == {"creator", "type", "account", "dest", "category", "currency", "text", "note",
                 "reporting"}
<1>1. /\ DOMAIN body \subseteq {"type", "account", "dest", "category", "currency", "text", "note"}
      /\ "type" \in DOMAIN body => body["type"] \in Words
      /\ "account" \in DOMAIN body => body["account"] \in Accounts
      /\ "dest" \in DOMAIN body => body["dest"] \in Accounts \cup {Absent}
      /\ "category" \in DOMAIN body => body["category"] \in Cats \cup {Absent}
      /\ "currency" \in DOMAIN body => body["currency"] \in Currencies \cup {Absent, Unknown}
      /\ "text" \in DOMAIN body => body["text"] \in Texts
      /\ "note" \in DOMAIN body => body["note"] \in Words
  BY BodiesAssumption DEF EntryFields, FieldValues
<1>2. DOMAIN old = D
  BY DEF EntryCopy
<1>3. new = [f \in D |-> IF f \in DOMAIN body THEN body[f] ELSE old[f]]
  BY <1>2 DEF Edited
<1>4. /\ new.creator = old.creator /\ new.reporting = old.reporting
      /\ new.creator \in Users /\ new.reporting \in Currencies
  BY <1>1, <1>3 DEF EntryCopy
<1>5. /\ new.type \in Words /\ new.account \in Accounts /\ new.dest \in Accounts \cup {Absent}
      /\ new.category \in Cats \cup {Absent}
      /\ new.currency \in Currencies \cup {Absent, Unknown}
      /\ new.text \in Texts /\ new.note \in Words
  BY <1>1, <1>3 DEF EntryCopy
<1>6. new = [f \in D |-> new[f]]
  BY <1>3
<1> HIDE DEF new
<1>7. new \in EntryCopy
  BY <1>4, <1>5, <1>6 DEF EntryCopy
<1> QED
  BY <1>4, <1>7 DEF new

\* The same of patchAccountGroup.
LEMMA EditedGroup ==
    ASSUME NEW old \in Group, NEW body \in GroupPatches
    PROVE  Edited(old, body) \in Group
<1> DEFINE new == Edited(old, body)
           D == {"user", "name", "order"}
<1>1. /\ DOMAIN body \subseteq {"name", "order"}
      /\ "name" \in DOMAIN body => body["name"] \in Words
      /\ "order" \in DOMAIN body => body["order"] \in Nat
  BY BodiesAssumption
<1>2. DOMAIN old = D
  BY DEF Group
<1>3. new = [f \in D |-> IF f \in DOMAIN body THEN body[f] ELSE old[f]]
  BY <1>2 DEF Edited
<1>4. new.user \in Users /\ new.name \in Words /\ new.order \in Nat
  BY <1>1, <1>3 DEF Group
<1>5. new = [f \in D |-> new[f]]
  BY <1>3
<1> HIDE DEF new
<1> QED
  BY <1>4, <1>5 DEF Group, new

\* The code patches a record the way the history does.
LEMMA PatchedIsEdited == \A old, body : Patched(old, body) = Edited(old, body)
  BY DEF Patched, Edited

-----------------------------------------------------------------------------
(* A step of one request leaves what the others hold alone.                *)

\* A request whose view and whose tables are untouched keeps what it holds.
LEMMA OthersKeep ==
    ASSUME NEW s \in Reqs, RequestOK(s), req'[s] = req[s], stale'[s] = stale[s],
           UNCHANGED <<role, category, account, group, entry, intended>>
    PROVE  RequestOK(s)'
<1>1. CreateOK(s)'
  BY DEF RequestOK, CreateOK, Serves, Live, ReferencesOK
<1>2. UpdateOK(s)'
  BY DEF RequestOK, UpdateOK, Serves, Live, ReferencesOK, RoleSeen, Permitted
<1>3. DeleteOK(s)'
  BY DEF RequestOK, DeleteOK, Serves, Live, RoleSeen, Permitted
<1>4. UnshareOK(s)'
  BY DEF RequestOK, UnshareOK, Serves, Live
<1>5. AccountOK(s)' /\ GroupOK(s)' /\ NewGroupOK(s)'
  BY DEF RequestOK, AccountOK, GroupOK, NewGroupOK, Serves, Live
<1> QED
  BY <1>1, <1>2, <1>3, <1>4, <1>5 DEF RequestOK

\* An answered request holds nothing.
LEMMA Answered ==
    ASSUME NEW r \in Reqs, DOMAIN req = Reqs, Answer(r)
    PROVE  RequestOK(r)' /\ req'[r].pc = "done" /\ \A s \in Reqs \ {r} : req'[s] = req[s]
<1>1. /\ req'[r] = [Idle EXCEPT !.pc = "done"]
      /\ \A s \in Reqs \ {r} : req'[s] = req[s]
  BY DEF Answer, Continue
<1>2. DOMAIN req'[r] = RequestFields /\ req'[r].pc = "done" /\ req'[r].kind = "create"
  BY <1>1 DEF Idle, RequestFields
<1> QED
  BY <1>1, <1>2 DEF RequestOK, CreateOK, UpdateOK, DeleteOK, UnshareOK, AccountOK, GroupOK,
                    NewGroupOK, Serves, Live, PCs, Kinds

\* A step that only a request makes: it reads, and holds more than before.
LEMMA QuietStep ==
    ASSUME IInv, NEW r \in Reqs, DOMAIN req' = Reqs, RequestOK(r)',
           UNCHANGED <<driver, tables, changes, intended, raced, removed, drifted>>,
           stale' \in [Reqs -> SUBSET {"role", "category", "record"}],
           \A s \in Reqs \ {r} : req'[s] = req[s] /\ stale'[s] = stale[s]
    PROVE  IInv'
<1>1. UNCHANGED <<role, reporting, category, account, group, entry>>
  BY DEF tables
<1>2. Typed'
  BY <1>1 DEF IInv, Typed
<1>3. HistoryOK' /\ EntryOK' /\ EditsLostOnlyByRace' /\ RemovedSharesStayRemoved'
  BY <1>1 DEF IInv, HistoryOK, EntryOK, AccountOfEntry, CategoryOfEntry, EditsLostOnlyByRace,
              RemovedSharesStayRemoved
<1>4. ASSUME NEW s \in Reqs PROVE RequestOK(s)'
  <2>1. CASE s = r
    BY <2>1
  <2>2. CASE s # r
    BY <1>1, <2>2, OthersKeep DEF IInv
  <2> QED
    BY <2>1, <2>2
<1> QED
  BY <1>2, <1>3, <1>4 DEF IInv

\* The same when the step says nothing of stale.
LEMMA ReadingStep ==
    ASSUME IInv, NEW r \in Reqs, NEW q, Continue(r, q), RequestOK(r)',
           UNCHANGED <<driver, tables, changes, intended, raced, removed, stale, drifted>>
    PROVE  IInv'
<1>1. /\ DOMAIN req' = Reqs /\ \A s \in Reqs \ {r} : req'[s] = req[s]
      /\ stale' \in [Reqs -> SUBSET {"role", "category", "record"}]
  BY DEF IInv, Typed, Continue
<1> QED
  BY <1>1, QuietStep

\* ... or takes something off what r is told of.
LEMMA RefreshingStep ==
    ASSUME IInv, NEW r \in Reqs, NEW q, Continue(r, q), RequestOK(r)',
           NEW x, stale' = [stale EXCEPT ![r] = @ \ {x}],
           UNCHANGED <<driver, tables, changes, intended, raced, removed, drifted>>
    PROVE  IInv'
<1>1. /\ DOMAIN req' = Reqs /\ \A s \in Reqs \ {r} : req'[s] = req[s] /\ stale'[s] = stale[s]
      /\ stale' \in [Reqs -> SUBSET {"role", "category", "record"}]
  BY DEF IInv, Typed, Continue
<1> QED
  BY <1>1, QuietStep

\* A refused request is answered.
LEMMA RefusingStep ==
    ASSUME IInv, NEW r \in Reqs, Answer(r),
           UNCHANGED <<driver, tables, changes, intended, raced, removed, stale, drifted>>
    PROVE  IInv'
<1>1. RequestOK(r)'
  BY Answered DEF IInv, Typed
<1> QED
  BY <1>1, ReadingStep DEF Answer

\* A request that goes on keeps everything but its place.
LEMMA Proceeded ==
    ASSUME IInv, NEW r \in Reqs, NEW pc \in PCs, Proceed(r, pc)
    PROVE  /\ DOMAIN req'[r] = RequestFields /\ req'[r].pc = pc
           /\ req'[r].kind = req[r].kind /\ req'[r].kind \in Kinds
           /\ req'[r].actor = req[r].actor /\ req'[r].id = req[r].id
           /\ req'[r].body = req[r].body /\ req'[r].copy = req[r].copy
           /\ req'[r].seen = req[r].seen
<1>1. DOMAIN req = Reqs /\ DOMAIN req[r] = RequestFields /\ req[r].kind \in Kinds
  BY DEF IInv, Typed, RequestOK
<1> QED
  BY <1>1 DEF Proceed, Continue, RequestFields

\* Only what is asked of its kind is asked of a request.
LEMMA OfItsKind ==
    ASSUME NEW r \in Reqs, DOMAIN req'[r] = RequestFields, req'[r].pc \in PCs,
           req'[r].kind \in Kinds,
           req'[r].kind = "create" => CreateOK(r)', req'[r].kind = "update" => UpdateOK(r)',
           req'[r].kind = "delete" => DeleteOK(r)', req'[r].kind = "unshare" => UnshareOK(r)',
           req'[r].kind = "account" => AccountOK(r)', req'[r].kind = "group" => GroupOK(r)',
           req'[r].kind = "newgroup" => NewGroupOK(r)'
    PROVE  RequestOK(r)'
  BY DEF RequestOK, CreateOK, UpdateOK, DeleteOK, UnshareOK, AccountOK, GroupOK, NewGroupOK, Serves

-----------------------------------------------------------------------------
(* The steps that read.                                                    *)

\* Store.Book: a new entry takes the reporting currency; an update keeps it for later.
LEMMA ReadBookInv == ASSUME IInv, NEW r \in Reqs, ReadBook(r) PROVE IInv'
<1> DEFINE q == req[r]
<1>1. /\ DOMAIN req = Reqs /\ DOMAIN q = RequestFields /\ q.pc = "book"
      /\ reporting \in Currencies
  BY DEF IInv, Typed, RequestOK, ReadBook
<1>2. q.kind \in {"create", "update"}
  BY <1>1 DEF IInv, RequestOK, DeleteOK, UnshareOK, AccountOK, GroupOK, NewGroupOK, Serves, Live,
              Kinds
<1>3. UNCHANGED <<role, reporting, category, account, group, entry, intended, stale>>
  BY DEF ReadBook, tables
<1>4. CASE q.kind = "create"
  <2>1. q.copy \in EntryCopy
    BY <1>1, <1>4 DEF IInv, RequestOK, CreateOK, Serves, Live, ReferencesOK
  <2>2. Continue(r, [q EXCEPT !.pc = "member", !.copy.reporting = reporting])
    BY <1>4 DEF ReadBook
  <2>3. /\ DOMAIN req'[r] = RequestFields /\ req'[r].pc = "member" /\ req'[r].kind = "create"
        /\ req'[r].copy = [q.copy EXCEPT !.reporting = reporting]
    BY <1>1, <1>4, <2>2 DEF Continue, RequestFields
  <2>4. req'[r].copy \in EntryCopy
    BY <1>1, <2>1, <2>3 DEF EntryCopy
  <2>5. RequestOK(r)'
    BY <2>3, <2>4, OfItsKind DEF CreateOK, Serves, Live, ReferencesOK, PCs, Kinds
  <2> QED
    BY <2>2, <2>5, ReadingStep DEF ReadBook
<1>5. CASE q.kind = "update"
  <2>1. Continue(r, [q EXCEPT !.pc = "entry", !.seen = reporting])
    BY <1>5 DEF ReadBook
  <2>2. /\ DOMAIN req'[r] = RequestFields /\ req'[r].pc = "entry" /\ req'[r].kind = "update"
        /\ req'[r].seen = reporting
        /\ req'[r].id = q.id /\ req'[r].body = q.body /\ req'[r].actor = q.actor
    BY <1>1, <1>5, <2>1 DEF Continue, RequestFields
  <2>3. /\ q.actor \in Users /\ q.id \in EntryIds /\ q.body \in Patches
        /\ intended[q.id] # Absent /\ Permitted(r)
    BY <1>1, <1>5 DEF IInv, RequestOK, UpdateOK, Serves, Live
  <2>4. Permitted(r)'
    BY <1>3, <2>2, <2>3 DEF Permitted
  <2>5. RequestOK(r)'
    BY <1>1, <1>3, <2>2, <2>3, <2>4, OfItsKind DEF UpdateOK, Serves, Live, Referring, PCs, Kinds
  <2> QED
    BY <2>1, <2>5, ReadingStep DEF ReadBook
<1> QED
  BY <1>2, <1>4, <1>5

\* Store.Member: the role seen is the current one.
LEMMA ReadMemberInv == ASSUME IInv, NEW r \in Reqs, ReadMember(r) PROVE IInv'
<1> DEFINE q == req[r]
           seen == role[IF q.kind = "unshare" THEN q.body ELSE Home][q.actor]
<1>1. /\ DOMAIN req = Reqs /\ DOMAIN q = RequestFields /\ q.pc = "member"
      /\ stale \in [Reqs -> SUBSET {"role", "category", "record"}]
  BY DEF IInv, Typed, RequestOK, ReadMember
<1>2. /\ UNCHANGED <<role, category, account, group, entry, intended>>
      /\ stale'[r] = stale[r] \ {"role"}
  BY <1>1 DEF ReadMember, tables
<1>3. ASSUME Answer(r) PROVE IInv'
  <2>1. RequestOK(r)'
    BY <1>1, <1>3, Answered
  <2> QED
    BY <1>3, <2>1, RefreshingStep DEF ReadMember, Answer
<1>4. ASSUME NEW x, Continue(r, x), RequestOK(r)' PROVE IInv'
  BY <1>4, RefreshingStep DEF ReadMember
<1>5. CASE q.kind = "create"
  <2>1. ASSUME NEW pc \in {"account", "creator"}, Proceed(r, pc) PROVE IInv'
    <3>1. /\ DOMAIN req'[r] = RequestFields /\ req'[r].pc = pc /\ req'[r].kind = "create"
          /\ req'[r].copy = q.copy
      BY <1>5, <2>1, Proceeded DEF PCs
    <3>2. q.copy \in EntryCopy
      BY <1>1, <1>5 DEF IInv, RequestOK, CreateOK, Serves, Live, ReferencesOK
    <3>3. RequestOK(r)'
      BY <2>1, <3>1, <3>2, OfItsKind DEF CreateOK, Serves, Live, ReferencesOK, Referring, PCs, Kinds
    <3> QED
      BY <1>4, <2>1, <3>3 DEF Proceed
  <2> QED
    BY <1>3, <1>5, <2>1 DEF ReadMember
<1>6. CASE q.kind \in {"update", "delete"}
  <2>1. ASSUME Continue(r, [q EXCEPT !.pc = "entries", !.seen = seen]) PROVE IInv'
    <3>1. /\ DOMAIN req'[r] = RequestFields /\ req'[r].pc = "entries" /\ req'[r].kind = q.kind
          /\ req'[r].seen = role[Home][q.actor]
          /\ req'[r].id = q.id /\ req'[r].body = q.body /\ req'[r].actor = q.actor
      BY <1>1, <1>6, <2>1 DEF Continue, RequestFields
    <3>2. /\ q.actor \in Users /\ q.id \in EntryIds
          /\ q.kind = "update" => q.body \in Patches
      BY <1>1, <1>6 DEF IInv, RequestOK, UpdateOK, DeleteOK, Serves, Live
    <3>3. RoleSeen(r)'
      BY <1>2, <3>1 DEF RoleSeen
    <3>4. RequestOK(r)'
      BY <1>6, <3>1, <3>2, <3>3, OfItsKind
         DEF UpdateOK, DeleteOK, Serves, Live, Referring, PCs, Kinds
    <3> QED
      BY <1>4, <2>1, <3>4
  <2> QED
    BY <1>3, <1>6, <2>1 DEF ReadMember
<1>7. CASE q.kind = "unshare"
  <2>1. ASSUME Proceed(r, "account") PROVE IInv'
    <3>1. /\ DOMAIN req'[r] = RequestFields /\ req'[r].pc = "account" /\ req'[r].kind = "unshare"
          /\ req'[r].id = q.id /\ req'[r].body = q.body
      BY <1>7, <2>1, Proceeded DEF PCs
    <3>2. q.id \in Accounts /\ q.body \in Books
      BY <1>1, <1>7 DEF IInv, RequestOK, UnshareOK, Serves, Live
    <3>3. RequestOK(r)'
      BY <3>1, <3>2, OfItsKind DEF UnshareOK, Serves, Live, PCs, Kinds
    <3> QED
      BY <1>4, <2>1, <3>3 DEF Proceed
  <2> QED
    BY <1>3, <1>7, <2>1 DEF ReadMember
<1> QED
  BY <1>5, <1>6, <1>7 DEF ReadMember

\* What is known of a request whose next step is to check a reference.
LEMMA ReferringRequest ==
    ASSUME IInv, NEW r \in Reqs, req[r].kind \in {"create", "update"}, req[r].pc \in Referring
    PROVE  ReferencesOK(r) /\ req[r].copy \in EntryCopy
  BY DEF IInv, RequestOK, CreateOK, UpdateOK, Serves, Live, Referring, ReferencesOK

\* It may go on to the next check with another currency or another view of
\* its category, if that check can be made.
LEMMA NextReference ==
    ASSUME IInv, NEW r \in Reqs, req[r].kind \in {"create", "update"},
           req[r].kind = "create" => req[r].pc \in {"member", "creator"} \cup Referring,
           req[r].kind = "update" => req[r].pc \in Referring,
           DOMAIN req'[r] = RequestFields, req'[r].pc \in Referring, req'[r].kind = req[r].kind,
           req'[r].id = req[r].id, req'[r].body = req[r].body, req'[r].actor = req[r].actor,
           \A f \in (EntryFields \cup {"creator", "reporting"}) \ {"currency"} :
              req'[r].copy[f] = req[r].copy[f],
           req'[r].copy.currency = req[r].copy.currency \/ req[r].copy.currency = Absent,
           "role" \in stale[r] => "role" \in stale'[r],
           "record" \in stale[r] => "record" \in stale'[r],
           UNCHANGED <<role, entry, intended>>, ReferencesOK(r)'
    PROVE  RequestOK(r)'
<1>1. CASE req[r].kind = "create"
  BY <1>1, OfItsKind DEF CreateOK, Referring, PCs, Kinds
<1>2. CASE req[r].kind = "update"
  <2>1. UpdateOK(r) /\ Serves(r, "update")
    BY <1>2 DEF IInv, RequestOK, Serves, Live, Referring
  <2>2. Permitted(r)'
    <3>1. Permitted(r)
      BY <1>2, <2>1 DEF UpdateOK
    <3> QED
      BY <3>1 DEF Permitted
  <2>3. entry[req[r].id] # Absent => req'[r].copy.creator = entry[req[r].id].creator
    BY <1>2, <2>1 DEF UpdateOK
  <2>4. ASSUME entry[req[r].id] # Absent, "record" \notin stale'[r]
        PROVE  Follows(req'[r].copy, entry[req[r].id], req[r].body)
    <3>1. Follows(req[r].copy, entry[req[r].id], req[r].body)
      BY <1>2, <2>1, <2>4 DEF UpdateOK
    <3> QED
      BY <3>1 DEF Follows
  <2>5. UpdateOK(r)'
    BY <1>2, <2>1, <2>2, <2>3, <2>4 DEF UpdateOK, Referring
  <2> QED
    BY <1>2, <2>5, OfItsKind DEF Referring, PCs, Kinds
<1> QED
  BY <1>1, <1>2

\* The creator that an entry is made for is a member.
LEMMA ReadCreatorInv == ASSUME IInv, NEW r \in Reqs, ReadCreator(r) PROVE IInv'
<1> DEFINE q == req[r]
<1>1. q.pc = "creator" /\ q.kind = "create" /\ q.copy \in EntryCopy
  BY DEF ReadCreator, IInv, RequestOK, UpdateOK, DeleteOK, UnshareOK, AccountOK, GroupOK, NewGroupOK,
         CreateOK, ReferencesOK, Serves, Live, Kinds, Referring
<1>2. UNCHANGED <<driver, tables, changes, intended, raced, removed, stale, drifted>>
  BY DEF ReadCreator, ReadStep
<1>3. ASSUME Proceed(r, "account") PROVE IInv'
  <2>1. /\ DOMAIN req'[r] = RequestFields /\ req'[r].pc = "account" /\ req'[r].kind = "create"
        /\ req'[r].copy = q.copy
    BY <1>1, <1>3, Proceeded DEF PCs
  <2>2. RequestOK(r)'
    BY <1>1, <2>1, OfItsKind DEF CreateOK, Serves, Live, ReferencesOK, Referring, PCs, Kinds
  <2> QED
    BY <1>2, <1>3, <2>2, ReadingStep DEF Proceed
<1> QED
  BY <1>2, <1>3, RefusingStep DEF ReadCreator, ReadStep

\* Store.Entries: EntryMutationPolicy passes on the role seen and the stored creator.
LEMMA ReadEntriesInv == ASSUME IInv, NEW r \in Reqs, ReadEntries(r) PROVE IInv'
<1> DEFINE q == req[r]
<1>1. q.pc = "entries" /\ q.kind \in {"update", "delete"}
  BY DEF ReadEntries, IInv, RequestOK, CreateOK, UnshareOK, AccountOK, GroupOK, NewGroupOK,
         Serves, Live, Kinds, Referring
<1>2. /\ q.actor \in Users /\ q.id \in EntryIds /\ RoleSeen(r)
      /\ q.kind = "update" => q.body \in Patches
  BY <1>1 DEF IInv, RequestOK, UpdateOK, DeleteOK, Serves, Live
<1>3. /\ UNCHANGED <<driver, tables, changes, intended, raced, removed, stale, drifted>>
      /\ UNCHANGED <<role, entry>>
  BY DEF ReadEntries, ReadStep, tables
<1>4. ASSUME entry[q.id] # Absent, MayMutate(q.seen, q.actor, entry[q.id].creator),
             NEW pc \in {"book", "write"}, pc = IF q.kind = "update" THEN "book" ELSE "write",
             Proceed(r, pc)
      PROVE  IInv'
  <2>1. /\ DOMAIN req'[r] = RequestFields /\ req'[r].pc = pc /\ req'[r].kind = q.kind
        /\ req'[r].id = q.id /\ req'[r].body = q.body /\ req'[r].actor = q.actor
    BY <1>4, Proceeded DEF PCs
  <2>2. intended[q.id] # Absent
    BY <1>2, <1>4 DEF IInv, HistoryOK
  <2>3. Permitted(r)
    BY <1>2, <1>4 DEF RoleSeen, MayMutate, Permitted
  <2>4. Permitted(r)'
    BY <1>3, <2>1, <2>3 DEF Permitted
  <2>5. RequestOK(r)'
    BY <1>1, <1>2, <1>3, <1>4, <2>1, <2>2, <2>4, OfItsKind
       DEF UpdateOK, DeleteOK, Serves, Live, Referring, PCs, Kinds
  <2> QED
    BY <1>3, <1>4, <2>5, ReadingStep DEF Proceed
<1> QED
  BY <1>3, <1>4, RefusingStep DEF ReadEntries, ReadStep

\* Store.Entry: the patched copy follows from what is stored.
LEMMA ReadEntryInv == ASSUME IInv, NEW r \in Reqs, ReadEntry(r) PROVE IInv'
<1> DEFINE q == req[r]
           old == entry[q.id]
           new == [Patched(old, q.body) EXCEPT !.reporting = q.seen]
<1>1. /\ q.pc = "entry" /\ q.kind = "update" /\ DOMAIN req = Reqs /\ DOMAIN q = RequestFields
      /\ stale \in [Reqs -> SUBSET {"role", "category", "record"}]
      /\ entry \in [EntryIds -> Entry \cup {Absent}]
  BY DEF ReadEntry, IInv, Typed, RequestOK, CreateOK, DeleteOK, UnshareOK, AccountOK, GroupOK,
         NewGroupOK, Serves, Live, Kinds, Referring
<1>2. /\ q.actor \in Users /\ q.id \in EntryIds /\ q.body \in Patches
      /\ q.seen \in Currencies /\ intended[q.id] # Absent /\ Permitted(r)
  BY <1>1 DEF IInv, RequestOK, UpdateOK, Serves, Live
<1>3. /\ UNCHANGED <<driver, tables, changes, intended, raced, removed, drifted>>
      /\ UNCHANGED <<role, entry>> /\ stale'[r] = stale[r] \ {"record"}
  BY <1>1 DEF ReadEntry, tables
<1>4. CASE old = Absent
  <2>1. Answer(r) /\ RequestOK(r)'
    BY <1>1, <1>4, Answered DEF ReadEntry
  <2> QED
    BY <2>1, RefreshingStep DEF ReadEntry, Answer
<1>5. CASE old # Absent
  <2>1. Continue(r, [q EXCEPT !.pc = "account", !.seen = Absent, !.copy = new])
    BY <1>5 DEF ReadEntry
  <2>2. /\ DOMAIN req'[r] = RequestFields /\ req'[r].pc = "account" /\ req'[r].kind = "update"
        /\ req'[r].id = q.id /\ req'[r].body = q.body /\ req'[r].actor = q.actor
        /\ req'[r].copy = new
    BY <1>1, <2>1 DEF Continue, RequestFields
  <2>3. old \in EntryCopy
    BY <1>1, <1>2, <1>5, EntryIsCopy
  <2>4. /\ Patched(old, q.body) = Edited(old, q.body) /\ Edited(old, q.body) \in EntryCopy
        /\ Edited(old, q.body).creator = old.creator
    BY <1>2, <2>3, EditedCopy, PatchedIsEdited
  <2>5. /\ new \in EntryCopy /\ new.creator = old.creator
        /\ \A f \in EntryFields : new[f] = Edited(old, q.body)[f]
    BY <1>2, <2>4 DEF EntryCopy, EntryFields, FieldValues
  <2> HIDE DEF new
  <2>6. Follows(new, old, q.body)
    BY <2>5 DEF Follows, EntryFields, FieldValues
  <2>7. Permitted(r)'
    BY <1>2, <1>3, <2>2 DEF Permitted
  <2>8. ReferencesOK(r)'
    BY <2>2, <2>5 DEF ReferencesOK
  <2>9. UpdateOK(r)'
    BY <1>2, <1>3, <2>2, <2>5, <2>6, <2>7, <2>8 DEF UpdateOK, Referring
  <2>10. RequestOK(r)'
    BY <2>2, <2>9, OfItsKind DEF PCs, Kinds
  <2> QED
    BY <2>1, <2>10, RefreshingStep DEF ReadEntry, new
<1> QED
  BY <1>4, <1>5

\* Store.Accounts: the account exists, and gives the currency if none was named;
\* the share list in hand lacks the book that is removed.
LEMMA ReadAccountInv == ASSUME IInv, NEW r \in Reqs, ReadAccount(r) PROVE IInv'
<1> DEFINE q == req[r]
           next == IF q.copy.dest # Absent THEN "dest" ELSE AfterAccounts(q)
           currency == IF q.copy.currency = Absent THEN account[q.copy.account].currency
                       ELSE q.copy.currency
<1>1. /\ q.pc = "account" /\ DOMAIN req = Reqs /\ DOMAIN q = RequestFields
      /\ stale \in [Reqs -> SUBSET {"role", "category", "record"}]
      /\ account \in [Accounts -> Account \cup {Absent}]
  BY DEF ReadAccount, IInv, Typed, RequestOK
<1>2. q.kind \in {"create", "update", "unshare"}
  BY <1>1 DEF IInv, RequestOK, DeleteOK, AccountOK, GroupOK, NewGroupOK, Serves, Live, Kinds
<1>3. UNCHANGED <<role, category, account, group, entry, intended>>
  BY DEF ReadAccount, tables
<1>4. CASE q.kind # "unshare"
  <2>1. UNCHANGED <<driver, tables, changes, intended, raced, removed, stale, drifted>>
    BY <1>4 DEF ReadAccount
  <2>2. ASSUME Usable(q, "account"), Continue(r, [q EXCEPT !.pc = next, !.copy.currency = currency])
        PROVE  IInv'
    <3>1. q.copy \in EntryCopy
      BY <1>1, <1>2, <1>4, ReferringRequest DEF Referring
    <3>2. account[q.copy.account] \in Account
      BY <1>1, <2>2, <3>1 DEF Usable, Visible, EntryCopy
    <3>3. currency \in Currencies \cup {Absent, Unknown}
      BY <3>1, <3>2 DEF EntryCopy, Account
    <3>4. next \in {"dest", "category", "rates"} /\ (next = "rates" => q.copy.category = Absent)
      BY DEF AfterAccounts
    <3> HIDE DEF next, currency
    <3>5. /\ DOMAIN req'[r] = RequestFields /\ req'[r].pc = next /\ req'[r].kind = q.kind
          /\ req'[r].id = q.id /\ req'[r].body = q.body /\ req'[r].actor = q.actor
          /\ req'[r].copy = [q.copy EXCEPT !.currency = currency]
      BY <1>1, <2>2 DEF Continue, RequestFields
    <3>6. /\ req'[r].copy \in EntryCopy
          /\ \A f \in (EntryFields \cup {"creator", "reporting"}) \ {"currency"} :
                req'[r].copy[f] = q.copy[f]
      BY <3>1, <3>3, <3>5 DEF EntryCopy, EntryFields, FieldValues
    <3>7. req'[r].copy.currency = q.copy.currency \/ q.copy.currency = Absent
      BY <3>1, <3>5 DEF currency, EntryCopy
    <3>8. /\ req'[r].copy.account = q.copy.account /\ req'[r].copy.category = q.copy.category
          /\ account[q.copy.account] # Absent
      BY <3>1, <3>2, <3>5, EntriesAssumption DEF EntryCopy
    <3>9. ReferencesOK(r)'
      BY <1>3, <3>4, <3>5, <3>6, <3>8 DEF ReferencesOK
    <3>10. RequestOK(r)'
      BY <1>1, <1>2, <1>3, <1>4, <2>1, <3>4, <3>5, <3>6, <3>7, <3>9, NextReference DEF Referring
    <3> QED
      BY <2>1, <2>2, <3>10, ReadingStep DEF next, currency
  <2> QED
    BY <1>4, <2>1, <2>2, RefusingStep DEF ReadAccount
<1>5. CASE q.kind = "unshare"
  <2> DEFINE new == [account[q.id] EXCEPT !.shared = RemoveID(@, q.body)]
  <2>1. /\ q.id \in Accounts /\ q.body \in Books
        /\ stale' = [stale EXCEPT ![r] = @ \ {"record"}]
        /\ UNCHANGED <<driver, tables, changes, intended, raced, removed, drifted>>
    BY <1>1, <1>5 DEF ReadAccount, IInv, RequestOK, UnshareOK, Serves, Live
  <2>2. ASSUME account[q.id] # Absent, Continue(r, [q EXCEPT !.pc = "write", !.copy = new])
        PROVE  IInv'
    <3>1. /\ DOMAIN req'[r] = RequestFields /\ req'[r].pc = "write" /\ req'[r].kind = "unshare"
          /\ req'[r].id = q.id /\ req'[r].body = q.body /\ req'[r].copy = new
      BY <1>1, <1>5, <2>2 DEF Continue, RequestFields
    <3>2. account[q.id] \in Account
      BY <1>1, <2>1, <2>2
    <3>3. /\ new \in Account /\ new.currency = account[q.id].currency
          /\ new.shared = account[q.id].shared \ {q.body}
      BY <3>2 DEF Account, RemoveID
    <3> HIDE DEF new
    <3>4. UnshareOK(r)'
      BY <1>3, <2>1, <2>2, <3>1, <3>3 DEF UnshareOK
    <3>5. RequestOK(r)'
      BY <3>1, <3>4, OfItsKind DEF PCs, Kinds
    <3> QED
      BY <2>1, <2>2, <3>5, RefreshingStep
  <2>3. ASSUME Answer(r) PROVE IInv'
    <3>1. RequestOK(r)'
      BY <1>1, <2>3, Answered
    <3> QED
      BY <2>1, <2>3, <3>1, RefreshingStep DEF Answer
  <2> QED
    BY <1>5, <2>2, <2>3 DEF ReadAccount
<1> QED
  BY <1>4, <1>5

\* The destination account exists.
LEMMA ReadDestinationInv == ASSUME IInv, NEW r \in Reqs, ReadDestination(r) PROVE IInv'
<1> DEFINE q == req[r]
           next == AfterAccounts(q)
<1>1. q.pc = "dest" /\ q.kind \in {"create", "update"}
  BY DEF ReadDestination, IInv, RequestOK, DeleteOK, UnshareOK, AccountOK, GroupOK, NewGroupOK,
         Serves, Live, Kinds
<1>2. /\ UNCHANGED <<driver, tables, changes, intended, raced, removed, stale, drifted>>
      /\ UNCHANGED <<role, category, account, group, entry, intended>>
  BY DEF ReadDestination, ReadStep, tables
<1>3. ReferencesOK(r) /\ q.copy \in EntryCopy
  BY <1>1, ReferringRequest DEF Referring
<1>4. next \in {"category", "rates"} /\ (next = "rates" => q.copy.category = Absent)
  BY DEF AfterAccounts
<1>5. ASSUME Proceed(r, next) PROVE IInv'
  <2> HIDE DEF next
  <2>1. /\ DOMAIN req'[r] = RequestFields /\ req'[r].pc = next /\ req'[r].kind = q.kind
        /\ req'[r].id = q.id /\ req'[r].body = q.body /\ req'[r].actor = q.actor
        /\ req'[r].copy = q.copy
    BY <1>4, <1>5, Proceeded DEF PCs
  <2>2. ReferencesOK(r)'
    BY <1>1, <1>2, <1>3, <1>4, <2>1 DEF ReferencesOK
  <2>3. RequestOK(r)'
    BY <1>1, <1>2, <1>4, <2>1, <2>2, NextReference DEF Referring
  <2> QED
    BY <1>2, <1>5, <2>3, ReadingStep DEF Proceed
<1> QED
  BY <1>2, <1>5, RefusingStep DEF ReadDestination, ReadStep

\* The category is active, and its direction is the one seen.
LEMMA ReadCategoryInv == ASSUME IInv, NEW r \in Reqs, ReadCategory(r) PROVE IInv'
<1> DEFINE q == req[r]
           c == q.copy.category
<1>1. /\ q.pc = "category" /\ q.kind \in {"create", "update"} /\ DOMAIN req = Reqs
      /\ DOMAIN q = RequestFields /\ stale \in [Reqs -> SUBSET {"role", "category", "record"}]
  BY DEF ReadCategory, IInv, Typed, RequestOK, DeleteOK, UnshareOK, AccountOK, GroupOK, NewGroupOK,
         Serves, Live, Kinds
<1>2. /\ UNCHANGED <<driver, tables, changes, intended, raced, removed, drifted>>
      /\ UNCHANGED <<role, category, account, group, entry, intended>>
      /\ stale' = [stale EXCEPT ![r] = @ \ {"category"}] /\ stale'[r] = stale[r] \ {"category"}
  BY <1>1 DEF ReadCategory, tables
<1>3. ReferencesOK(r) /\ q.copy \in EntryCopy
  BY <1>1, ReferringRequest DEF Referring
<1>4. CASE category[c].archived
  <2>1. Answer(r) /\ RequestOK(r)'
    BY <1>1, <1>4, Answered DEF ReadCategory
  <2> QED
    BY <1>2, <2>1, RefreshingStep DEF Answer
<1>5. CASE ~category[c].archived
  <2>1. Continue(r, [q EXCEPT !.pc = "rates", !.seen = category[c].direction])
    BY <1>5 DEF ReadCategory
  <2>2. /\ DOMAIN req'[r] = RequestFields /\ req'[r].pc = "rates" /\ req'[r].kind = q.kind
        /\ req'[r].id = q.id /\ req'[r].body = q.body /\ req'[r].actor = q.actor
        /\ req'[r].copy = q.copy /\ req'[r].seen = category[c].direction
    BY <1>1, <2>1 DEF Continue, RequestFields
  <2>3. ReferencesOK(r)'
    BY <1>1, <1>2, <1>3, <1>5, <2>2 DEF ReferencesOK
  <2>4. RequestOK(r)'
    BY <1>1, <1>2, <2>2, <2>3, NextReference DEF Referring
  <2> QED
    BY <1>2, <2>1, <2>4, RefreshingStep
<1> QED
  BY <1>4, <1>5

\* What the validation accepts may be written.
LEMMA ReadRatesInv == ASSUME IInv, NEW r \in Reqs, ReadRates(r) PROVE IInv'
<1> DEFINE q == req[r]
<1>1. q.pc = "rates" /\ q.kind \in {"create", "update"}
  BY DEF ReadRates, IInv, RequestOK, DeleteOK, UnshareOK, AccountOK, GroupOK, NewGroupOK,
         Serves, Live, Kinds
<1>2. /\ UNCHANGED <<driver, tables, changes, intended, raced, removed, stale, drifted>>
      /\ UNCHANGED <<role, category, account, group, entry, intended, stale>>
  BY DEF ReadRates, ReadStep, tables
<1>3. ReferencesOK(r) /\ q.copy \in EntryCopy
  BY <1>1, ReferringRequest DEF Referring
<1>4. ASSUME Valid(q.copy, q.seen), Proceed(r, "write") PROVE IInv'
  <2>1. /\ DOMAIN req'[r] = RequestFields /\ req'[r].pc = "write" /\ req'[r].kind = q.kind
        /\ req'[r].id = q.id /\ req'[r].body = q.body /\ req'[r].actor = q.actor
        /\ req'[r].copy = q.copy
    BY <1>4, Proceeded DEF PCs
  <2>2. ReferencesOK(r)'
    BY <1>1, <1>2, <1>3, <1>4, <2>1 DEF ReferencesOK, Valid
  <2>3. RequestOK(r)'
    BY <1>1, <1>2, <2>1, <2>2, NextReference DEF Referring
  <2> QED
    BY <1>2, <1>4, <2>3, ReadingStep DEF Proceed
<1> QED
  BY <1>2, <1>4, RefusingStep DEF ReadRates, ReadStep

\* The group of an account, or the group to be patched.
LEMMA ReadGroupInv == ASSUME IInv, NEW r \in Reqs, ReadGroup(r) PROVE IInv'
<1> DEFINE q == req[r]
           new == Patched(group[q.id], q.body)
<1>1. /\ q.pc = "group" /\ DOMAIN req = Reqs /\ DOMAIN q = RequestFields
      /\ group \in [Groups -> Group \cup {Absent}]
  BY DEF ReadGroup, IInv, Typed, RequestOK
<1>2. CASE q.kind = "account"
  <2>1. UNCHANGED <<driver, tables, changes, intended, raced, removed, stale, drifted>>
    BY <1>2 DEF ReadGroup
  <2>2. ASSUME Proceed(r, "shares") PROVE IInv'
    <3>1. /\ DOMAIN req'[r] = RequestFields /\ req'[r].pc = "shares" /\ req'[r].kind = "account"
          /\ req'[r].copy = q.copy
      BY <1>2, <2>2, Proceeded DEF PCs
    <3>2. q.copy \in Account
      BY <1>1, <1>2 DEF IInv, RequestOK, AccountOK, Serves, Live
    <3>3. RequestOK(r)'
      BY <3>1, <3>2, OfItsKind DEF AccountOK, PCs, Kinds
    <3> QED
      BY <2>1, <2>2, <3>3, ReadingStep DEF Proceed
  <2> QED
    BY <1>2, <2>1, <2>2, RefusingStep DEF ReadGroup
<1>3. CASE q.kind = "group"
  <2>1. /\ q.id \in Groups /\ q.body \in GroupPatches
        /\ stale' = [stale EXCEPT ![r] = @ \ {"record"}]
        /\ UNCHANGED <<driver, tables, changes, intended, raced, removed, drifted>>
        /\ group' = group
    BY <1>1, <1>3 DEF ReadGroup, tables, IInv, RequestOK, GroupOK, Serves, Live
  <2>2. ASSUME OwnGroup(q.id, q.actor), Continue(r, [q EXCEPT !.pc = "write", !.copy = new])
        PROVE  IInv'
    <3>1. group[q.id] # Absent /\ group[q.id] \in Group
      BY <1>1, <2>1, <2>2 DEF OwnGroup
    <3>2. new = Edited(group[q.id], q.body) /\ new \in Group
      BY <2>1, <3>1, EditedGroup, PatchedIsEdited
    <3> HIDE DEF new
    <3>3. /\ DOMAIN req'[r] = RequestFields /\ req'[r].pc = "write" /\ req'[r].kind = "group"
          /\ req'[r].id = q.id /\ req'[r].body = q.body /\ req'[r].copy = new
      BY <1>1, <1>3, <2>2 DEF Continue, RequestFields
    <3>4. GroupOK(r)'
      BY <2>1, <3>1, <3>2, <3>3 DEF GroupOK
    <3>5. RequestOK(r)'
      BY <3>3, <3>4, OfItsKind DEF PCs, Kinds
    <3> QED
      BY <2>1, <2>2, <3>5, RefreshingStep
  <2>3. ASSUME Answer(r) PROVE IInv'
    <3>1. RequestOK(r)'
      BY <1>1, <2>3, Answered
    <3> QED
      BY <2>1, <2>3, <3>1, RefreshingStep DEF Answer
  <2> QED
    BY <1>3, <2>2, <2>3 DEF ReadGroup
<1> QED
  BY <1>2, <1>3 DEF ReadGroup

\* The shares of a new account are checked one by one.
LEMMA ReadSharesInv == ASSUME IInv, NEW r \in Reqs, ReadShares(r) PROVE IInv'
<1> DEFINE q == req[r]
<1>1. /\ q.pc = "shares" /\ DOMAIN req = Reqs /\ DOMAIN q = RequestFields
      /\ UNCHANGED <<driver, tables, changes, intended, raced, removed, stale, drifted>>
  BY DEF ReadShares, IInv, Typed, RequestOK
<1>2. q.kind = "account" /\ q.copy \in Account
  BY <1>1 DEF IInv, RequestOK, CreateOK, UpdateOK, DeleteOK, UnshareOK, AccountOK, GroupOK,
              NewGroupOK, Serves, Live, Kinds, Referring
<1>3. ASSUME NEW x, Continue(r, x), DOMAIN req'[r] = RequestFields,
             req'[r].pc \in {"shares", "write"}, req'[r].kind = "account", req'[r].copy = q.copy
      PROVE  IInv'
  <2>1. RequestOK(r)'
    BY <1>2, <1>3, OfItsKind DEF AccountOK, PCs, Kinds
  <2> QED
    BY <1>1, <1>3, <2>1, ReadingStep
<1>4. CASE Proceed(r, "write")
  <2>1. /\ DOMAIN req'[r] = RequestFields /\ req'[r].pc = "write" /\ req'[r].kind = "account"
        /\ req'[r].copy = q.copy
    BY <1>2, <1>4, Proceeded DEF PCs
  <2> QED
    BY <1>3, <1>4, <2>1 DEF Proceed
<1>5. ASSUME NEW b, Continue(r, [q EXCEPT !.body = @ \ {b}]) PROVE IInv'
  <2>1. /\ DOMAIN req'[r] = RequestFields /\ req'[r].pc = "shares" /\ req'[r].kind = "account"
        /\ req'[r].copy = q.copy
    BY <1>1, <1>2, <1>5 DEF Continue, RequestFields
  <2> QED
    BY <1>3, <1>5, <2>1
<1>6. CASE Answer(r)
  BY <1>1, <1>6, RefusingStep
<1> QED
  BY <1>4, <1>5, <1>6 DEF ReadShares

\* The lookup before the DELETE statement changes nothing.
LEMMA LookupRowInv == ASSUME IInv, NEW r \in Reqs, LookupRow(r) PROVE IInv'
<1> DEFINE q == req[r]
<1>1. /\ q.pc = "write" /\ q.kind = "delete"
      /\ UNCHANGED <<driver, tables, changes, intended, raced, removed, stale, drifted>>
      /\ UNCHANGED <<role, entry>>
  BY DEF LookupRow, ReadStep, tables
<1>2. q.actor \in Users /\ q.id \in EntryIds /\ intended[q.id] # Absent /\ Permitted(r)
  BY <1>1 DEF IInv, RequestOK, DeleteOK, Serves, Live
<1>3. ASSUME Proceed(r, "row") PROVE IInv'
  <2>1. /\ DOMAIN req'[r] = RequestFields /\ req'[r].pc = "row" /\ req'[r].kind = "delete"
        /\ req'[r].id = q.id /\ req'[r].actor = q.actor
    BY <1>1, <1>3, Proceeded DEF PCs
  <2>2. Permitted(r)'
    BY <1>1, <1>2, <2>1 DEF Permitted
  <2>3. RequestOK(r)'
    BY <1>1, <1>2, <2>1, <2>2, OfItsKind DEF DeleteOK, PCs, Kinds
  <2> QED
    BY <1>1, <1>3, <2>3, ReadingStep DEF Proceed
<1> QED
  BY <1>1, <1>3, RefusingStep DEF LookupRow, ReadStep

-----------------------------------------------------------------------------
(* The steps in which a request arrives.                                   *)

\* A request that arrives holds nothing but its body.
LEMMA ArriveInv == ASSUME IInv, NEW r \in Reqs, Arrive(r) PROVE IInv'
<1>1. DOMAIN req = Reqs
  BY DEF IInv, Typed
<1>2. ASSUME NEW kind \in Kinds, NEW pc \in PCs, NEW u \in Users, NEW id, NEW body, NEW copy,
             Receive(r, Request(kind, pc, u, id, body, copy)),
             kind = "create" => pc = "book" /\ copy \in EntryCopy,
             kind = "update" => pc = "member" /\ id \in EntryIds /\ body \in Patches,
             kind = "delete" => pc = "member" /\ id \in EntryIds,
             kind = "unshare" => pc = "member" /\ id \in Accounts /\ body \in Books,
             kind = "account" => pc = "group" /\ copy \in Account,
             kind = "group" => pc = "group" /\ id \in Groups /\ body \in GroupPatches,
             kind = "newgroup" => pc = "write" /\ copy \in Group
      PROVE  IInv'
  <2>1. /\ DOMAIN req'[r] = RequestFields /\ req'[r].pc = pc /\ req'[r].kind = kind
        /\ req'[r].actor = u /\ req'[r].id = id /\ req'[r].body = body /\ req'[r].copy = copy
    BY <1>1, <1>2 DEF Receive, Continue, Request, RequestFields
  <2>2. RequestOK(r)'
    BY <1>2, <2>1, OfItsKind DEF CreateOK, UpdateOK, DeleteOK, UnshareOK, AccountOK, GroupOK,
                                 NewGroupOK, ReferencesOK, Referring
  <2> QED
    BY <1>2, <2>2, ReadingStep DEF Receive
<1>3. CASE ReceiveCreate(r)
  <2>1. PICK u \in Users, w \in Users, d \in Drafts :
           Receive(r, Request("create", "book", u, Absent, << >>,
                              [creator |-> w, type |-> d.type, account |-> d.account,
                               dest |-> d.dest, category |-> d.category, currency |-> d.currency,
                               text |-> d.text, note |-> d.note, reporting |-> USD]))
    BY <1>3 DEF ReceiveCreate
  <2>2. /\ d.type \in Words /\ d.account \in Accounts /\ d.dest \in Accounts \cup {Absent}
        /\ d.category \in Cats \cup {Absent} /\ d.currency \in Currencies \cup {Absent, Unknown}
        /\ d.text \in Texts /\ d.note \in Words /\ USD \in Currencies
    BY BodiesAssumption, MoneyAssumption DEF EntryFields, FieldValues
  <2>3. [creator |-> w, type |-> d.type, account |-> d.account, dest |-> d.dest,
         category |-> d.category, currency |-> d.currency, text |-> d.text, note |-> d.note,
         reporting |-> USD] \in EntryCopy
    BY <2>2 DEF EntryCopy
  <2>4. "create" \in Kinds /\ "book" \in PCs
    BY DEF Kinds, PCs
  <2> QED
    BY <1>2, <2>1, <2>3, <2>4
<1>4. CASE ReceiveUpdate(r)
  BY <1>2, <1>4 DEF ReceiveUpdate, Kinds, PCs
<1>5. CASE ReceiveDelete(r)
  BY <1>2, <1>5 DEF ReceiveDelete, Kinds, PCs
<1>6. CASE ReceiveUnshare(r)
  BY <1>2, <1>6 DEF ReceiveUnshare, Kinds, PCs
<1>7. CASE ReceiveAccount(r)
  <2>1. PICK u \in Users, d \in AccountDrafts :
           Receive(r, Request("account", "group", u, Absent, d.shared,
                              [user |-> u, group |-> d.group, currency |-> d.currency,
                               shared |-> d.shared]))
    BY <1>7 DEF ReceiveAccount
  <2>2. [user |-> u, group |-> d.group, currency |-> d.currency, shared |-> d.shared] \in Account
    BY BodiesAssumption DEF Account
  <2>3. "account" \in Kinds /\ "group" \in PCs
    BY DEF Kinds, PCs
  <2> QED
    BY <1>2, <2>1, <2>2, <2>3
<1>8. CASE ReceiveGroup(r)
  BY <1>2, <1>8 DEF ReceiveGroup, Kinds, PCs
<1>9. CASE ReceiveNewGroup(r)
  <2>1. PICK u \in Users : Receive(r, Request("newgroup", "write", u, Absent, << >>,
                                              [user |-> u, name |-> "new", order |-> 0]))
    BY <1>9 DEF ReceiveNewGroup
  <2>2. [user |-> u, name |-> "new", order |-> 0] \in Group
    BY EntriesAssumption DEF Group
  <2>3. "newgroup" \in Kinds /\ "write" \in PCs
    BY DEF Kinds, PCs
  <2> QED
    BY <1>2, <2>1, <2>2, <2>3
<1> QED
  BY <1>3, <1>4, <1>5, <1>6, <1>7, <1>8, <1>9 DEF Arrive

\* A store call that fails ends the request.
LEMMA GiveUpInv == ASSUME IInv, NEW r \in Reqs, GiveUp(r) PROVE IInv'
  BY RefusingStep DEF GiveUp

-----------------------------------------------------------------------------
(* The steps that write.                                                   *)

\* What a write leaves to the other requests: the accounts that they refer
\* to keep their currency, no entry comes back and none changes its creator,
\* and stale says when the record in their hands is overtaken.
AccountsKept ==
    \A a \in Accounts : account[a] # Absent =>
       account'[a] # Absent /\ account'[a].currency = account[a].currency
GroupsKept == \A g \in Groups : group[g] # Absent => group'[g] # Absent
EntriesKept ==
    \A e \in EntryIds : intended[e] # Absent =>
       /\ intended'[e] # Absent
       /\ entry'[e] # Absent => entry[e] # Absent /\ entry'[e].creator = entry[e].creator
Told(s) ==
    LET x == req[s].id IN
    /\ stale'[s] \in {stale[s], stale[s] \cup {"record"}}
    /\ req[s].copy # Absent /\ "record" \notin stale'[s] =>
          /\ x \in EntryIds /\ intended[x] # Absent /\ entry'[x] # Absent => entry'[x] = entry[x]
          /\ x \in Accounts /\ account[x] # Absent => account'[x] = account[x]
          /\ x \in Groups /\ group[x] # Absent => group'[x] = group[x]

\* Such a write does not touch what another request holds.
LEMMA OthersHold ==
    ASSUME NEW s \in Reqs, RequestOK(s), req'[s] = req[s], UNCHANGED <<role, category>>,
           AccountsKept, GroupsKept, EntriesKept, Told(s)
    PROVE  RequestOK(s)'
<1> DEFINE q == req[s]
<1>1. /\ "role" \in stale'[s] <=> "role" \in stale[s]
      /\ "category" \in stale'[s] <=> "category" \in stale[s]
      /\ "record" \notin stale'[s] => "record" \notin stale[s]
  BY DEF Told
<1>2. ASSUME ReferencesOK(s) PROVE ReferencesOK(s)'
  <2>1. q.copy \in EntryCopy /\ q.copy.account \in Accounts
    BY <1>2 DEF ReferencesOK, EntryCopy
  <2> QED
    BY <1>1, <1>2, <2>1 DEF ReferencesOK, AccountsKept
<1>3. ASSUME q.id \in EntryIds, intended[q.id] # Absent, Permitted(s) PROVE Permitted(s)'
  BY <1>1, <1>3 DEF Permitted, EntriesKept
<1>4. RoleSeen(s) => RoleSeen(s)'
  BY <1>1 DEF RoleSeen
<1>5. CreateOK(s)'
  BY <1>2 DEF RequestOK, CreateOK, Serves, Live
<1>6. UpdateOK(s)'
  <2>1. SUFFICES ASSUME Serves(s, "update") PROVE UpdateOK(s)'
    BY DEF UpdateOK, Serves, Live
  <2>2. UpdateOK(s)
    BY DEF RequestOK
  <2>3. CASE q.pc \notin Referring
    BY <1>3, <1>4, <2>1, <2>2, <2>3 DEF UpdateOK, EntriesKept
  <2>4. CASE q.pc \in Referring
    <3>1. /\ q.actor \in Users /\ q.id \in EntryIds /\ q.body \in Patches
          /\ intended[q.id] # Absent /\ Permitted(s)
          /\ ReferencesOK(s) /\ (entry[q.id] # Absent => q.copy.creator = entry[q.id].creator)
          /\ entry[q.id] # Absent /\ "record" \notin stale[s] => Follows(q.copy, entry[q.id], q.body)
      BY <2>1, <2>2, <2>4 DEF UpdateOK
    <3>2. q.copy # Absent
      BY <3>1, EntriesAssumption DEF ReferencesOK
    <3>3. ASSUME entry'[q.id] # Absent, "record" \notin stale'[s]
          PROVE  Follows(q.copy, entry'[q.id], q.body)
      BY <1>1, <3>1, <3>2, <3>3 DEF Told, EntriesKept
    <3> QED
      BY <1>2, <1>3, <2>4, <3>1, <3>3 DEF UpdateOK, EntriesKept, Referring
  <2> QED
    BY <2>3, <2>4
<1>7. DeleteOK(s)'
  BY <1>3, <1>4 DEF RequestOK, DeleteOK, EntriesKept, Serves, Live
<1>8. UnshareOK(s)'
  <2>1. SUFFICES ASSUME Serves(s, "unshare"), q.pc = "write" PROVE UnshareOK(s)'
    BY DEF RequestOK, UnshareOK, Serves, Live
  <2>2. /\ q.id \in Accounts /\ q.body \in Books /\ q.copy \in Account /\ account[q.id] # Absent
        /\ q.copy.currency = account[q.id].currency
        /\ "record" \notin stale[s] => q.copy.shared = account[q.id].shared \ {q.body}
    BY <2>1 DEF RequestOK, UnshareOK
  <2>3. q.copy # Absent
    BY <2>2, EntriesAssumption
  <2> QED
    BY <1>1, <2>1, <2>2, <2>3 DEF UnshareOK, AccountsKept, Told
<1>9. GroupOK(s)'
  <2>1. SUFFICES ASSUME Serves(s, "group"), q.pc = "write" PROVE GroupOK(s)'
    BY DEF RequestOK, GroupOK, Serves, Live
  <2>2. /\ q.id \in Groups /\ q.body \in GroupPatches /\ q.copy \in Group /\ group[q.id] # Absent
        /\ "record" \notin stale[s] => q.copy = Edited(group[q.id], q.body)
    BY <2>1 DEF RequestOK, GroupOK
  <2>3. q.copy # Absent
    BY <2>2, EntriesAssumption
  <2> QED
    BY <1>1, <2>1, <2>2, <2>3 DEF GroupOK, GroupsKept, Told
<1>10. AccountOK(s)' /\ NewGroupOK(s)'
  BY DEF RequestOK, AccountOK, NewGroupOK, Serves, Live
<1> QED
  BY <1>5, <1>6, <1>7, <1>8, <1>9, <1>10 DEF RequestOK

\* So only the tables are left to be looked at.
LEMMA WritingStep ==
    ASSUME IInv, NEW r \in Reqs, Answer(r), UNCHANGED <<role, category>>,
           AccountsKept, GroupsKept, EntriesKept, \A s \in Reqs \ {r} : Told(s),
           DOMAIN req' = Reqs => Typed', HistoryOK', EntryOK', EditsLostOnlyByRace',
           RemovedSharesStayRemoved'
    PROVE  IInv'
<1>1. DOMAIN req = Reqs /\ DOMAIN req' = Reqs
  BY DEF IInv, Typed, Answer, Continue
<1>2. RequestOK(r)' /\ \A s \in Reqs \ {r} : req'[s] = req[s]
  BY <1>1, Answered
<1>3. ASSUME NEW s \in Reqs PROVE RequestOK(s)'
  <2>1. CASE s = r
    BY <1>2, <2>1
  <2>2. CASE s # r
    BY <1>2, <2>2, OthersHold DEF IInv
  <2> QED
    BY <2>1, <2>2
<1> QED
  BY <1>1, <1>3 DEF IInv

\* The record of an accepted entry.
LEMMA AcceptedEntry ==
    ASSUME IInv, NEW r \in Reqs, req[r].kind \in {"create", "update"}, req[r].pc = "write"
    PROVE  LET x == req[r].copy IN
           /\ x \in Entry /\ x \in EntryCopy /\ x # Absent
           /\ account[x.account] # Absent
           /\ Converts(x.currency, x.reporting, x.text, Currencies)
           /\ Converts(x.currency, account[x.account].currency, x.text, Currencies)
           /\ x.category # Absent /\ "category" \notin stale[r] =>
                 ~category[x.category].archived /\ Fits(x.type, category[x.category].direction)
<1> DEFINE x == req[r].copy
<1>1. ReferencesOK(r) /\ x \in EntryCopy
  BY ReferringRequest DEF Referring
<1>2. x.type \in EntryTypes /\ x.currency \in Currencies
  BY <1>1 DEF ReferencesOK, Converts
<1>3. x \in Entry
  BY <1>1, <1>2 DEF Entry, EntryCopy
<1>4. x # Absent
  BY <1>1, EntriesAssumption
<1> QED
  BY <1>1, <1>3, <1>4 DEF ReferencesOK

\* Store.CreateEntry: the id is fresh, so nobody holds the record.
LEMMA CreateEntryInv == ASSUME IInv, NEW r \in Reqs, CreateEntry(r) PROVE IInv'
<1> DEFINE q == req[r]
<1>1. PICK e \in EntryIds :
         /\ intended[e] = Absent
         /\ entry' = [entry EXCEPT ![e] = q.copy]
         /\ intended' = [intended EXCEPT ![e] = q.copy]
         /\ drifted' = IF "category" \in stale[r] THEN drifted \cup {e} ELSE drifted
  BY DEF CreateEntry
<1>2. /\ q.pc = "write" /\ q.kind = "create" /\ Answer(r)
      /\ UNCHANGED <<driver, role, reporting, category, account, group, changes, raced, removed, stale>>
  BY DEF CreateEntry
<1>3. /\ q.copy \in Entry /\ q.copy \in EntryCopy /\ q.copy # Absent
      /\ account[q.copy.account] # Absent
      /\ Converts(q.copy.currency, q.copy.reporting, q.copy.text, Currencies)
      /\ Converts(q.copy.currency, account[q.copy.account].currency, q.copy.text, Currencies)
      /\ q.copy.category # Absent /\ "category" \notin stale[r] =>
            /\ ~category[q.copy.category].archived
            /\ Fits(q.copy.type, category[q.copy.category].direction)
  BY <1>2, AcceptedEntry
<1>4. Typed /\ HistoryOK /\ EntryOK /\ EditsLostOnlyByRace /\ RemovedSharesStayRemoved
  BY DEF IInv
<1>5. /\ entry'[e] = q.copy /\ intended'[e] = q.copy
      /\ \A d \in EntryIds \ {e} : entry'[d] = entry[d] /\ intended'[d] = intended[d]
      /\ \A g \in Groups : intended'[g] = intended[g]
      /\ DOMAIN intended' = EntryIds \cup Groups
  BY <1>1, <1>4, EntriesAssumption DEF Typed, HistoryOK
<1>6. DOMAIN req' = Reqs => Typed'
  BY <1>1, <1>2, <1>3, <1>4 DEF Typed
<1>7. HistoryOK'
  BY <1>2, <1>3, <1>4, <1>5 DEF HistoryOK
<1>8. EntryOK'
  <2>1. SUFFICES ASSUME NEW d \in EntryIds, entry'[d] # Absent
                 PROVE  AccountOfEntry(d)' /\ CategoryOfEntry(d)'
    BY DEF EntryOK
  <2>2. CASE d = e
    <3>1. AccountOfEntry(d)'
      BY <1>2, <1>3, <1>5, <2>2 DEF AccountOfEntry
    <3>2. CategoryOfEntry(d)'
      BY <1>1, <1>2, <1>3, <1>5, <2>2 DEF CategoryOfEntry
    <3> QED
      BY <3>1, <3>2
  <2>3. CASE d # e
    BY <1>1, <1>2, <1>4, <1>5, <2>1, <2>3 DEF EntryOK, AccountOfEntry, CategoryOfEntry
  <2> QED
    BY <2>2, <2>3
<1>9. EditsLostOnlyByRace'
  BY <1>2, <1>4, <1>5 DEF EditsLostOnlyByRace
<1>10. RemovedSharesStayRemoved'
  BY <1>2, <1>4 DEF RemovedSharesStayRemoved
<1>11. AccountsKept /\ GroupsKept /\ EntriesKept
  BY <1>1, <1>2, <1>5 DEF AccountsKept, GroupsKept, EntriesKept
<1>12. \A s \in Reqs \ {r} : Told(s)
  BY <1>1, <1>2, <1>5 DEF Told
<1> QED
  BY <1>2, <1>6, <1>7, <1>8, <1>9, <1>10, <1>11, <1>12, WritingStep

\* Who else holds a copy of the record that r writes is told so.
LEMMA Overtaken ==
    ASSUME Typed, NEW r \in Reqs, NEW x, Overtake(r, x), NoteRace(r, x),
           x \in EntryIds \cup Groups \cup Accounts
    PROVE  /\ stale' \in [Reqs -> SUBSET {"role", "category", "record"}]
           /\ raced' \subseteq EntryIds \cup Groups \cup Accounts /\ raced \subseteq raced'
           /\ x \notin raced' => x \notin raced /\ "record" \notin stale[r]
           /\ \A y : y # x /\ y \notin raced' => y \notin raced
           /\ \A s \in Reqs \ {r} :
                 /\ stale'[s] \in {stale[s], stale[s] \cup {"record"}}
                 /\ req[s].copy # Absent /\ "record" \notin stale'[s] => req[s].id # x
<1>1. /\ stale \in [Reqs -> SUBSET {"role", "category", "record"}]
      /\ raced \subseteq EntryIds \cup Groups \cup Accounts
  BY DEF Typed
<1>2. /\ stale' \in [Reqs -> SUBSET {"role", "category", "record"}]
      /\ \A s \in Reqs \ {r} :
            /\ stale'[s] \in {stale[s], stale[s] \cup {"record"}}
            /\ req[s].copy # Absent /\ "record" \notin stale'[s] => req[s].id # x
  BY <1>1 DEF Overtake
<1>3. /\ raced' \subseteq EntryIds \cup Groups \cup Accounts /\ raced \subseteq raced'
      /\ x \notin raced' => x \notin raced /\ "record" \notin stale[r]
      /\ \A y : y # x /\ y \notin raced' => y \notin raced
  BY <1>1 DEF NoteRace
<1> QED
  BY <1>2, <1>3

\* Store.UpdateEntry: the record follows from what is stored, unless stale
\* says that r has been overtaken.
LEMMA UpdateEntryInv == ASSUME IInv, NEW r \in Reqs, UpdateEntry(r) PROVE IInv'
<1> DEFINE q == req[r]
           e == q.id
           old == intended[e]
           ed == Edited(old, q.body)
           currency == IF ed.currency = Absent THEN q.copy.currency ELSE ed.currency
           new == [ed EXCEPT !.reporting = q.copy.reporting, !.currency = currency]
<1>1. /\ q.pc = "write" /\ q.kind = "update" /\ Answer(r)
      /\ UNCHANGED <<driver, role, reporting, category, account, group, changes, removed>>
  BY DEF UpdateEntry
<1>2. Typed /\ HistoryOK /\ EntryOK /\ EditsLostOnlyByRace /\ RemovedSharesStayRemoved
  BY DEF IInv
<1>3. /\ e \in EntryIds /\ q.body \in Patches /\ old # Absent /\ old \in EntryCopy
      /\ entry[e] # Absent => q.copy.creator = entry[e].creator
      /\ entry[e] # Absent /\ "record" \notin stale[r] => Follows(q.copy, entry[e], q.body)
  BY <1>1, <1>2 DEF IInv, RequestOK, UpdateOK, Serves, Live, Referring, HistoryOK
<1>4. CASE entry[e] = Absent
  <2>1. UNCHANGED <<driver, tables, changes, intended, raced, removed, stale, drifted>>
    BY <1>4 DEF UpdateEntry, tables
  <2> QED
    BY <1>1, <2>1, RefusingStep
<1>5. CASE entry[e] # Absent
  <2>1. /\ entry' = [entry EXCEPT ![e] = q.copy]
        /\ intended' = [intended EXCEPT ![e] = new]
        /\ drifted' = IF "category" \in stale[r] THEN drifted \cup {e} ELSE drifted \ {e}
        /\ NoteRace(r, e) /\ Overtake(r, e)
    BY <1>5 DEF UpdateEntry
  <2>2. /\ q.copy \in Entry /\ q.copy \in EntryCopy /\ q.copy # Absent
        /\ account[q.copy.account] # Absent
        /\ Converts(q.copy.currency, q.copy.reporting, q.copy.text, Currencies)
        /\ Converts(q.copy.currency, account[q.copy.account].currency, q.copy.text, Currencies)
        /\ q.copy.category # Absent /\ "category" \notin stale[r] =>
              /\ ~category[q.copy.category].archived
              /\ Fits(q.copy.type, category[q.copy.category].direction)
    BY <1>1, AcceptedEntry
  <2>3. /\ Edited(old, q.body) \in EntryCopy /\ Edited(old, q.body).creator = old.creator
    BY <1>3, EditedCopy
  <2>4. /\ new \in EntryCopy /\ new # Absent
        /\ new.reporting = q.copy.reporting
        /\ new.currency = IF Edited(old, q.body).currency = Absent THEN q.copy.currency
                          ELSE Edited(old, q.body).currency
        /\ new.creator = old.creator
        /\ \A f \in EntryFields \ {"currency"} : new[f] = Edited(old, q.body)[f]
    <3>1. new = [ed EXCEPT !.reporting = q.copy.reporting, !.currency = currency]
      OBVIOUS
    <3> HIDE DEF ed, new
    <3>2. ed \in EntryCopy /\ q.copy \in EntryCopy /\ ed.creator = old.creator
      BY <2>2, <2>3 DEF ed
    <3>3. /\ new \in EntryCopy
          /\ new.reporting = q.copy.reporting /\ new.currency = currency /\ new.creator = old.creator
      BY <3>1, <3>2 DEF EntryCopy
    <3>4. \A f \in EntryFields \ {"currency"} : new[f] = ed[f]
      BY <3>1, <3>2 DEF EntryCopy, EntryFields, FieldValues
    <3>5. new # Absent
      BY <3>3, EntriesAssumption
    <3> QED
      BY <3>3, <3>4, <3>5 DEF ed
  <2> HIDE DEF new
  <2>5. ASSUME e \notin raced' PROVE q.copy = new
    <3>1. old = entry[e] /\ Follows(q.copy, old, q.body)
      BY <1>2, <1>3, <1>5, <2>1, <2>5, Overtaken DEF EditsLostOnlyByRace
    <3>2. q.copy.creator = new.creator /\ q.copy.reporting = new.reporting
      BY <1>3, <1>5, <2>4, <3>1
    <3>3. q.copy.currency = new.currency
      BY <2>4, <3>1 DEF Follows
    <3>4. \A f \in EntryFields \ {"currency"} : q.copy[f] = new[f]
      BY <2>4, <3>1 DEF Follows
    <3>5. /\ q.copy.type = new.type /\ q.copy.account = new.account /\ q.copy.dest = new.dest
          /\ q.copy.category = new.category /\ q.copy.text = new.text /\ q.copy.note = new.note
      BY <3>4 DEF EntryFields, FieldValues
    <3> QED
      BY <2>2, <2>4, <3>2, <3>3, <3>5, CopiesEqual
  <2>6. /\ entry'[e] = q.copy /\ intended'[e] = new
        /\ \A d \in EntryIds \ {e} : entry'[d] = entry[d] /\ intended'[d] = intended[d]
        /\ \A g \in Groups : intended'[g] = intended[g]
        /\ DOMAIN intended' = EntryIds \cup Groups
    BY <1>2, <1>3, <2>1, EntriesAssumption DEF Typed, HistoryOK
  <2>7. DOMAIN req' = Reqs => Typed'
    BY <1>1, <1>2, <1>3, <2>1, <2>2, Overtaken DEF Typed
  <2>8. HistoryOK'
    BY <1>1, <1>2, <2>2, <2>4, <2>6 DEF HistoryOK
  <2>9. EntryOK'
    <3>1. SUFFICES ASSUME NEW d \in EntryIds, entry'[d] # Absent
                   PROVE  AccountOfEntry(d)' /\ CategoryOfEntry(d)'
      BY DEF EntryOK
    <3>2. CASE d = e
      <4>1. AccountOfEntry(d)'
        BY <1>1, <2>2, <2>6, <3>2 DEF AccountOfEntry
      <4>2. CategoryOfEntry(d)'
        BY <1>1, <2>1, <2>2, <2>6, <3>2 DEF CategoryOfEntry
      <4> QED
        BY <4>1, <4>2
    <3>3. CASE d # e
      BY <1>1, <1>2, <2>1, <2>6, <3>1, <3>3 DEF EntryOK, AccountOfEntry, CategoryOfEntry
    <3> QED
      BY <3>2, <3>3
  <2>10. EditsLostOnlyByRace'
    <3>1. \A d \in EntryIds \ raced' : entry'[d] # Absent => entry'[d] = intended'[d]
      BY <1>2, <1>3, <2>1, <2>5, <2>6, Overtaken DEF EditsLostOnlyByRace
    <3>2. \A g \in Groups \ raced' : group'[g] = intended'[g]
      BY <1>1, <1>2, <1>3, <2>1, <2>6, Overtaken DEF EditsLostOnlyByRace
    <3> QED
      BY <3>1, <3>2 DEF EditsLostOnlyByRace
  <2>11. RemovedSharesStayRemoved'
    BY <1>1, <1>2, <1>3, <2>1, Overtaken DEF RemovedSharesStayRemoved
  <2>12. AccountsKept /\ GroupsKept /\ EntriesKept
    BY <1>1, <1>3, <1>5, <2>4, <2>6 DEF AccountsKept, GroupsKept, EntriesKept
  <2>13. \A s \in Reqs \ {r} : Told(s)
    BY <1>1, <1>2, <1>3, <2>1, <2>6, Overtaken DEF Told
  <2> QED
    BY <1>1, <2>7, <2>8, <2>9, <2>10, <2>11, <2>12, <2>13, WritingStep
<1> QED
  BY <1>4, <1>5

\* Store.DeleteEntry: what is gone needs no check, and the history keeps it.
LEMMA DeleteEntryInv == ASSUME IInv, NEW r \in Reqs, DeleteEntry(r) PROVE IInv'
<1> DEFINE q == req[r]
<1>1. /\ q.kind = "delete" /\ q.pc \in {"write", "row"} /\ Answer(r)
      /\ entry' = [entry EXCEPT ![q.id] = Absent]
      /\ UNCHANGED <<driver, role, reporting, category, account, group, changes, intended, raced,
                     removed, stale, drifted>>
  BY DEF DeleteEntry
<1>2. Typed /\ HistoryOK /\ EntryOK /\ EditsLostOnlyByRace /\ RemovedSharesStayRemoved
  BY DEF IInv
<1>3. q.id \in EntryIds
  BY <1>1 DEF IInv, RequestOK, DeleteOK, Serves, Live
<1>4. \A d \in EntryIds : entry'[d] = Absent \/ entry'[d] = entry[d]
  BY <1>1, <1>2 DEF Typed
<1>5. DOMAIN req' = Reqs => Typed'
  BY <1>1, <1>2 DEF Typed
<1>6. HistoryOK'
  BY <1>1, <1>2, <1>4 DEF HistoryOK
<1>7. EntryOK'
  BY <1>1, <1>2, <1>4 DEF EntryOK, AccountOfEntry, CategoryOfEntry
<1>8. EditsLostOnlyByRace' /\ RemovedSharesStayRemoved'
  BY <1>1, <1>2, <1>4 DEF EditsLostOnlyByRace, RemovedSharesStayRemoved
<1>9. AccountsKept /\ GroupsKept /\ EntriesKept /\ \A s \in Reqs \ {r} : Told(s)
  BY <1>1, <1>4 DEF AccountsKept, GroupsKept, EntriesKept, Told
<1> QED
  BY <1>1, <1>5, <1>6, <1>7, <1>8, <1>9, WritingStep

\* Store.UpdateAccount of UnshareAccount: the list that r writes lacks the
\* book, and every book removed before unless r has been overtaken.
LEMMA UnshareAccountInv == ASSUME IInv, NEW r \in Reqs, UnshareAccount(r) PROVE IInv'
<1> DEFINE q == req[r]
           a == q.id
<1>1. /\ q.pc = "write" /\ q.kind = "unshare" /\ Answer(r)
      /\ account' = [account EXCEPT ![a] = q.copy]
      /\ removed' = removed \cup {<<a, q.body>>}
      /\ NoteRace(r, a) /\ Overtake(r, a)
      /\ UNCHANGED <<driver, role, reporting, category, group, entry, changes, intended, drifted>>
  BY DEF UnshareAccount
<1>2. Typed /\ HistoryOK /\ EntryOK /\ EditsLostOnlyByRace /\ RemovedSharesStayRemoved
  BY DEF IInv
<1>3. /\ a \in Accounts /\ q.body \in Books /\ q.copy \in Account /\ account[a] # Absent
      /\ q.copy.currency = account[a].currency
      /\ "record" \notin stale[r] => q.copy.shared = account[a].shared \ {q.body}
  BY <1>1 DEF IInv, RequestOK, UnshareOK, Serves, Live
<1>4. q.copy # Absent
  BY <1>3, EntriesAssumption
<1>5. /\ account'[a] = q.copy
      /\ \A b \in Accounts \ {a} : account'[b] = account[b]
      /\ \A b \in Accounts : account[b] # Absent =>
            account'[b] # Absent /\ account'[b].currency = account[b].currency
  BY <1>1, <1>2, <1>3, <1>4 DEF Typed
<1>6. DOMAIN req' = Reqs => Typed'
  BY <1>1, <1>2, <1>3, Overtaken DEF Typed
<1>7. \A x \in removed' : x[1] \in Accounts /\ (x \in removed \/ x = <<a, q.body>>)
  BY <1>1, <1>2, <1>3 DEF Typed
<1>8. HistoryOK'
  BY <1>1, <1>2, <1>3, <1>5, <1>7 DEF HistoryOK
<1>9. EntryOK'
  <2>1. SUFFICES ASSUME NEW e \in EntryIds, entry[e] # Absent
                 PROVE  AccountOfEntry(e)' /\ CategoryOfEntry(e)'
    BY <1>1 DEF EntryOK
  <2>2. entry[e].account \in Accounts
    BY <1>2, <2>1 DEF Typed, Entry
  <2> QED
    BY <1>1, <1>2, <1>5, <2>1, <2>2 DEF EntryOK, AccountOfEntry, CategoryOfEntry
<1>10. EditsLostOnlyByRace'
  BY <1>1, <1>2, <1>3, Overtaken DEF EditsLostOnlyByRace
<1>11. RemovedSharesStayRemoved'
  <2>1. SUFFICES ASSUME NEW x \in removed', x[1] \notin raced'
                 PROVE  x[2] \notin account'[x[1]].shared
    BY DEF RemovedSharesStayRemoved
  <2>2. x[1] \notin raced /\ (x[1] = a => "record" \notin stale[r])
    BY <1>1, <1>2, <1>3, <2>1, Overtaken
  <2>3. CASE x[1] = a
    BY <1>2, <1>3, <1>5, <1>7, <2>1, <2>2, <2>3 DEF RemovedSharesStayRemoved
  <2>4. CASE x[1] # a
    BY <1>2, <1>5, <1>7, <2>1, <2>2, <2>4 DEF RemovedSharesStayRemoved
  <2> QED
    BY <2>3, <2>4
<1>12. AccountsKept /\ GroupsKept /\ EntriesKept
  BY <1>1, <1>5 DEF AccountsKept, GroupsKept, EntriesKept
<1>13. \A s \in Reqs \ {r} : Told(s)
  BY <1>1, <1>2, <1>3, <1>5, Overtaken DEF Told
<1> QED
  BY <1>1, <1>6, <1>8, <1>9, <1>10, <1>11, <1>12, <1>13, WritingStep

\* Store.CreateAccount: no entry, share or request refers to a fresh id.
LEMMA CreateAccountInv == ASSUME IInv, NEW r \in Reqs, CreateAccount(r) PROVE IInv'
<1> DEFINE q == req[r]
<1>1. /\ q.pc = "write" /\ q.kind = "account" /\ Answer(r)
      /\ UNCHANGED <<driver, role, reporting, category, group, entry, changes, intended, raced,
                     removed, stale, drifted>>
  BY DEF CreateAccount
<1>2. PICK a \in Accounts : account[a] = Absent /\ account' = [account EXCEPT ![a] = q.copy]
  BY DEF CreateAccount
<1>3. Typed /\ HistoryOK /\ EntryOK /\ EditsLostOnlyByRace /\ RemovedSharesStayRemoved
  BY DEF IInv
<1>4. q.copy \in Account
  BY <1>1 DEF IInv, RequestOK, AccountOK, Serves, Live
<1>5. \A b \in Accounts : account[b] # Absent => account'[b] = account[b]
  BY <1>2, <1>3 DEF Typed
<1>6. DOMAIN req' = Reqs => Typed'
  BY <1>1, <1>2, <1>3, <1>4 DEF Typed
<1>7. \A x \in removed : x[1] \in Accounts /\ account[x[1]] # Absent
  BY <1>3 DEF Typed, HistoryOK
<1>8. HistoryOK' /\ RemovedSharesStayRemoved'
  BY <1>1, <1>3, <1>5, <1>7 DEF HistoryOK, RemovedSharesStayRemoved
<1>9. EntryOK'
  <2>1. SUFFICES ASSUME NEW e \in EntryIds, entry[e] # Absent
                 PROVE  AccountOfEntry(e)' /\ CategoryOfEntry(e)'
    BY <1>1 DEF EntryOK
  <2>2. entry[e].account \in Accounts
    BY <1>3, <2>1 DEF Typed, Entry
  <2> QED
    BY <1>1, <1>3, <1>5, <2>1, <2>2 DEF EntryOK, AccountOfEntry, CategoryOfEntry
<1>10. EditsLostOnlyByRace'
  BY <1>1, <1>3 DEF EditsLostOnlyByRace
<1>11. AccountsKept /\ GroupsKept /\ EntriesKept
  BY <1>1, <1>5 DEF AccountsKept, GroupsKept, EntriesKept
<1>12. \A s \in Reqs \ {r} : Told(s)
  BY <1>1, <1>5 DEF Told
<1> QED
  BY <1>1, <1>6, <1>8, <1>9, <1>10, <1>11, <1>12, WritingStep

\* Store.CreateAccountGroup, the same.
LEMMA CreateAccountGroupInv == ASSUME IInv, NEW r \in Reqs, CreateAccountGroup(r) PROVE IInv'
<1> DEFINE q == req[r]
<1>1. /\ q.pc = "write" /\ q.kind = "newgroup" /\ Answer(r)
      /\ UNCHANGED <<driver, role, reporting, category, account, entry, changes, raced, removed,
                     stale, drifted>>
  BY DEF CreateAccountGroup
<1>2. PICK g \in Groups : /\ group[g] = Absent
                          /\ group' = [group EXCEPT ![g] = q.copy]
                          /\ intended' = [intended EXCEPT ![g] = q.copy]
  BY DEF CreateAccountGroup
<1>3. Typed /\ HistoryOK /\ EntryOK /\ EditsLostOnlyByRace /\ RemovedSharesStayRemoved
  BY DEF IInv
<1>4. q.copy \in Group /\ q.copy # Absent
  BY <1>1, EntriesAssumption DEF IInv, RequestOK, NewGroupOK, Serves, Live
<1>5. /\ group'[g] = q.copy /\ intended'[g] = q.copy
      /\ \A h \in Groups \ {g} : group'[h] = group[h] /\ intended'[h] = intended[h]
      /\ \A e \in EntryIds : intended'[e] = intended[e]
      /\ DOMAIN intended' = EntryIds \cup Groups
  BY <1>2, <1>3, EntriesAssumption DEF Typed, HistoryOK
<1>6. DOMAIN req' = Reqs => Typed'
  BY <1>1, <1>2, <1>3, <1>4 DEF Typed
<1>7. HistoryOK' /\ RemovedSharesStayRemoved'
  BY <1>1, <1>3, <1>4, <1>5 DEF HistoryOK, RemovedSharesStayRemoved
<1>8. EntryOK' /\ EditsLostOnlyByRace'
  BY <1>1, <1>3, <1>5 DEF EntryOK, AccountOfEntry, CategoryOfEntry, EditsLostOnlyByRace
<1>9. AccountsKept /\ GroupsKept /\ EntriesKept
  BY <1>1, <1>2, <1>5 DEF AccountsKept, GroupsKept, EntriesKept
<1>10. \A s \in Reqs \ {r} : Told(s)
  BY <1>1, <1>2, <1>5 DEF Told
<1> QED
  BY <1>1, <1>6, <1>7, <1>8, <1>9, <1>10, WritingStep

\* Store.UpdateAccountGroup, as UpdateEntry; groups are never deleted here.
LEMMA UpdateAccountGroupInv == ASSUME IInv, NEW r \in Reqs, UpdateAccountGroup(r) PROVE IInv'
<1> DEFINE q == req[r]
           g == q.id
           new == Edited(intended[g], q.body)
<1>1. /\ q.pc = "write" /\ q.kind = "group" /\ Answer(r)
      /\ group' = [group EXCEPT ![g] = q.copy]
      /\ intended' = [intended EXCEPT ![g] = new]
      /\ NoteRace(r, g) /\ Overtake(r, g)
      /\ UNCHANGED <<driver, role, reporting, category, account, entry, changes, removed, drifted>>
  BY DEF UpdateAccountGroup
<1>2. Typed /\ HistoryOK /\ EntryOK /\ EditsLostOnlyByRace /\ RemovedSharesStayRemoved
  BY DEF IInv
<1>3. /\ g \in Groups /\ q.body \in GroupPatches /\ q.copy \in Group /\ group[g] # Absent
      /\ "record" \notin stale[r] => q.copy = Edited(group[g], q.body)
  BY <1>1 DEF IInv, RequestOK, GroupOK, Serves, Live
<1>4. intended[g] \in Group
  BY <1>2, <1>3 DEF HistoryOK
<1>5. new \in Group /\ new # Absent /\ q.copy # Absent
  BY <1>3, <1>4, EditedGroup, EntriesAssumption
<1>6. ASSUME g \notin raced' PROVE q.copy = new
  <2>1. g \notin raced /\ "record" \notin stale[r]
    BY <1>1, <1>2, <1>3, <1>6, Overtaken
  <2>2. group[g] = intended[g]
    BY <1>2, <1>3, <2>1 DEF EditsLostOnlyByRace
  <2> QED
    BY <1>3, <2>1, <2>2
<1> HIDE DEF new
<1>7. /\ group'[g] = q.copy /\ intended'[g] = new
      /\ \A h \in Groups \ {g} : group'[h] = group[h] /\ intended'[h] = intended[h]
      /\ \A e \in EntryIds : intended'[e] = intended[e]
      /\ DOMAIN intended' = EntryIds \cup Groups
  BY <1>1, <1>2, <1>3, EntriesAssumption DEF Typed, HistoryOK
<1>8. DOMAIN req' = Reqs => Typed'
  BY <1>1, <1>2, <1>3, Overtaken DEF Typed
<1>9. HistoryOK'
  BY <1>1, <1>2, <1>3, <1>5, <1>7 DEF HistoryOK
<1>10. EntryOK'
  BY <1>1, <1>2 DEF EntryOK, AccountOfEntry, CategoryOfEntry
<1>11. EditsLostOnlyByRace'
  <2>1. \A e \in EntryIds \ raced' : entry'[e] # Absent => entry'[e] = intended'[e]
    BY <1>1, <1>2, <1>3, <1>7, Overtaken, EntriesAssumption DEF EditsLostOnlyByRace
  <2>2. \A h \in Groups \ raced' : group'[h] = intended'[h]
    BY <1>1, <1>2, <1>3, <1>6, <1>7, Overtaken DEF EditsLostOnlyByRace
  <2> QED
    BY <2>1, <2>2 DEF EditsLostOnlyByRace
<1>12. RemovedSharesStayRemoved'
  BY <1>1, <1>2, <1>3, Overtaken DEF RemovedSharesStayRemoved
<1>13. AccountsKept /\ GroupsKept /\ EntriesKept
  BY <1>1, <1>3, <1>5, <1>7 DEF AccountsKept, GroupsKept, EntriesKept
<1>14. \A s \in Reqs \ {r} : Told(s)
  BY <1>1, <1>2, <1>3, <1>7, Overtaken DEF Told
<1> QED
  BY <1>1, <1>8, <1>9, <1>10, <1>11, <1>12, <1>13, <1>14, WritingStep

-----------------------------------------------------------------------------
(* What other calls change meanwhile.                                      *)

\* A change of role is one that stale knows of, or of another book or user.
LEMMA ChangeRoleInv == ASSUME IInv, ChangeRole PROVE IInv'
<1>1. PICK b \in Books, u \in Users, x \in Roles \cup {Absent} :
         /\ changes < MaxChanges /\ changes' = changes + 1
         /\ role' = [role EXCEPT ![b][u] = x]
         /\ stale' = [s \in Reqs |-> IF req[s].actor = u /\ b = Home
                                     THEN stale[s] \cup {"role"} ELSE stale[s]]
         /\ UNCHANGED <<driver, reporting, category, account, group, entry, req, intended, raced,
                        removed, drifted>>
  BY DEF ChangeRole
<1>2. Typed /\ HistoryOK /\ EntryOK /\ EditsLostOnlyByRace /\ RemovedSharesStayRemoved
  BY DEF IInv
<1>3. Typed'
  <2>1. role' \in [Books -> [Users -> Roles \cup {Absent}]]
    BY <1>1, <1>2 DEF Typed
  <2>2. changes' \in 0..MaxChanges
    BY <1>1, <1>2, EntriesAssumption DEF Typed
  <2>3. stale' \in [Reqs -> SUBSET {"role", "category", "record"}]
    BY <1>1, <1>2 DEF Typed
  <2> QED
    BY <1>1, <1>2, <2>1, <2>2, <2>3 DEF Typed
<1>4. HistoryOK' /\ EntryOK' /\ EditsLostOnlyByRace' /\ RemovedSharesStayRemoved'
  BY <1>1, <1>2 DEF HistoryOK, EntryOK, AccountOfEntry, CategoryOfEntry, EditsLostOnlyByRace,
                    RemovedSharesStayRemoved
<1>5. ASSUME NEW s \in Reqs PROVE RequestOK(s)'
  <2>1. /\ req'[s] = req[s] /\ RequestOK(s)
        /\ UNCHANGED <<category, account, group, entry, intended>>
        /\ "category" \in stale'[s] <=> "category" \in stale[s]
        /\ "record" \in stale'[s] <=> "record" \in stale[s]
        /\ "role" \in stale[s] => "role" \in stale'[s]
    BY <1>1 DEF IInv
  <2>2. ASSUME req[s].actor \in Users
        PROVE  "role" \in stale'[s] \/ role'[Home][req[s].actor] = role[Home][req[s].actor]
    BY <1>1, <1>2, <2>2, EntriesAssumption DEF Typed
  <2>3. ReferencesOK(s) => ReferencesOK(s)'
    BY <2>1 DEF ReferencesOK
  <2>4. req[s].actor \in Users /\ RoleSeen(s) => RoleSeen(s)'
    BY <2>1, <2>2 DEF RoleSeen
  <2>5. req[s].actor \in Users /\ Permitted(s) => Permitted(s)'
    BY <2>1, <2>2 DEF Permitted
  <2>6. CreateOK(s)'
    BY <2>1, <2>3 DEF RequestOK, CreateOK, Serves, Live
  <2>7. UpdateOK(s)'
    BY <2>1, <2>3, <2>4, <2>5 DEF RequestOK, UpdateOK, Serves, Live
  <2>8. DeleteOK(s)'
    BY <2>1, <2>4, <2>5 DEF RequestOK, DeleteOK, Serves, Live
  <2>9. UnshareOK(s)' /\ AccountOK(s)' /\ GroupOK(s)' /\ NewGroupOK(s)'
    BY <2>1 DEF RequestOK, UnshareOK, AccountOK, GroupOK, NewGroupOK, Serves, Live
  <2> QED
    BY <2>1, <2>6, <2>7, <2>8, <2>9 DEF RequestOK
<1> QED
  BY <1>3, <1>4, <1>5 DEF IInv

\* An entry carries the reporting currency that it was validated with.
LEMMA ChangeReportingInv == ASSUME IInv, ChangeReporting PROVE IInv'
<1>1. /\ changes < MaxChanges /\ changes' = changes + 1 /\ reporting' \in Currencies
      /\ UNCHANGED <<driver, role, category, account, group, entry, req, intended, raced, removed,
                     stale, drifted>>
  BY DEF ChangeReporting
<1>2. Typed /\ HistoryOK /\ EntryOK /\ EditsLostOnlyByRace /\ RemovedSharesStayRemoved
  BY DEF IInv
<1>3. Typed'
  <2>1. changes' \in 0..MaxChanges
    BY <1>1, <1>2, EntriesAssumption DEF Typed
  <2> QED
    BY <1>1, <1>2, <2>1 DEF Typed
<1>4. HistoryOK' /\ EntryOK' /\ EditsLostOnlyByRace' /\ RemovedSharesStayRemoved'
  BY <1>1, <1>2 DEF HistoryOK, EntryOK, AccountOfEntry, CategoryOfEntry, EditsLostOnlyByRace,
                    RemovedSharesStayRemoved
<1>5. \A s \in Reqs : RequestOK(s)'
  BY <1>1, OthersKeep DEF IInv
<1> QED
  BY <1>3, <1>4, <1>5 DEF IInv

\* The entries of an edited category are drifted, and the requests that have
\* checked it are told.
LEMMA EditCategoryInv == ASSUME IInv, EditCategory PROVE IInv'
<1>1. PICK c \in Cats, d \in Directions, z \in BOOLEAN :
         /\ changes < MaxChanges /\ changes' = changes + 1
         /\ category' = [category EXCEPT ![c] = [direction |-> d, archived |-> z]]
         /\ drifted' = drifted \cup {e \in EntryIds : entry[e] # Absent /\ entry[e].category = c}
         /\ stale' = [s \in Reqs |-> IF /\ req[s].kind \in {"create", "update"}
                                        /\ req[s].pc \in {"rates", "write"}
                                        /\ req[s].copy.category = c
                                     THEN stale[s] \cup {"category"} ELSE stale[s]]
         /\ UNCHANGED <<driver, role, reporting, account, group, entry, req, intended, raced, removed>>
  BY DEF EditCategory
<1>2. Typed /\ HistoryOK /\ EntryOK /\ EditsLostOnlyByRace /\ RemovedSharesStayRemoved
  BY DEF IInv
<1>3. Typed'
  <2>1. category' \in [Cats -> [direction: Directions, archived: BOOLEAN]]
    BY <1>1, <1>2 DEF Typed
  <2>2. changes' \in 0..MaxChanges
    BY <1>1, <1>2, EntriesAssumption DEF Typed
  <2>3. stale' \in [Reqs -> SUBSET {"role", "category", "record"}]
    BY <1>1, <1>2 DEF Typed
  <2>4. drifted' \subseteq EntryIds
    BY <1>1, <1>2 DEF Typed
  <2> QED
    BY <1>1, <1>2, <2>1, <2>2, <2>3, <2>4 DEF Typed
<1>4. \A x \in Cats : x # c => category'[x] = category[x]
  BY <1>1, <1>2 DEF Typed
<1>5. EntryOK'
  <2>1. SUFFICES ASSUME NEW e \in EntryIds, entry[e] # Absent
                 PROVE  AccountOfEntry(e)' /\ CategoryOfEntry(e)'
    BY <1>1 DEF EntryOK
  <2>2. AccountOfEntry(e)'
    BY <1>1, <1>2, <2>1 DEF EntryOK, AccountOfEntry
  <2>3. entry[e].category \in Cats \cup {Absent}
    BY <1>2, <2>1 DEF Typed, Entry
  <2>4. CategoryOfEntry(e)'
    BY <1>1, <1>2, <1>4, <2>1, <2>3 DEF EntryOK, CategoryOfEntry
  <2> QED
    BY <2>2, <2>4
<1>6. HistoryOK' /\ EditsLostOnlyByRace' /\ RemovedSharesStayRemoved'
  BY <1>1, <1>2 DEF HistoryOK, EditsLostOnlyByRace, RemovedSharesStayRemoved
<1>7. ASSUME NEW s \in Reqs PROVE RequestOK(s)'
  <2>1. /\ req'[s] = req[s] /\ RequestOK(s)
        /\ UNCHANGED <<role, account, group, entry, intended>>
        /\ "role" \in stale'[s] <=> "role" \in stale[s]
        /\ "record" \in stale'[s] <=> "record" \in stale[s]
        /\ "category" \in stale[s] => "category" \in stale'[s]
    BY <1>1 DEF IInv
  <2>2. ASSUME req[s].kind \in {"create", "update"}, ReferencesOK(s) PROVE ReferencesOK(s)'
    <3> DEFINE k == req[s].copy.category
    <3>1. k \in Cats \cup {Absent}
      BY <2>2 DEF ReferencesOK, EntryCopy
    <3>2. ASSUME req[s].pc \in {"rates", "write"}, k # Absent, "category" \notin stale'[s]
          PROVE  "category" \notin stale[s] /\ category'[k] = category[k]
      BY <1>1, <1>4, <2>1, <2>2, <3>1, <3>2
    <3> QED
      BY <2>1, <2>2, <3>2 DEF ReferencesOK
  <2>3. RoleSeen(s) => RoleSeen(s)'
    BY <2>1 DEF RoleSeen
  <2>4. Permitted(s) => Permitted(s)'
    BY <2>1 DEF Permitted
  <2>5. CreateOK(s)'
    BY <2>1, <2>2 DEF RequestOK, CreateOK, Serves, Live
  <2>6. UpdateOK(s)'
    BY <2>1, <2>2, <2>3, <2>4 DEF RequestOK, UpdateOK, Serves, Live
  <2>7. DeleteOK(s)'
    BY <2>1, <2>3, <2>4 DEF RequestOK, DeleteOK, Serves, Live
  <2>8. UnshareOK(s)' /\ AccountOK(s)' /\ GroupOK(s)' /\ NewGroupOK(s)'
    BY <2>1 DEF RequestOK, UnshareOK, AccountOK, GroupOK, NewGroupOK, Serves, Live
  <2> QED
    BY <2>1, <2>5, <2>6, <2>7, <2>8 DEF RequestOK
<1> QED
  BY <1>3, <1>5, <1>6, <1>7 DEF IInv

-----------------------------------------------------------------------------
(* The invariant.                                                          *)

\* What is stored at start has been accepted, and no request is under way.
LEMMA InitInv == Init => IInv
<1> SUFFICES ASSUME Init PROVE IInv
  OBVIOUS
<1>1. Typed
  <2>1. category \in [Cats -> [direction: Directions, archived: BOOLEAN]]
    BY DEF Init, Directions
  <2>2. changes \in 0..MaxChanges /\ reporting \in Currencies
    BY EntriesAssumption, MoneyAssumption DEF Init
  <2> QED
    BY <2>1, <2>2, StartAssumption DEF Init, Typed
<1>2. /\ DOMAIN intended = EntryIds \cup Groups
      /\ \A e \in EntryIds : intended[e] = entry[e]
      /\ \A g \in Groups : intended[g] = group[g]
  BY EntriesAssumption DEF Init
<1>3. HistoryOK /\ EditsLostOnlyByRace /\ RemovedSharesStayRemoved
  BY <1>1, <1>2, EntryIsCopy DEF Init, Typed, HistoryOK, EditsLostOnlyByRace,
                                 RemovedSharesStayRemoved
<1>4. EntryOK
  <2>1. SUFFICES ASSUME NEW e \in EntryIds, entry[e] # Absent
                 PROVE  AccountOfEntry(e) /\ CategoryOfEntry(e)
    BY DEF EntryOK
  <2>2. AccountOfEntry(e)
    BY <2>1, StartAssumption DEF Init, AccountOfEntry
  <2>3. entry[e].category \in Cats \cup {Absent}
    BY <1>1, <2>1 DEF Typed, Entry
  <2>4. CategoryOfEntry(e)
    BY <2>1, <2>3, StartAssumption DEF Init, CategoryOfEntry, Fits, Directions
  <2> QED
    BY <2>2, <2>4
<1>5. \A r \in Reqs : RequestOK(r)
  BY DEF Init, Idle, RequestOK, RequestFields, PCs, Kinds, CreateOK, UpdateOK, DeleteOK, UnshareOK,
         AccountOK, GroupOK, NewGroupOK, Serves, Live
<1> QED
  BY <1>1, <1>3, <1>4, <1>5 DEF IInv

\* A step of a request or of another call preserves it.
LEMMA NextInv == IInv /\ [Next]_vars => IInv'
<1> SUFFICES ASSUME IInv, [Next]_vars PROVE IInv'
  OBVIOUS
<1>1. ASSUME NEW r \in Reqs, Step(r) PROVE IInv'
  BY <1>1, ReadBookInv, ReadMemberInv, ReadCreatorInv, ReadEntriesInv, ReadEntryInv, ReadAccountInv,
     ReadDestinationInv, ReadCategoryInv, ReadRatesInv, ReadGroupInv, ReadSharesInv, CreateEntryInv,
     UpdateEntryInv, LookupRowInv, DeleteEntryInv, UnshareAccountInv, CreateAccountInv,
     CreateAccountGroupInv, UpdateAccountGroupInv DEF Step
<1>2. CASE UNCHANGED vars
  <2>1. UNCHANGED <<driver, role, reporting, category, account, group, entry, req, changes, intended,
                    raced, removed, stale, drifted>>
    BY <1>2 DEF vars, tables
  <2>2. \A s \in Reqs : RequestOK(s)'
    BY <2>1, OthersKeep DEF IInv
  <2>3. Typed' /\ HistoryOK' /\ EntryOK' /\ EditsLostOnlyByRace' /\ RemovedSharesStayRemoved'
    BY <2>1 DEF IInv, Typed, HistoryOK, EntryOK, AccountOfEntry, CategoryOfEntry,
                EditsLostOnlyByRace, RemovedSharesStayRemoved
  <2> QED
    BY <2>2, <2>3 DEF IInv
<1> QED
  BY <1>1, <1>2, ArriveInv, GiveUpInv, ChangeRoleInv, ChangeReportingInv, EditCategoryInv DEF Next

\* Every reachable state satisfies the invariant.
THEOREM EntriesInvariant == Spec => []IInv
  BY InitInv, NextInv, PTL DEF Spec

\* No edit of an entry or of an account group is lost unless the write went
\* over a copy that another write had overtaken (UpdateEntry,
\* UpdateAccountGroup).
THEOREM EditsAreKept == Spec => []EditsLostOnlyByRace
<1>1. IInv => EditsLostOnlyByRace
  BY DEF IInv
<1> QED
  BY <1>1, EntriesInvariant, PTL

\* A book taken off the share list of an account stays off unless two
\* removals overlapped (UnshareAccount).
THEOREM SharesStayRemoved == Spec => []RemovedSharesStayRemoved
<1>1. IInv => RemovedSharesStayRemoved
  BY DEF IInv
<1> QED
  BY <1>1, EntriesInvariant, PTL

\* Stored entries stay valid: they convert, and unless their category was
\* edited after the check it is active and of their direction
\* (validateCreateEntryRequest, validateEntryCategory).
THEOREM StoredEntriesAreValid == Spec => []EntriesStayValid
<1>1. IInv => TypeOK
  BY DEF IInv, Typed, RequestOK, TypeOK
<1>2. ASSUME IInv, NEW e \in EntryIds, entry[e] # Absent
      PROVE  /\ Converts(entry[e].currency, entry[e].reporting, entry[e].text, Currencies)
             /\ Converts(entry[e].currency, account[entry[e].account].currency, entry[e].text,
                         Currencies)
             /\ entry[e].category # Absent /\ e \notin drifted =>
                   /\ ~category[entry[e].category].archived
                   /\ entry[e].type \in Directions =>
                         category[entry[e].category].direction = entry[e].type
  BY <1>2 DEF IInv, EntryOK, AccountOfEntry, CategoryOfEntry, Fits
<1>3. IInv => EntriesStayValid
  BY <1>1, <1>2 DEF EntriesStayValid
<1> QED
  BY <1>3, EntriesInvariant, PTL

-----------------------------------------------------------------------------
(* What a step may never do.                                               *)

\* Only three store calls write entries.
LEMMA EntryWriters ==
    ASSUME Next
    PROVE  entry' = entry \/ \E r \in Reqs : CreateEntry(r) \/ UpdateEntry(r) \/ DeleteEntry(r)
<1>1. ASSUME NEW r \in Reqs, Arrive(r) PROVE entry' = entry
  BY <1>1 DEF Arrive, ReceiveCreate, ReceiveUpdate, ReceiveDelete, ReceiveUnshare, ReceiveAccount,
              ReceiveGroup, ReceiveNewGroup, Receive, tables
<1>2. ASSUME NEW r \in Reqs, Step(r)
      PROVE  entry' = entry \/ CreateEntry(r) \/ UpdateEntry(r) \/ DeleteEntry(r)
  BY <1>2 DEF Step, ReadBook, ReadMember, ReadCreator, ReadEntries, ReadEntry, ReadAccount,
              ReadDestination, ReadCategory, ReadRates, ReadGroup, ReadShares, ReadStep, LookupRow,
              UnshareAccount, CreateAccount, CreateAccountGroup, UpdateAccountGroup, tables
<1>3. ASSUME NEW r \in Reqs, GiveUp(r) PROVE entry' = entry
  BY <1>3 DEF GiveUp, tables
<1> QED
  BY <1>1, <1>2, <1>3 DEF Next, ChangeRole, ChangeReporting, EditCategory

\* A deleted entry never comes back, whatever updates of it are on their way
\* (DeleteEntry, UpdateEntry).
THEOREM DeletionIsFinal == Spec => DeletedStaysDeleted
<1>1. ASSUME IInv, Next, NEW e \in EntryIds, intended[e] # Absent, entry[e] = Absent
      PROVE  entry'[e] = Absent
  <2>1. DOMAIN entry = EntryIds
    BY <1>1 DEF IInv, Typed
  <2>2. ASSUME NEW r \in Reqs, CreateEntry(r) PROVE entry'[e] = Absent
    BY <1>1, <2>1, <2>2 DEF CreateEntry
  <2>3. ASSUME NEW r \in Reqs, UpdateEntry(r) PROVE entry'[e] = Absent
    BY <1>1, <2>1, <2>3 DEF UpdateEntry
  <2>4. ASSUME NEW r \in Reqs, DeleteEntry(r) PROVE entry'[e] = Absent
    BY <1>1, <2>1, <2>4 DEF DeleteEntry
  <2> QED
    BY <1>1, <2>2, <2>3, <2>4, EntryWriters
<1>2. IInv /\ [Next]_vars =>
         [\A e \in EntryIds : intended[e] # Absent /\ entry[e] = Absent => entry'[e] = Absent]_vars
  BY <1>1
<1> QED
  BY <1>2, EntriesInvariant, PTL DEF Spec, DeletedStaysDeleted

\* An entry is changed or deleted only on behalf of someone whom
\* EntryMutationPolicy allows it, unless the role was changed after the check.
THEOREM OnlyPermittedMutations == Spec => MutationsArePermitted
<1> DEFINE Allowed(r, e) ==
              LET now == role[Home][req[r].actor] IN
              \/ now \in Managers
              \/ now = "member" /\ entry[e].creator = req[r].actor
              \/ "role" \in stale[r]
           Action == \A e \in EntryIds : entry[e] # Absent /\ entry'[e] # entry[e] =>
                        \E r \in Reqs : /\ req[r].id = e /\ req'[r].pc = "done" /\ req[r].pc # "done"
                                        /\ Allowed(r, e)
<1>1. ASSUME IInv, Next, NEW e \in EntryIds, entry[e] # Absent, entry'[e] # entry[e]
      PROVE  \E r \in Reqs : /\ req[r].id = e /\ req'[r].pc = "done" /\ req[r].pc # "done"
                             /\ Allowed(r, e)
  <2>1. PICK r \in Reqs : CreateEntry(r) \/ UpdateEntry(r) \/ DeleteEntry(r)
    BY <1>1, EntryWriters
  <2>2. DOMAIN entry = EntryIds /\ DOMAIN req = Reqs /\ intended[e] # Absent /\ RequestOK(r)
    BY <1>1 DEF IInv, Typed, HistoryOK
  <2>3. req'[r].pc = "done"
    BY <2>1, <2>2, Answered DEF CreateEntry, UpdateEntry, DeleteEntry
  <2>4. ~CreateEntry(r)
    BY <1>1, <2>2 DEF CreateEntry
  <2>5. CASE UpdateEntry(r)
    <3>1. req[r].id = e /\ req[r].kind = "update" /\ req[r].pc = "write"
      BY <1>1, <2>2, <2>5 DEF UpdateEntry
    <3>2. Permitted(r)
      BY <2>2, <3>1 DEF RequestOK, UpdateOK, Serves, Live, Referring
    <3> QED
      BY <1>1, <2>3, <3>1, <3>2 DEF Permitted
  <2>6. CASE DeleteEntry(r)
    <3>1. req[r].id = e /\ req[r].kind = "delete" /\ req[r].pc \in {"write", "row"}
      BY <1>1, <2>2, <2>6 DEF DeleteEntry
    <3>2. Permitted(r)
      BY <2>2, <3>1 DEF RequestOK, DeleteOK, Serves, Live
    <3> QED
      BY <1>1, <2>3, <3>1, <3>2 DEF Permitted
  <2> QED
    BY <2>1, <2>4, <2>5, <2>6
<1>2. IInv /\ [Next]_vars => [Action]_vars
  BY <1>1
<1>3. Spec => [][Action]_vars
  BY <1>2, EntriesInvariant, PTL DEF Spec
<1> QED
  BY <1>3 DEF MutationsArePermitted

==============================================================================
