----------------------------- MODULE ImportApply -----------------------------
(***************************************************************************)
(* Wacai imports of one user (httpserver/import_routes.go, imports/).  An  *)
(* upload is parsed into a batch that is kept under the hash of the file;  *)
(* applying a batch to a book adds the mapped members, creates the         *)
(* accounts and categories that are missing, creates one entry per row     *)
(* and then marks the batch applied.  Every step is a call of its own to   *)
(* a service: nothing is held across them and nothing is undone when one   *)
(* of them fails.                                                          *)
(*                                                                         *)
(* A request is served once, by one goroutine.  A uuid drawn by a request  *)
(* is the request itself (batch) or the request and the row (entry).       *)
(* A refused request that changes nothing before it is refused ends where  *)
(* the refusal happens.  Lists are read whole here; PageScan is about      *)
(* their pages.  Categories are one level deep.                            *)
(***************************************************************************)
EXTENDS Naturals, Sequences, FiniteSets

CONSTANTS Requests,    \* preview and apply requests
          Concurrency, \* how many are served at the same time
          Files,       \* uploaded contents, as their SHA-256 hashes
          Faulty,      \* files whose preview has row errors
          RowsOf,      \* the preview rows of every file
          Books,       \* destination books
          Members,     \* users that source member names are mapped to
          Self,        \* a source member name that means the importer
          NoName,      \* an empty account or category column, or no book
          NoBatch,     \* no batch stored under the id
          MayFail      \* calls may fail, and requests be cut off

Names == UNION {{row.account : row \in {RowsOf[f][i] : i \in DOMAIN RowsOf[f]}} : f \in Files}
         \cup UNION {{row.category : row \in {RowsOf[f][i] : i \in DOMAIN RowsOf[f]}} : f \in Files}
RowNumbers == UNION {DOMAIN RowsOf[f] : f \in Files}

ImportRow == [member: Members \cup {Self}, account: Names, category: Names, supported: BOOLEAN]

ASSUME ImportAssumption ==
    /\ Concurrency \in Nat \ {0}
    /\ MayFail \in BOOLEAN
    /\ Faulty \subseteq Files
    /\ Self \notin Members
    /\ \A f \in Files : RowsOf[f] \in Seq(ImportRow)

VARIABLES batch,      \* imports.Store: id -> batch
          groups,     \* "Wacai Import" account groups, by the request that created them
          accounts,   \* accounts of the importer: who created them, and the name
          categories, \* categories: who created them, the book and the name
          members,    \* members of every book, the importer left out
          entries,    \* ledger entries the imports created
          req,        \* what every request is doing
          disturbed,  \* history: batches two applies worked on at once, or one gave up on
                      \* after it had created an entry
          overlapped  \* history: two applies were at work at the same time

vars == <<batch, groups, accounts, categories, members, entries, req, disturbed, overlapped>>
ledger == <<groups, accounts, categories, members, entries>>

Entry == [by: Requests, batch: Requests, book: Books, row: RowNumbers]
Batch == [file: Files, status: {"preview", "applied"}, book: Books \cup {NoName},
          entries: SUBSET Entry]

\* What stands for no batch is neither a batch nor the id of one.
ASSUME NoBatchAssumption == NoBatch \notin Batch /\ NoBatch \notin Requests

PCs == {"new", "lookup", "save", "load", "replay", "members", "accounts", "groups",
        "categories", "references", "rows", "mark", "markSave", "done", "refused"}
Working == {"members", "accounts", "groups", "categories", "references", "rows", "mark", "markSave"}
Request == [pc: PCs, file: Files \cup {NoName}, batch: Requests \cup {NoBatch},
            book: Books \cup {NoName}, mapped: SUBSET Members, row: Nat,
            accounts: SUBSET Names, categories: SUBSET Names, group: BOOLEAN,
            answer: SUBSET Entry]
New == [pc |-> "new", file |-> NoName, batch |-> NoBatch, book |-> NoName, mapped |-> {},
        row |-> 1, accounts |-> {}, categories |-> {}, group |-> FALSE, answer |-> {}]

TypeOK == /\ batch \in [Requests -> Batch \cup {NoBatch}]
          /\ groups \subseteq Requests
          /\ accounts \subseteq [by: Requests, name: Names]
          /\ categories \subseteq [by: Requests, book: Books, name: Names]
          /\ members \in [Books -> SUBSET Members]
          /\ entries \subseteq Entry
          /\ req \in [Requests -> Request]
          /\ disturbed \subseteq Requests
          /\ overlapped \in BOOLEAN

Init == /\ batch = [r \in Requests |-> NoBatch]
        /\ groups = {} /\ accounts = {} /\ categories = {} /\ entries = {}
        /\ members = [b \in Books |-> {}]
        /\ req = [r \in Requests |-> New]
        /\ disturbed = {}
        /\ overlapped = FALSE

-----------------------------------------------------------------------------
Running(r) == req[r].pc \notin {"new", "done", "refused"}
Continue(r, q) == req' = [req EXCEPT ![r] = q]
At(r, pc) == Continue(r, [req[r] EXCEPT !.pc = pc])
\* A request that has answered keeps its batch and its answer only.
Answer(r, pc, answer) ==
    Continue(r, [New EXCEPT !.pc = pc, !.batch = req[r].batch, !.answer = answer])
Refuse(r) == Answer(r, "refused", {})

\* The row an apply is at, and the rows of the batch it works on.
Rows(r) == RowsOf[batch[req[r].batch].file]
Row(r) == Rows(r)[req[r].row]
PastRows(r) == req[r].row > Len(Rows(r))
NextRow(q) == [q EXCEPT !.row = @ + 1]
Restart(q, pc) == [q EXCEPT !.pc = pc, !.row = 1]
Created(r) == {e \in entries : e.by = r}

\* commitWacaiBatch returns on the first error and leaves what was created.
Abort(r) == /\ MayFail
            /\ Refuse(r)
            /\ disturbed' = IF \E e \in entries' : e.by = r
                            THEN disturbed \cup {req[r].batch} ELSE disturbed
\* After a write the request goes on, or is told of a failure although the
\* write is there (SnapshotStore whose save failed, a commit cut off).
AfterWrite(r, q) == \/ Continue(r, q) /\ UNCHANGED disturbed
                    \/ Abort(r)

Receive(r, q) == /\ req[r].pc = "new"
                 /\ Cardinality({s \in Requests : Running(s)}) < Concurrency
                 /\ Continue(r, q)
                 /\ UNCHANGED <<batch, ledger, disturbed>>

-----------------------------------------------------------------------------
\* POST /imports/wacai/preview
ReceivePreview(r) ==
    \E f \in Files : Receive(r, [New EXCEPT !.pc = "lookup", !.file = f])

BatchesOf(f) == {b \in Requests : batch[b] # NoBatch /\ batch[b].file = f}

\* BatchByHash answers a repeated upload with the batch there is.
BatchByHash(r) ==
    LET found == BatchesOf(req[r].file) IN
    /\ req[r].pc = "lookup"
    /\ IF found # {} THEN Answer(r, "done", {}) ELSE At(r, "save")
    /\ UNCHANGED <<batch, ledger, disturbed>>

\* SaveBatchIfAbsent looks again under the lock (the unique index of the SQL
\* table does the same) and keeps the batch that is there.
SaveBatchUnchecked(r) ==
    /\ req[r].pc = "save"
    /\ batch' = [batch EXCEPT ![r] = [file |-> req[r].file, status |-> "preview",
                                      book |-> NoName, entries |-> {}]]
    /\ Answer(r, "done", {})
    /\ UNCHANGED <<ledger, disturbed>>
SaveBatchIfAbsent(r) ==
    /\ req[r].pc = "save"
    /\ batch' = IF BatchesOf(req[r].file) # {} THEN batch
                ELSE [batch EXCEPT ![r] = [file |-> req[r].file, status |-> "preview",
                                           book |-> NoName, entries |-> {}]]
    /\ \/ Answer(r, "done", {})
       \/ MayFail /\ Refuse(r)
    /\ UNCHANGED <<ledger, disturbed>>

-----------------------------------------------------------------------------
\* POST /books/:bookID/imports/:batchID/apply
ReceiveApply(r) ==
    \E b \in Requests, book \in Books, f \in Files, mapped \in SUBSET Members :
       /\ batch[b] # NoBatch
       /\ Receive(r, [New EXCEPT !.pc = "load", !.batch = b, !.book = book, !.file = f,
                                 !.mapped = mapped])

\* The batch is read once, and its status decides between a commit and a
\* replay of the stored summary.
Overlaps(r) == \E s \in Requests \ {r} : req[s].pc \in Working /\ req[s].batch = req[r].batch
LoadBatchUnchecked(r) ==
    /\ req[r].pc = "load"
    /\ At(r, "members")
    /\ UNCHANGED <<batch, ledger, disturbed>>
LoadBatch(r) ==
    LET b == batch[req[r].batch] IN
    /\ req[r].pc = "load"
    /\ \/ /\ b.file # req[r].file \/ b.file \in Faulty
          /\ Refuse(r)
          /\ UNCHANGED disturbed
       \/ /\ b.file = req[r].file /\ b.file \notin Faulty /\ b.status = "applied"
          /\ IF b.book # req[r].book THEN Refuse(r)
             ELSE Continue(r, [req[r] EXCEPT !.pc = "replay", !.answer = b.entries])
          /\ UNCHANGED disturbed
       \/ /\ b.file = req[r].file /\ b.file \notin Faulty /\ b.status = "preview"
          /\ At(r, "members")
          /\ disturbed' = IF Overlaps(r) THEN disturbed \cup {req[r].batch} ELSE disturbed
    /\ UNCHANGED <<batch, ledger>>

\* importEntriesByIDs: the stored ids that the book's entries still have.
Replay(r) ==
    /\ req[r].pc = "replay"
    /\ Answer(r, "done", {e \in entries : e \in req[r].answer /\ e.book = req[r].book})
    /\ UNCHANGED <<batch, ledger, disturbed>>

\* resolveWacaiMemberMappings: the member of a row is the importer, or a
\* mapped user who is added to the book (AddBookMember leaves one who is
\* there alone), or has no mapping and the apply is refused.
ResolveMember(r) ==
    /\ req[r].pc = "members"
    /\ \/ /\ PastRows(r)
          /\ Continue(r, Restart(req[r], "accounts"))
          /\ UNCHANGED <<members, disturbed, entries>>
       \/ /\ ~PastRows(r) /\ Row(r).member = Self
          /\ Continue(r, NextRow(req[r]))
          /\ UNCHANGED <<members, disturbed, entries>>
       \/ /\ ~PastRows(r) /\ Row(r).member \in req[r].mapped
          /\ members' = [members EXCEPT ![req[r].book] = @ \cup {Row(r).member}]
          /\ UNCHANGED entries
          /\ AfterWrite(r, NextRow(req[r]))
       \/ /\ ~PastRows(r) /\ Row(r).member \in Members \ req[r].mapped
          /\ Refuse(r)
          /\ UNCHANGED <<members, disturbed, entries>>
    /\ UNCHANGED <<batch, groups, accounts, categories>>

-----------------------------------------------------------------------------
\* ensureWacaiImportReferences reads the three lists, one after the other...
ListAccounts(r) ==
    /\ req[r].pc = "accounts"
    /\ Continue(r, [req[r] EXCEPT !.pc = "groups", !.accounts = {a.name : a \in accounts}])
    /\ UNCHANGED <<batch, ledger, disturbed>>
ListAccountGroups(r) ==
    /\ req[r].pc = "groups"
    /\ Continue(r, [req[r] EXCEPT !.pc = "categories", !.group = groups # {}])
    /\ UNCHANGED <<batch, ledger, disturbed>>
ListCategories(r) ==
    /\ req[r].pc = "categories"
    /\ Continue(r, [req[r] EXCEPT !.pc = "references",
                       !.categories = {c.name : c \in {d \in categories : d.book = req[r].book}}])
    /\ UNCHANGED <<batch, ledger, disturbed>>

\* ... and then goes through the rows, creating what the lists lack.
MissingAccount(r) == /\ req[r].pc = "references" /\ ~PastRows(r) /\ Row(r).supported
                     /\ Row(r).account \notin req[r].accounts \cup {NoName}
MissingCategory(r) == /\ req[r].pc = "references" /\ ~PastRows(r) /\ Row(r).supported
                      /\ Row(r).category \notin req[r].categories \cup {NoName}

CreateAccountGroup(r) ==
    /\ MissingAccount(r) /\ ~req[r].group
    /\ groups' = groups \cup {r}
    /\ UNCHANGED <<batch, accounts, categories, members, entries>>
    /\ AfterWrite(r, [req[r] EXCEPT !.group = TRUE])
CreateAccountForgetsGroup(r) ==
    /\ MissingAccount(r) /\ req[r].group
    /\ accounts' = accounts \cup {[by |-> r, name |-> Row(r).account]}
    /\ UNCHANGED <<batch, groups, categories, members, entries>>
    /\ AfterWrite(r, [req[r] EXCEPT !.accounts = @ \cup {Row(r).account}, !.group = FALSE])
CreateAccount(r) ==
    /\ MissingAccount(r) /\ req[r].group
    /\ accounts' = accounts \cup {[by |-> r, name |-> Row(r).account]}
    /\ UNCHANGED <<batch, groups, categories, members, entries>>
    /\ AfterWrite(r, [req[r] EXCEPT !.accounts = @ \cup {Row(r).account}])
CreateCategory(r) ==
    /\ ~MissingAccount(r) /\ MissingCategory(r)
    /\ categories' = categories \cup {[by |-> r, book |-> req[r].book, name |-> Row(r).category]}
    /\ UNCHANGED <<batch, groups, accounts, members, entries>>
    /\ AfterWrite(r, [req[r] EXCEPT !.categories = @ \cup {Row(r).category}])
ReferencesReady(r) ==
    /\ req[r].pc = "references" /\ ~MissingAccount(r) /\ ~MissingCategory(r)
    /\ Continue(r, IF PastRows(r) THEN Restart(req[r], "rows") ELSE NextRow(req[r]))
    /\ UNCHANGED <<batch, ledger, disturbed>>

-----------------------------------------------------------------------------
\* commitWacaiRow: a row without an account or with an unknown type is
\* skipped; the references of the others are there.
Importable(row) == row.supported /\ row.account # NoName
CommitStopsAtSkipped(r) ==
    LET skipped == ~PastRows(r) /\ ~Importable(Row(r)) IN
    /\ req[r].pc = "rows"
    /\ \/ /\ PastRows(r) \/ skipped
          /\ At(r, "mark")
          /\ UNCHANGED <<entries, disturbed>>
       \/ /\ ~PastRows(r) /\ ~skipped
          /\ entries' = entries \cup {[by |-> r, batch |-> req[r].batch, book |-> req[r].book,
                                       row |-> req[r].row]}
          /\ AfterWrite(r, NextRow(req[r]))
    /\ UNCHANGED <<batch, groups, accounts, categories, members>>
CommitRow(r) ==
    /\ req[r].pc = "rows"
    /\ \/ /\ ~PastRows(r) /\ ~Importable(Row(r))
          /\ Continue(r, NextRow(req[r]))
          /\ UNCHANGED <<entries, disturbed>>
       \/ /\ ~PastRows(r) /\ Importable(Row(r))
          /\ entries' = entries \cup {[by |-> r, batch |-> req[r].batch, book |-> req[r].book,
                                       row |-> req[r].row]}
          /\ AfterWrite(r, NextRow(req[r]))
       \/ /\ PastRows(r)
          /\ IF Created(r) = {} THEN Refuse(r) ELSE At(r, "mark")
          /\ UNCHANGED <<entries, disturbed>>
    /\ UNCHANGED <<batch, groups, accounts, categories, members>>

\* MarkApplied reads the batch again: applied to this book it is left alone,
\* applied to another one the request fails ...
MarkApplied(r) ==
    LET b == batch[req[r].batch] IN
    /\ req[r].pc = "mark"
    /\ IF b.status = "preview" THEN At(r, "markSave")
       ELSE IF b.book = req[r].book THEN Answer(r, "done", Created(r)) ELSE Refuse(r)
    /\ UNCHANGED <<batch, ledger, disturbed>>

\* ... and otherwise the whole record is saved.
SaveBatch(r) ==
    /\ req[r].pc = "markSave"
    /\ batch' = [batch EXCEPT ![req[r].batch] =
                    [file |-> batch[req[r].batch].file, status |-> "applied",
                     book |-> req[r].book, entries |-> Created(r)]]
    /\ UNCHANGED ledger
    /\ \/ Answer(r, "done", Created(r)) /\ UNCHANGED disturbed
       \/ Abort(r)

\* Any call of a running request may fail before it has changed anything, and
\* a request ends there when its client or the server goes away.
Fail(r) == /\ Running(r)
           /\ UNCHANGED <<batch, ledger>>
           /\ Abort(r)

-----------------------------------------------------------------------------
Step(r) == \/ BatchByHash(r) \/ SaveBatchIfAbsent(r)
           \/ LoadBatch(r) \/ Replay(r) \/ ResolveMember(r)
           \/ ListAccounts(r) \/ ListAccountGroups(r) \/ ListCategories(r)
           \/ CreateAccountGroup(r) \/ CreateAccount(r) \/ CreateCategory(r)
           \/ ReferencesReady(r) \/ CommitRow(r) \/ MarkApplied(r) \/ SaveBatch(r)

Recorded == overlapped' = \/ overlapped
                          \/ \E r, s \in Requests : r # s /\ {req'[r].pc, req'[s].pc} \subseteq Working

Next == \E r \in Requests : /\ \/ ReceivePreview(r) \/ ReceiveApply(r)
                               \/ Step(r) \/ Fail(r)
                            /\ Recorded

Spec == Init /\ [][Next]_vars

-----------------------------------------------------------------------------
Applied(b) == batch[b] # NoBatch /\ batch[b].status = "applied"
EntriesOf(b, i) == {e \in entries : e.batch = b /\ e.row = i}
ImportableRows(b) == {i \in DOMAIN RowsOf[batch[b].file] : Importable(RowsOf[batch[b].file][i])}

\* The tables are well formed, and concurrent uploads of one file end in one
\* batch: the race that the comment on SaveBatchIfAbsent describes, between
\* the lookup by hash and the save.
OneBatchPerFile == TypeOK /\ \A f \in Files : Cardinality(BatchesOf(f)) <= 1

\* The summary stored with an applied batch is a complete import: one entry of
\* every importable row, created by one apply in the book it names, whatever
\* applies overlap, fail or overwrite each other's summary.
AppliedIsComplete ==
    \A b \in Requests : Applied(b) =>
       /\ batch[b].entries \subseteq entries
       /\ \A i \in ImportableRows(b) : Cardinality(batch[b].entries \cap EntriesOf(b, i)) = 1
       /\ \A e, d \in batch[b].entries : e.by = d.by /\ e.book = batch[b].book

\* Every importable row of an applied batch is in the ledger exactly once,
\* however often the batch is applied, unless two applies worked on the batch
\* at the same time or one gave up half-way; and each apply is answered with
\* the entries of the first (the route replays the stored summary instead of a
\* second commit).
ImportedOnce ==
    \A b \in Requests \ disturbed :
       /\ Applied(b) => \A i \in ImportableRows(b) : Cardinality(EntriesOf(b, i)) = 1
       /\ \A r, s \in {q \in Requests : req[q].pc = "done" /\ req[q].batch = b} :
             req[r].answer = req[s].answer

\* Applies that follow one another, failed ones included, never create an
\* account, a category or the import group that an earlier one created.
NoDuplicateReferences ==
    ~overlapped =>
       /\ Cardinality(groups) <= 1
       /\ \A a, b \in accounts : a.name = b.name => a = b
       /\ \A c, d \in categories : c.name = d.name /\ c.book = d.book => c = d
=============================================================================
