# TLA+ verification of Accounting

Accounting is a shared bookkeeping server (Go, `src/backend`) with a command
line (`src/cli`) and a web client (`src/web`). This directory holds TLA+ models
of the server's core, TLC configurations that check them on small instances,
and TLAPS proofs of the main results for every size.

Read the code first, then the module that names it in its header;
`PROJECT.json` maps every definition to the lines it stands for.

## 1. Inventory

Every HTTP request is served by its own goroutine. A handler calls a service
(`ledger`, `auth`, `imports`, `audit`); a service call is a sequence of store
calls, and nothing is held between two of them. A store has three drivers:
memory, file (memory plus a JSON snapshot saved after every write) and SQL (one
record table). One store call is atomic; a service call is not. There is no
version field and no compare-and-set in any record, and no transaction that
spans two calls (`ReplaceExchangeRates` is the only call that uses one).

| component | state | operations | hard behaviour | correct when |
|---|---|---|---|---|
| books and membership (`ledger/books.go`) | books with a primary owner; one row per member | create, settings, invite, change role, remove | checks on rows read earlier; two writes per role change; whole-record writes | a book keeps an owner; the primary owner is one; settings do not move ownership |
| categories (`ledger/accounts_categories.go`) | a tree per book | create, edit, move | tree read, checked and written in separate calls; an unbounded ancestor loop | no cycle; parents exist; one direction per tree; requests end |
| accounts and groups (same file) | accounts with a list of books they are shared with; personal groups | create, update group, unshare | the share list is rewritten from a copy | a removed share stays removed |
| entries (`ledger/entries.go`, `service.go`) | ledger entries | create, edit, delete, list, summary | whole-record writes; references checked before the write | edits are not lost; only creators and managers change entries |
| money and rates (`ledger/money.go`, `rates.go`) | exchange rates | convert, refresh daily | rounding, int64 range, refresh against readers | conversion is exact half-up rounding; a refresh is all or nothing |
| pagination (`*/pagination.go`, `audit/service.go`) | none | page of a list | `(page-1)*size` overflows | pages partition the list and never panic |
| file persistence (`persistence/jsonfile.go`, `*/file_store.go`) | memory, snapshot file | write, load | crash, power failure, failing file operations, one mutex | acknowledged writes survive; the file always loads; nobody is locked out |
| audit log (`audit/`) | chained events | record, verify, list | tail read and append in separate calls; failed saves; restarts; values cut inside a character | the log verifies; an alteration is noticed |
| imports (`imports/`, `httpserver/import_*.go`) | batches by file hash | preview, apply | a long series of calls without a transaction; retries; double submits | one batch per file; every row imported once |
| authentication (`auth/service.go`, `email_codes.go`, `session.go`) | users, sessions, login throttle, email codes | register, log in by password, SSO or passkey, verify, reset, change profile, log out | whole-record writes of a user; counters and one-time codes read and written in separate calls; expiry | one user per email; a code works once; the lock counts every failure; a reset ends old sessions |
| second factors (`auth/totp.go`, `passkeys.go`) | TOTP secret, pending setups, replay markers, a failure counter; passkeys, ceremonies | set up, confirm, verify, disable; register, log in, rename, delete | lookup and marker in separate calls; clock skew; answers sent twice | a code and a ceremony are accepted once; a removed factor stays removed |
| HTTP server (`httpserver/server.go`, `auth_rate_limiter.go`, `main.go`) | rate windows; the database pool; the updater | serve, limit, refresh, shut down | a clock read before the lock; the pool is closed when shutdown begins; a handler that never returns | the limiter bounds and never bans; a shutdown ends |

Configuration, logging, telemetry, migrations, the Wacai spreadsheet parsers,
the senders and validators of e-mail, SSO and Turnstile, and the command line
keep no state of this kind. The web client is
a user interface over the API.

## 2. Modules

    BookRoles <- BookMembership <- BookRequests          (refinement: ImplementsCalls)
    Categories
    DurableStore <- SnapshotStore                        (refinement: ImplementsDurable)
    AuditChain
    ImportApply
    Money <- Entries
    Money <- Rates, RateLimiter <- Server
    Logins
    Factors
    Paging <- PageScan

`XProofs` extends `X` with its theorems; `MCX` extends it for TLC. Three of the
proof modules have a second component: `BookRequestsProofs` also
`BookMembership`, `CategoriesProofs` also `Paging` and `PageScan`, and
`ProcessProofs` has `SnapshotStore` and `Server`. For that the specifications of
`PageScan` and `Server` are called `ScanSpec` and `ServerSpec`; everywhere else the
name is `Spec`.

**BookRoles, BookMembership.** `BookRoles` has the roles, the book record and
its patch; `BookMembership` what the five book calls promise, each as one step:
the table of members of each book, its primary owner and its settings.
`UpdateBookMemberRole` and `RemoveBookMember` carry `reconcilePrimaryOwner` with
them. Users are numbers because `firstOtherOwner` takes the first owner in the
order of the store.

**BookRequests.** The same calls as they run: a handler (`req`) moves from
`authMember` to `writeBook` with one store call per step, and holds the copies
the code holds (`copy`, the role seen, the owner found). `Driver` selects the
memory, file or SQL behaviour: a file store reports a failure although memory
has changed (`AfterWrite`), a SQL statement may fail with or without effect, and
the SQL delete is a lookup and a statement. `raced` is a history variable: the
books on which a demotion or removal was written while another one that had
passed its check was about to write. `overtaken` and `drifted` are two more, for
the primary owner: the requests whose copy of the book is older than another's
write, and the books to which such a request wrote or of which a call ended
between its two writes.

**Categories.** Parent and direction of every category; creation validates the
tree it reads, an update reads the record, then the tree, then writes the whole
record. The ancestor loop of `validateCategoryFields` is the pc `walking` when
the tree it has read has a cycle above the parent. `stale` and `raced` record a
check that another write overtook.

**DurableStore, SnapshotStore.** A file driver call takes the mutex, changes
memory, writes a temporary file, syncs it, renames it and returns. A failing
file operation leaves memory changed. `Crash` loses memory, `PowerFailure` also
what the operating system had not written; the directory is not synced by
`SaveJSONAtomic`, so the rename may be undone by a power failure
(`SettleDirectory` is when it no longer can be). `acked` is a history variable:
the writes that were reported and that no power failure undid. A call answered
by what memory holds (`Found`, `SaveBatchIfAbsent`) reports its write too, unless
the save it stands for has failed and none has succeeded since (`unsaved`). `DurableStore` is the promise: each
save stores one whole visible state, only what is stored is acknowledged, and
only a power failure returns to an earlier saved state.

**AuditChain.** `Record` reads the tail and then saves an event linked to it,
on each of the three drivers; `VerifyChain` sorts by sequence number and checks
the links. A hash is the value it is computed from, that is, SHA-256 is taken
to be free of collisions. A body is a text and whether it is torn:
`sanitizeMetadata` cuts a value at byte 256, which may split a character. Encoded
into a row or a snapshot and decoded again (`Reloaded`) a torn text is mended, for
`json.Marshal` writes the broken bytes as the escape of U+FFFD, while the hash in
the event stays that of the torn one. `PersistError` is the file store whose save failed,
`Restart` a reload of what was saved.

**ImportApply.** Uploads and applies of one user: lookup by hash and
`SaveBatchIfAbsent`; then, for an apply, the batch read, the members row by row,
the three lists, the missing group, accounts and categories, one entry per row,
the second batch read and the mark. Any call may fail, with or without its
effect, and what was created stays. A uuid drawn by a request is named by the
request (and the row), which keeps ids fresh without a counter. Lists are read
whole and category paths have one part here. Entries are never deleted, so
`entries` is the set of entries ever created. Two history variables tell
interference apart: `disturbed` has the batches that two applies worked on at
once or one gave up on after creating an entry, `overlapped` says whether any
two applies were ever at work together. A row (`ImportRow`) is what the apply
looks at: its member, its two names and whether its type is supported.

**Paging, PageScan.** The paginators as operators with Go's wrapping `int`,
stated against a reference (`Piece`, the list cut into pieces) over every page
number an `int` holds and every size; and the page-by-page scans of the import
over a list that is changed meanwhile. The properties about single pages speak
of the list as it is when a scan begins, which looks at every list once.

**Money, Rates.** Conversion and rounding as operators: a rational is a
numerator and a denominator, an amount wraps at `Modulus` as an `int64` does.
`Rates` has the table made of a feed (`ratesFromECBCubes`, with the eight
decimals as `Precision`), the index made of the table, and `BookSummary`.

**Entries.** Creation, edit and deletion of an entry, creation of an account or
a group, edit of a group and `UnshareAccount`, each as its series of store
calls: book, member, creator or entry, account, destination, category, rates,
write. All entries are of one book; the other ones are there to share accounts
with. Calls of other modules that change what is read meanwhile (a role, the
reporting currency, a category) are single steps (`ChangeRole`,
`ChangeReporting`, `EditCategory`). History: `intended` is what the edits make
of a record one after the other, `stale` what a request holds that has changed
since it was read, `raced` the records written over a stale copy, `removed` the
shares taken away, `drifted` the entries whose category was edited later.
`Edited` is what an edit should make of a record and `Patched` what the code
makes of its copy. `Words` are the texts a body may hold, a set of its own for
the proofs and all strings for TLC. What a start may hold (`StartAssumption`) is
what the service would have accepted.

**Logins.** Users, sessions, the throttle and the email codes, all of them
records that are read, changed and written back. A login walks through lock
check, Turnstile demand, credentials, throttle and session; SSO through lookup by
id, lookup by email and provisioning or binding; a confirmation through
`consumeEmailCode` and then the owner. The answers of the second factor, of
Turnstile and of the SSO provider are inputs. A lookup that fails counts as one
that finds nobody where the code does not tell the two apart: a password login
is then a failed one, and SSO goes on to the next lookup. `halfway` is the users between
the two halves of a reset; a session is `late` when what it was granted on was
overtaken before it was stored. `UserHolders`, `CodeHolders` and `CountHolders`
are the calls that hold a copy of a record, whom a write of it overtakes. The
lock maximum is even, as the code's hour is, so that the test against half of it
caps just what doubling would take to the maximum or past it.

**Factors.** Authenticator codes and passkeys of one user. A code is a secret
and a period; it is valid `Skew` periods to either side. An authenticator signs
a ceremony's challenge once and the answer may be sent any number of times. The
driver matters for one call: on PostgreSQL `IncrementCounter` is a read and a
write, on the others one step. Turning the factor on and off replaces the whole
user record; the other writers of that record are here one action
(`UpdateProfile`), as they are actions of their own in `Logins`. The login by
passkey has its ceremony and session here and its reset of the throttle in
`Logins`. `uncounted` has the failures whose increment the store refused
(`LoseFailure`). `stale` has the requests whose copy of the user, of the counter or of a
passkey another write overtook; a registration overtakes the copies of the
credential it stores, as every other write of one does.

**RateLimiter, Server.** `RateLimiter` has the buckets and what `allow` does
with them. `Server` composes it with the rates: the process starts with one of
the stores, the updater fetches and replaces the table (in one step in memory,
statement by statement in a transaction in SQL), requests pass the limiter or
compute a summary from the table they read, a signal or a failing listener ends
the process: the updater is cancelled and the pool closed by the shutdown hooks,
in any order, and the drain ends or times out. A connection that was accepted
may bring a request until the process exits. Times are relative to the
present, so the clock has no bound. `admitted` is a history variable: for each
key and each `n`, the attempts let through in the last `n` ticks.

## 3. Runs

Passing runs:

| run | instance | shows |
|---|---|---|
| `requests_serial` | 3 users, 1 handler, memory | the store calls of one handler implement the whole calls, and so keep the primary owner an owner |
| `requests_sql` | 2 users, 2 handlers, SQL with failures | only racing demotions or removals take the last owner; the primary owner is lost only by a write over overtaken rows or a call that ends between its two writes |
| `categories_race` | 3 categories, 2 handlers | a cycle or a caught request needs a write over an overtaken check |
| `snapshot_power` | 2 callers, 2 writes, crashes, power and file failures | the file always loads and has what was acknowledged, answers from memory included; the driver implements `DurableStore`; calls return |
| `audit_race` | 2 recorders, 4 events, 3 drivers | only a save over a stale tail breaks the links, whatever saves fail and restarts happen; only a text cut inside a character, on a durable store, makes a hash wrong; every event continues an earlier one; an edit or a gap in a good log is noticed |
| `import_race` | 3 requests, 2 at a time, failures | one batch per file, complete summaries, rows imported once and equal answers unless applies of the batch overlapped or one gave up half-way; no reference twice unless applies overlapped |
| `entries_race` | 2 requests, 2 users, 2 entries, 2 accounts shared with 2 books, 1 outside change, memory and SQL | edits of different fields and removed shares are lost only by a write over an overtaken copy; a deleted entry never comes back; stored entries stay valid, but for a category edited since, and are changed by who may |
| `auth_login` | 3 calls, 2 at a time, 1 email, 2 subjects, clock 0..2 | one user per email; verified stays verified; user edits, the throttle, codes, SSO binding and the end of old sessions fail only by the overlap each property names |
| `auth_factors` | 3 calls, 2 at a time, 2 secrets, 1 passkey, 2 ceremonies, clock 0..2 | a code is accepted once unless two verifications overlap; every guess is counted or met a failing store, and those counted beyond the limit are bounded; a ceremony works once; a passkey only moves forward: its sign count does not fall and once deleted it stays deleted |
| `server_life` | 2 requests, limit 2, window 4, wait up to 2, 5 feeds, 2 books, 5 date ranges; 3 ways to start | at most twice the limit in any window less the longest wait for the mutex, and no client kept out for good; rates of one whole fetch, exact to half a decimal; summaries exact to half a cent per converted entry; the updater goes on; a shutdown ends |
| `scan_pages` | 5 items, pages of 2; 7-bit `int` | a scan finds whatever stayed in the list while items are inserted; pages partition a list; the audit list always answers |

A run in which TLC refutes what the repository says (see "findings" in
`PROJECT.json` for the quoted line):

| run | what the code does |
|---|---|
| `categories_hang` | two moves make a cycle; a request below it loops for ever, cancelled or not |

Met while modelling, part of the models, and without a run of their own. Where a
property is named, it states what does hold, with the race, the failure or the
range that it excepts:

- two owners demoted or removed at once leave a book without an owner
  (`ledger/books.go:208`), although `docs/arch/arch.md:82` says "Book owner role
  changes must preserve at least one owner"; `OwnerlessOnlyByRace`;
- two concurrent audit events get one sequence number and the log no longer
  verifies (`audit/service.go:192`; `docs/arch/arch.md:373` promises "a
  monotonically increasing `seq`"); `BrokenOnlyByRaceOrCut`;
- an event with a metadata value longer than 256 bytes that is cut inside a
  character (`audit/service.go:271`; the file name of an upload is such a value,
  `httpserver/import_routes.go:85`) no longer has its hash once it is read from a
  row or a snapshot: one recorder and no tampering suffice for `VerifyChain` to
  fail, which `httpserver/audit_routes_test.go:80` requires to succeed on events
  that were decoded; `BrokenOnlyByRaceOrCut`;
- two applies of a batch import every row twice (`httpserver/import_routes.go:126`;
  the accepted scenario "One committed import mutation occurs" of
  `docs/proposals/archives/2026-07-06-architecture-overhaul.md:483`);
  `ImportedOnce`;
- a page offset that wraps round to a negative number slices out of range
  (`ledger/pagination.go:20`, and the same lines of `auth/pagination.go` and
  `ListEntries`); `PagesPartition`;
- a settings update writes back the whole book it read, and with it a former
  primary owner (`ledger/books.go:122`); `PrimaryLostOnlyByRace`;
- a failure between the two writes of a role change leaves a primary owner who
  is no owner (`ledger/books.go:216`); `PrimaryLostOnlyByRace`;
- changing the direction of a category that has children puts income under
  expense, although `docs/arch/arch.md:88` calls them separate trees
  (`ledger/accounts_categories.go:421`);
- a retried upload is answered from a batch in memory whose save failed, and a
  restart forgets it (`imports/file_store.go:69`); `AckedAreStored`;
- an audit page offset that wraps round to a small positive number returns
  items for a page past the end (`audit/service.go:211`);
- an item that moves towards the front between two pages is missed by a scan
  (`httpserver/import_routes.go:487`);
- a new reporting currency of a book leaves entries whose own exchange-rate text
  does not name it; `BookSummary` then fails for the whole book
  (`ledger/service.go:104`). `EntriesStayValid` speaks of the currency an entry was
  stored with;
- a fetched quotient below half of 10^-8 is stored as zero, and every summary
  that needs the index then fails until the next refresh (`ledger/rates.go:195`);
  a converted amount beyond int64 wraps silently (`ledger/money.go:104`);
- the pool is closed by a hook of the shutdown while requests are still being
  drained, and nothing waits for the updater (`httpserver/server.go:107-116`),
  although `docs/arch/arch.md:532` says "Shutdown drains the API server, scheduled
  exchange-rate updater, ..."; a refresh in memory may still store its table
  after the cancellation;
- the comment of `IncrementCounter` says "atomically increments"; it reads and
  upserts in a transaction of default isolation (`persistence/sql_store.go:314`);
- after five wrong authenticator codes only a success resets the counter, and no
  success is possible any more: there is no expiry (`auth/totp.go:191`); a wrong
  code whose increment fails is answered with an error and counted nowhere
  (`auth/totp.go:215`); `GuessesBounded`;
- the deferred deletion of a passkey ceremony uses the context of the request
  and drops its error, so a cancelled request leaves the ceremony usable until
  it expires (`auth/passkeys.go:93`).

**Bounds.** Two handlers suffice for every pairwise race, which is what the
history variables speak of; the theorems remove the bound. Three users make
`firstOtherOwner` choose; three categories give a cycle through a third one and a
request below it. Two callers and two writes let one caller wait for the lock
and one write be unsaved while the other is saved. Four audit events let a fork
be followed by a further event and by a restart. Three import requests are an
upload and two applies (racing, or a retry, or a replay), or two racing uploads
and an apply; two books let the applies differ in where they import to; three
rows include a skipped one in the middle, two accounts, and a mapped member. A
7-bit `int` has every kind of overflow of `(page-1)*size` that 64 bits have: to
a negative value, to a small and to a large positive one. Five items in pages of
two are three pages, the last one short. In `Entries` one outside change is
enough to overtake any of the reads, and the drafts and patches (see `MCEntries`)
include a transfer between currencies, texts that do and do not convert, and
edits of disjoint fields. In `Logins` and `Factors` three calls are two that
overlap and one that sees what they left (the second guess, the session after
the reset, the repeated answer); two ticks pass every lifetime once, and the
limits on attempts are lowered to two and one so that they are reached. In
`Server` the limit is two, the window four and the wait for the mutex up to two,
so that a window can end between two attempts of which one was late, and the span
of `AdmittedBounded` is longer than a tick. Over the whole window twice the limit
is not a bound once an attempt may wait two ticks: a bucket opened by a late
attempt begins, and so ends, before what it admits. The
feeds include a repeated currency, a missing one, an invalid quote and a quotient
that rounds to zero; the books include entries on
both sides of a midnight, a rate text used in both directions, one that no longer
names the currency of the book, and an amount that fits an `int64` at some of the
rates and wraps at others.

**Fairness.** `Categories` and `SnapshotStore`: weak fairness of a handler's next
step: Go schedules every runnable goroutine. Requests need not arrive. Strong
fairness of `Lock`: `sync.Mutex` hands itself to a waiter after one millisecond
(starvation mode). No fairness is assumed of failures, crashes or restarts.
In `Server`: weak fairness of the updater (a fetch has a timeout of its own and
every statement a deadline), of its ticker, of the shutdown timer, of the clock, of
the limiter's decision and of sending an answer; none of what a handler asks of
the store, which may take for ever, and none of a signal.
`CHECK_DEADLOCK FALSE` is used where the instance is a finite set of requests
(`ImportApply`, `Entries`, `Logins`, `Factors`) and where the process exits
(`Server`).

## 4. Proofs

All for arbitrary sets of users, books, handlers, records, files, categories,
writes and recorders, any request bodies and any number of failures; and for any
lengths of lists and pages, widths of an `int`, periods, lifetimes, limits and
windows that the named assumptions allow.

Most of the invariants have one shape. A race is what a property excepts, and the
history variables say what a race is; so the inductive invariant says of every
handler what it holds at each of its steps: what it has read still is what is
stored, or `stale` (`disturbed`, `overlapped` in the import) says that it was
overtaken. A write by a handler that was not overtaken then does to the stored
record what it did to the copy. A lemma on the frame of a step gives what other
handlers know after it, so that each action is proved for its own handler only.

- **BookRequestsProofs**: `OwnerlessNeedsRace`. `OwnerlessOnlyByRace` is not
  inductive: a handler that has passed its owner check will write later. The
  strengthening `RaceInv` adds that, on a book without a race, every such
  handler still has another owner to rely on, and `ControlInv` says what each
  position of a handler implies. `BookRequestsTypes` proves types and control.
  `PrimaryNeedsRace` (`PrimaryLostOnlyByRace`) rests on `DriftInv`: as long as
  nothing drifted, the primary owner of a book is an owner unless a call is
  between its two writes, and the book held by a request that was not overtaken
  has the stored primary owner.
  `SingleHandlerImplementsCalls` is the refinement `ImplementsCalls` for one
  handler on the memory store (`Serial`, the setting of `requests_serial`): a call
  takes effect with its first write, and `SerialInv` says that until then what the
  handler has read, the actor's role and the book among it, is what is stored.
  About the whole calls: `BookMembershipTypes`; `PrimaryOwnerAlwaysOwner`, which is
  inductive together with the types, the lemma on `FirstOtherOwner` supplying the
  new primary owner; and the action property `PromotionHandsOver`.
  `SingleHandlerKeepsPrimary` carries both over to the store calls of one handler.
- **CategoriesProofs**: `CyclesNeedRace`, `ParentsAlwaysExist`, and
  `SequentialUpdatesStayAcyclic` for one handler. `IInv` adds to acyclicity that
  a check not overtaken still holds at the write. The step that writes a parent
  rests on a lemma about ancestor sets (`ReparentKeepsTree`); acyclicity is
  stated with closed sets, so no induction over paths is needed.
  About scans: `ScansMissNothing` (`InsertionsHideNothing`) and
  `PagesArePiecesOfTheList` (`PagesPartition`). `ScanInv` says that an item which
  stood in the list all the time and lies before the end of the pages read
  (`Past`) has been collected: an insertion only moves such an item back, and the
  offset of the next page does not move. For a scan nothing disturbed, what was
  collected is the list up to that point. The arithmetic of pages (the quotient
  and remainder that cut a list, and when `(page-1)*size` wraps) is in lemmas of
  its own (`Quotients`, `NoWrap`, `Cut`).
- **ProcessProofs**, on the file driver: `StoreAlwaysLoads`,
  `AcknowledgedWritesStored`, and the refinement `SnapshotStoreIsDurable`. `IInv`
  says that only the lock holder is past the lock, what its temporary file holds
  at each step, that files that ever got the store's name are complete and synced,
  that memory only runs ahead of the file, and that what it has beyond the file is
  `unsaved` or being saved (`SavedInv`).
  On the process: `LimiterHolds` (`AdmittedBounded`), `WholeTables`
  (`RatesFromOneFetch`). `ServerInv` says
  that the table the updater holds is that of one fetch, and its transaction has only rows
  of it (`UpdaterOK`); that the attempts of the last `n` ticks are at most the
  count of the bucket and one limit more, and at most the count when the bucket is
  older than they are (`LimitsOK`): so a new bucket starts from one limit at most,
  because the one it replaces had ended. `PhaseOK` and `RequestsOK` are the types
  of the rest. `AmountsAreNear` proves of every single amount of a
  summary what `SummaryIsNear` says of their sum.
- **AuditChainProofs**: `BreaksNeedRaceOrCut` (`BrokenOnlyByRaceOrCut`), and
  `SequentialLogVerifies` for one recorder, whose log is always linked and
  verifies unless a torn text was mended by a reload. For the links
  (`AuditInvariant`): without a race the log is in order and an event about to be
  saved over a tail that is not stale continues it. For the hashes
  (`HashInvariant`): every event, saved or about to be, has the hash of what it
  says, or of what it said before it was decoded. `LogIsTree` (`EventsContinueEarlier`)
  holds with races too, from `Tree`: the event a recorder is about to save, and
  every stored one, continues an event before it. `TamperingIsDetected`
  (`AlterationDetected`) is about any log that `VerifyChain` accepts: sorting by
  number then is a bijection from numbers to places, an edited event no longer
  has its hash, and a log with a gap lacks a number.
- **EntriesProofs**: `EditsAreKept`, `SharesStayRemoved`, `StoredEntriesAreValid`
  and the action properties `DeletionIsFinal` and `OnlyPermittedMutations`. The
  invariant says for each kind of request which of its account, destination,
  category and conversions have been validated at which step, and that a copy
  not overtaken is the stored record with the body applied.
- **LoginsProofs**: `EmailsAreUnique`, `UserEditsAreKept`, `FailuresLock`,
  `CodesAreUsedOnce`, `ResetsRevokeSessions`, `SSOSessionsAreBound` and the
  action property `VerificationIsFinal`. The codes in the table that nobody raced
  for are pairwise different and have been guessed at as often as their record
  says; a login past its credentials has the password or the subject that is
  stored, or is overtaken. That the loop of `loginLockDuration` computes the
  capped doubling needs induction: `LeastNumber`, `Induction` and `Repetition`
  derive it from the well-foundedness of the numbers, with sets and functions in
  place of the operators that the library's theorems take.
- **ImportApplyProofs**: `FilesHaveOneBatch`, `SummariesAreComplete`,
  `RowsAreImportedOnce`, `ReferencesAreCreatedOnce`. The invariant says that what
  an apply has created is exactly one entry of every importable row before the
  one it is at (`CreatedOK`); that an apply nothing disturbed is alone with a
  batch not applied yet (`AloneOK`); that every entry of an undisturbed batch is
  of the apply at work or in the stored summary (`EntriesOK`); and that, as long
  as no two applies overlapped, the lists an apply has read are the stored ones
  (`ListsOK`).
- **FactorsProofs**: `CodesOnce` (`CodesAcceptedOnce`), `GuessesLimited`
  (`GuessesBounded`), `FactorKept` (`FactorLostOnlyByRace`), `CeremoniesOnce`
  (`CeremonyUsedOnce`) and the action property `PasskeysForward`
  (`PasskeysMoveForward`). The invariant says that the marker of an accepted code
  lasts as long as the code is valid; that the failures in the counter and the
  requests about to add one stay below the limit and the number of requests, because a request
  passes the check only while the counter is below the limit; that a copy not
  overtaken is the stored record; and that the ceremony of a finished request is
  gone or about to be deleted by that request. `AloneLosesNothing` shows that with
  one request at a time none of the exceptions occurs, and `MemoryCountsEveryGuess`
  that the exception of the counter is one of PostgreSQL alone.

Every inductive invariant was checked by TLC on the instance of the component's
run before it was proved. Each of the invariants above is proved together with the
type invariant of its module.

The constants' assumptions are the named `ASSUME`s of the modules (markers
distinct from data, non-empty sets, request bodies and start states of the right
kind); TLC evaluates them in every run.

**Checked by TLC only**:

- the liveness properties (`CallsReturn`, `BlockedClientsReturn`,
  `UpdaterKeepsTrying`, `ShutdownEnds`): the prover does not reason about fairness;
- `SummaryIsNear`, that the totals of a summary are right to half a cent for each
  converted entry. The totals are folds over the set of entries. Each summand is
  proved near by `AmountsAreNear`; adding them up needs induction over a fold,
  whose theorems take operators as parameters, which the provers cannot
  instantiate.

## 5. Not modelled

Left out for good:

- the relational repositories (`ledger/sql_repository.go`,
  `auth/sql_repository.go`), which the server does not use at this commit, and
  the DDL of the migrations;
- what external services do: the WebAuthn library, the SSO provider, Turnstile,
  mail. Their answers are inputs;
- the encryption of stored TOTP secrets and their migration at start
  (`MigrateTOTPSecrets`), password hashing and the key ring: cryptography is
  assumed to do what it says;
- parsers, formatting, trimming and length limits, and the metadata keys that
  audit events leave out;
- routing, security headers, request ids, static files, pprof, telemetry,
  configuration;
- the web client and the command line, which are other users of the API.
