------------------------------- MODULE Server --------------------------------
(***************************************************************************)
(* The life of the process: NewServer and main start it, the daily updater *)
(* replaces the rate table (ledger/rates.go), requests pass the limiter or *)
(* compute a summary with the rates, and a signal shuts it down            *)
(* (httpserver/server.go, cmd/accounting-server/main.go).                  *)
(*                                                                         *)
(* Times are counted from the present, so that the clock has no bound: a   *)
(* tick moves every stored time one back.  A request reads the clock       *)
(* before it waits for the mutex of the limiter, and at most MaxLag ticks  *)
(* pass in between.  What a handler does with the store, other than the    *)
(* read of the rates, is one step: its details are in the other modules.   *)
(***************************************************************************)
EXTENDS RateLimiter, Rates

CONSTANTS Callers,  \* who tries: address, and subject or NoSubject
          Reqs,     \* requests in service at the same time
          Starts,   \* driver, updater, stored rates and kinds of request
          Feeds,    \* what the European Central Bank may serve
          Books,    \* book -> reporting currency and entries
          Queries,  \* book, first and last day of a summary
          NoTable,
          MaxLag    \* bound on the wait for the limiter

\* What is assumed of them: a feed is a sequence of quotes, and the store that
\* the process finds is empty or has the bootstrap rates.
ASSUME ServerAssumption ==
    /\ MaxLag \in 0..(Window - 1)
    /\ \A S \in SUBSET Currencies : NoTable \notin [S -> Nat]
    /\ \A f \in Feeds : /\ Len(f) \in Nat /\ DOMAIN f = 1..Len(f)
                        /\ \A i \in DOMAIN f : f[i].rate \in Nat
    /\ \A s \in Starts : /\ s.driver \in {"memory", "sql"} /\ s.updater \in {"off", "fetch"}
                         /\ s.rates \in {NoRates, DefaultRates}

VARIABLES driver,     \* "memory" (file alike) or "sql"
          kinds,      \* request -> kinds of what it may be
          phase, pool,
          cancelled,  \* the updater's context
          updater,
          table,      \* the rates the updater holds
          tx,         \* its transaction
          rates,      \* the stored table
          buckets,
          req,
          admitted    \* history: key -> n -> attempts let through in the last n ticks

limits == <<buckets, admitted>>
process == <<driver, kinds, phase, pool, cancelled>>
refresh == <<updater, table, tx>>
serverVars == <<process, refresh, rates, limits, req>>

Spans == 1..(Window - MaxLag)
Clients == {a[1] : a \in Callers}
Keys == UNION {KeysOf(a[1], a[2]) : a \in Callers}
Phases == {"serving", "draining", "stopped", "killed"}
Updaters == {"off", "fetch", "store", "delete", "insert", "wait", "done"}
NoRequest == [pc |-> "idle", kind |-> "auth", client |-> NoSubject, subject |-> NoSubject, at |-> 0,
         query |-> NoTable, rates |-> NoTable, answer |-> NoTable, outcome |-> "none"]
Outcomes == {"none", "ok", "limited", "closed", "failed", "rejected"}

NoBuckets == [k \in {} |-> 0]
NoneAdmitted == [k \in Keys |-> [n \in Spans |-> 0]]
Exited == phase \in {"stopped", "killed"}

ServerTypeOK ==
    /\ driver \in {"memory", "sql"} /\ phase \in Phases
    /\ pool \in {"none", "open", "closed"} /\ (driver = "memory" <=> pool = "none")
    /\ cancelled \in BOOLEAN /\ updater \in Updaters
    /\ tx # NoTable <=> updater \in {"delete", "insert"}
    /\ DOMAIN rates \subseteq Currencies /\ \A c \in DOMAIN rates : rates[c] \in Nat
    /\ \A k \in DOMAIN buckets : buckets[k].count \in Nat \ {0} /\ buckets[k].resetAt \in -MaxLag..Window
    /\ admitted \in [Keys -> [Spans -> Nat]]
    /\ \A r \in Reqs : /\ req[r].pc \in {"idle", "allow", "load", "index", "answer"}
                       /\ req[r].outcome \in Outcomes /\ req[r].at \in -MaxLag..0

\* NewServer opens the pool of a SQL driver, and starts the updater unless it
\* runs in test mode.  A memory or new SQL store has the bootstrap rates.
ServerInit ==
    /\ \E s \in Starts : /\ driver = s.driver /\ updater = s.updater
                          /\ kinds = s.kinds /\ rates = s.rates
    /\ phase = "serving"
    /\ pool = IF driver = "sql" THEN "open" ELSE "none"
    /\ cancelled = FALSE
    /\ table = NoTable /\ tx = NoTable
    /\ buckets = NoBuckets
    /\ req = [r \in Reqs |-> NoRequest]
    /\ admitted = NoneAdmitted

-----------------------------------------------------------------------------
(* The updater.                                                            *)

Updates(next) == updater' = next /\ table' = NoTable /\ tx' = NoTable

\* refreshExchangeRatesForSchedule logs a failure; the loop goes on.
EndsLoop(next) == Updates(IF next = "wait" THEN "done" ELSE next)
AfterFailure(next) == Updates(next)

\* FetchExchangeRates
Fetch ==
    /\ ~Exited /\ updater = "fetch"
    /\ \/ /\ ~cancelled
          /\ \E f \in Feeds : Usable(f) /\ table' = RatesFromECBCubes(f)
          /\ updater' = "store" /\ UNCHANGED tx
       \/ AfterFailure("wait")
    /\ UNCHANGED <<process, rates, limits, req>>

\* ReplaceExchangeRates of the memory store, which looks at no context.
ReplaceInMemory ==
    /\ ~Exited /\ updater = "store" /\ driver = "memory"
    /\ rates' = table
    /\ Updates("wait")
    /\ UNCHANGED <<process, limits, req>>

\* ReplaceExchangeRates of the SQL store: a transaction that deletes the rows
\* one by one, in the order in which they are listed, inserts the new ones and
\* commits.
BeginReplace ==
    /\ ~Exited /\ updater = "store" /\ driver = "sql"
    /\ pool = "open" /\ ~cancelled
    /\ tx' = rates /\ updater' = "delete"
    /\ UNCHANGED <<process, table, rates, limits, req>>
DeleteRate ==
    /\ ~Exited /\ updater = "delete" /\ ~cancelled
    /\ IF DOMAIN tx = {} THEN updater' = "insert" /\ UNCHANGED tx
       ELSE /\ tx' = Restrict(tx, DOMAIN tx \ {CHOOSE c \in DOMAIN tx : TRUE})
            /\ UNCHANGED updater
    /\ UNCHANGED <<process, table, rates, limits, req>>
Inserted(t, c) == [d \in DOMAIN t \cup {c} |-> IF d = c THEN table[c] ELSE t[d]]
InsertWithoutTransaction ==
    /\ ~Exited /\ updater = "insert" /\ ~cancelled
    /\ DOMAIN tx # DOMAIN table
    /\ tx' = Inserted(tx, CHOOSE c \in DOMAIN table \ DOMAIN tx : TRUE) /\ rates' = tx'
    /\ UNCHANGED <<process, updater, table, limits, req>>
InsertRate ==
    /\ ~Exited /\ updater = "insert" /\ ~cancelled
    /\ DOMAIN tx # DOMAIN table
    /\ tx' = Inserted(tx, CHOOSE c \in DOMAIN table \ DOMAIN tx : TRUE)
    /\ UNCHANGED <<process, updater, table, rates, limits, req>>
Commit ==
    /\ ~Exited /\ updater = "insert" /\ ~cancelled
    /\ DOMAIN tx = DOMAIN table
    /\ rates' = tx
    /\ Updates("wait")
    /\ UNCHANGED <<process, limits, req>>

\* A statement fails, as all do once the context is cancelled, and a new
\* transaction once the pool is closed: the transaction is rolled back.
Rollback ==
    /\ ~Exited /\ driver = "sql" /\ updater \in {"store", "delete", "insert"}
    /\ AfterFailure("wait")
    /\ UNCHANGED <<process, rates, limits, req>>

\* The select of the loop.
NextDay ==
    /\ ~Exited /\ updater = "wait" /\ Updates("fetch")
    /\ UNCHANGED <<process, rates, limits, req>>
StopUpdater ==
    /\ ~Exited /\ updater = "wait" /\ cancelled /\ Updates("done")
    /\ UNCHANGED <<process, rates, limits, req>>

-----------------------------------------------------------------------------
(* Requests.                                                               *)

Continue(r, q) == req' = [req EXCEPT ![r] = q]
Finish(r, outcome) == Continue(r, [NoRequest EXCEPT !.pc = "answer", !.outcome = outcome])

\* Shutdown closes the listener; a connection that was accepted before it may
\* still bring a request.  allow reads the clock before it takes the mutex.
ReceiveAuth(r) ==
    /\ ~Exited /\ "auth" \in kinds[r] /\ req[r].pc = "idle"
    /\ \E a \in Callers : Continue(r, [NoRequest EXCEPT !.pc = "allow", !.client = a[1], !.subject = a[2]])
    /\ UNCHANGED <<process, refresh, rates, limits>>
ReceiveSummary(r) ==
    /\ ~Exited /\ "summary" \in kinds[r] /\ req[r].pc = "idle"
    /\ \E query \in Queries : Continue(r, [NoRequest EXCEPT !.pc = "load", !.kind = "summary", !.query = query])
    /\ UNCHANGED <<process, refresh, rates, limits>>

\* allow under the mutex, by the clock read before: the attempt goes on, ...
Attempted(r) == KeysOf(req[r].client, req[r].subject)
Allowed(r) == Allows(Pruned(buckets, req[r].at), Attempted(r), req[r].at)
Admit(r) ==
    /\ ~Exited /\ req[r].pc = "allow" /\ Allowed(r)
    /\ buckets' = AfterAttempt(buckets, Attempted(r), req[r].at)
    /\ Continue(r, [NoRequest EXCEPT !.pc = "load", !.client = req[r].client])
    /\ admitted' = [k \in Keys |-> IF k \in Attempted(r) THEN [n \in Spans |-> admitted[k][n] + 1]
                                   ELSE admitted[k]]
    /\ UNCHANGED <<process, refresh, rates>>

\* ... or is answered at once that it came too early.
WaitInstead(r) == /\ ~Exited /\ req[r].pc = "allow" /\ ~Allowed(r) /\ UNCHANGED serverVars
Refuse(r) ==
    /\ ~Exited /\ req[r].pc = "allow" /\ ~Allowed(r)
    /\ buckets' = AfterAttempt(buckets, Attempted(r), req[r].at)
    /\ Finish(r, "limited")
    /\ UNCHANGED <<process, refresh, rates, admitted>>

\* What the handler asks the store for before it answers, or needs the rates.
LoadRates(r) ==
    /\ ~Exited /\ req[r].pc = "load"
    /\ \/ pool # "closed" /\ req[r].kind = "auth" /\ Finish(r, "ok")
       \/ /\ pool # "closed" /\ req[r].kind = "summary"
          /\ Continue(r, [req[r] EXCEPT !.pc = "index"])
       \/ pool = "closed" /\ Finish(r, "closed")
       \/ Finish(r, "failed")
    /\ UNCHANGED <<process, refresh, rates, limits>>

\* exchangeRateIndex and the rest of BookSummary.
Summarize(r) ==
    LET q == req[r] b == Books[q.query[1]] first == q.query[2] last == q.query[3] IN
    /\ ~Exited /\ q.pc = "index"
    /\ \/ pool = "closed" /\ Finish(r, "closed")
       \/ pool # "closed" /\ Finish(r, "failed")
       \/ /\ pool # "closed" /\ Indexed(rates) /\ Summarizes(b, first, last)
          /\ Continue(r, [q EXCEPT !.pc = "answer", !.outcome = "ok", !.rates = rates,
                                   !.answer = Summary(b, first, last, rates)])
       \/ /\ pool # "closed" /\ ~(Indexed(rates) /\ Summarizes(b, first, last))
          /\ Finish(r, "rejected")
    /\ UNCHANGED <<process, refresh, rates, limits>>

Respond(r) ==
    /\ ~Exited /\ req[r].pc = "answer"
    /\ Continue(r, NoRequest)
    /\ UNCHANGED <<process, refresh, rates, limits>>

-----------------------------------------------------------------------------
(* The process and the clock.                                              *)

\* The memory of the process, a transaction that is open included, goes when
\* it ends.
Exit(ended) ==
    /\ phase' = ended
    /\ updater' = "off" /\ table' = NoTable /\ tx' = NoTable
    /\ buckets' = NoBuckets /\ admitted' = NoneAdmitted
    /\ req' = [r \in Reqs |-> NoRequest]
    /\ UNCHANGED <<driver, kinds, pool, cancelled, rates>>

\* main leaves its select by a signal, or because the listener failed.
Signal ==
    /\ phase = "serving" /\ phase' = "draining"
    /\ UNCHANGED <<driver, kinds, pool, cancelled, refresh, rates, limits, req>>
ListenerFails == phase = "serving" /\ Exit("killed")

\* The functions of RegisterOnShutdown run on goroutines of their own as soon
\* as the shutdown begins, and nothing waits for them.
CancelUpdater ==
    /\ phase = "draining" /\ updater # "off" /\ ~cancelled /\ cancelled' = TRUE
    /\ UNCHANGED <<driver, kinds, phase, pool, refresh, rates, limits, req>>
ClosePool ==
    /\ phase = "draining" /\ pool = "open" /\ pool' = "closed"
    /\ UNCHANGED <<driver, kinds, phase, cancelled, refresh, rates, limits, req>>

\* Shutdown returns when no request is left; the other servers may still fail
\* to stop in what is left of the timeout.
Drained ==
    /\ phase = "draining" /\ \A r \in Reqs : req[r].pc = "idle"
    /\ Exit("stopped") \/ Exit("killed")

\* The timeout of the shutdown.
WaitsForRequests == phase = "draining" /\ (\A r \in Reqs : req[r].pc = "idle") /\ Exit("killed")
TimeOut == phase = "draining" /\ Exit("killed")

\* Buckets that ended more than MaxLag ago are alike to every reader.
Older(n) == IF n - 1 < -MaxLag THEN -MaxLag ELSE n - 1
Tick ==
    /\ ~Exited /\ \E r \in Reqs : "auth" \in kinds[r]
    /\ \A r \in Reqs : req[r].at > -MaxLag
    /\ buckets' = [k \in DOMAIN buckets |-> [buckets[k] EXCEPT !.resetAt = Older(@)]]
    /\ admitted' = [k \in Keys |-> [n \in Spans |-> IF n = 1 THEN 0 ELSE admitted[k][n - 1]]]
    /\ req' = [r \in Reqs |-> IF req[r].pc = "allow" THEN [req[r] EXCEPT !.at = @ - 1] ELSE req[r]]
    /\ UNCHANGED <<process, refresh, rates>>

Updater == \/ Fetch \/ ReplaceInMemory \/ BeginReplace \/ DeleteRate \/ InsertRate \/ Commit
           \/ Rollback \/ StopUpdater
Shutdown == Signal \/ ListenerFails \/ CancelUpdater \/ ClosePool \/ Drained \/ TimeOut
Serve(r) == \/ ReceiveAuth(r) \/ ReceiveSummary(r) \/ Admit(r) \/ Refuse(r) \/ LoadRates(r)
            \/ Summarize(r) \/ Respond(r)
ServerNext == Updater \/ NextDay \/ Shutdown \/ Tick \/ \E r \in Reqs : Serve(r)

\* The scheduler runs what is ready, timers fire, and the clock advances: a
\* fetch and a statement have timeouts of their own.  Nothing is assumed of
\* what a handler asks of the store, nor that a signal comes.
Fairness ==
    /\ WF_serverVars(Updater) /\ WF_serverVars(NextDay) /\ WF_serverVars(TimeOut) /\ WF_serverVars(Tick)
    /\ \A r \in Reqs : WF_serverVars(Admit(r) \/ Refuse(r)) /\ WF_serverVars(Respond(r))

ServerSpec == ServerInit /\ [][ServerNext]_serverVars /\ Fairness

-----------------------------------------------------------------------------
\* No more than twice the limit gets through within the length of a window,
\* less the time that an attempt may wait for the mutex, wherever it begins:
\* although an attempt is decided by a clock that has moved on, and other
\* clients prune its buckets meanwhile (allow, pruneLocked).
AdmittedBounded == \A k \in Keys : admitted[k][Window - MaxLag] <= 2 * Limit

\* A client that goes on trying gets through again and again: being refused
\* never prolongs the wait (allow).
Attempts(c) == \E r \in Reqs : req[r].pc = "allow" /\ req[r].client = c /\ req[r].subject = NoSubject
Admitted(c) == \E r \in Reqs : req[r].pc = "load" /\ req[r].client = c
BlockedClientsReturn == \A c \in Clients : []<>Attempts(c) => []<>Admitted(c)

\* Readers never see a table that is half replaced: the stored rates are the
\* bootstrap or those of one whole fetch, each the quotient of the fetched
\* quotes to half a unit of the last decimal, whatever fails or is cancelled in
\* between; and the index refuses them only when such a quotient was below half
\* a unit (ReplaceExchangeRates, ratesFromECBCubes, exchangeRateIndex).
QuoteIn(f, c) == IF c \in Quoted(f) THEN LastQuote(f, c) ELSE Scale
RatesFromOneFetch ==
    /\ ServerTypeOK
    /\ \/ rates \in {NoRates, DefaultRates}
       \/ /\ DOMAIN rates = Currencies
          /\ \E f \in {g \in Feeds : USD \in Quoted(g)} :
                /\ \A c \in Currencies :
                      2 * Magnitude(rates[c] * QuoteIn(f, USD) - QuoteIn(f, c) * Precision) <= QuoteIn(f, USD)
                /\ ~Indexed(rates) => \E c \in Currencies : 2 * QuoteIn(f, c) * Precision < QuoteIn(f, USD)

\* The balance of a summary is the exact sum of its entries' amounts, on all
\* the days asked for, at the rates of one moment and to half a cent for every
\* entry that had to be converted, while an int64 holds it (BookSummary,
\* roundRatToInt64).
ExactRatio(entry, target, t) ==
    IF entry.currency = target THEN <<1, 1>>
    ELSE IF entry.text = NoText THEN <<t[target], t[entry.currency]>>
    ELSE IF entry.text.from = entry.currency THEN <<entry.text.num, entry.text.den>>
    ELSE <<entry.text.den, entry.text.num>>
SumOver(f, S) == MapThenSumSet(LAMBDA x : f[x], S)
SummaryIsNear ==
    \A r \in {s \in Reqs : req[s].answer # NoTable} :
       LET q == req[r] b == Books[q.query[1]] first == q.query[2] last == q.query[3]
           t == EffectiveRates(q.rates)
           days == {d \in 0..9 : first <= d /\ (last # NoDay => d <= last)}
           ids == {i \in DOMAIN b.entries : /\ b.entries[i].at \div DayLength \in days
                                            /\ b.entries[i].type # "transfer"}
           ratio == [i \in ids |-> ExactRatio(b.entries[i], b.currency, t)]
           unit == MapThenFoldSet(LAMBDA x, y : x * y, 1, LAMBDA i : ratio[i][2],
                                  LAMBDA S : CHOOSE x \in S : TRUE, ids)
           exact == [i \in ids |-> b.entries[i].cents * ratio[i][1] * (unit \div ratio[i][2])]
           sum == SumOver(exact, {i \in ids : b.entries[i].type \in Inflows})
                  - SumOver(exact, {i \in ids : b.entries[i].type \in Outflows})
       IN SumOver(exact, ids) < (Modulus \div 2 - Cardinality(ids)) * unit =>
             2 * Magnitude(q.answer.balance * unit - sum)
                <= Cardinality({i \in ids : b.entries[i].currency # b.currency}) * unit

\* A refresh that fails is tried again the next day, and so on until the
\* process is told to stop (StartDailyExchangeRateUpdater).
UpdaterKeepsTrying ==
    \/ [](updater = "off")
    \/ []<>(updater = "fetch")
    \/ <>(cancelled \/ Exited)

\* A shutdown ends, however long a request takes (main).
ShutdownEnds == phase = "draining" ~> Exited
==============================================================================
