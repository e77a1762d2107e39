----------------------------- MODULE AuditChain -----------------------------
(***************************************************************************)
(* The hash-chained audit log (audit/service.go and its three stores).     *)
(* Every security- or ledger-relevant request ends with recordAuditEvent,  *)
(* so several goroutines run Service.Record at once.  Record is two store  *)
(* calls, Tail and SaveEvent, with nothing held in between and no unique   *)
(* constraint on seq.                                                      *)
(*                                                                         *)
(* SHA-256 is taken to be free of collisions: a hash is the tuple of what  *)
(* eventHash encodes.  An event's id and creation time are one number, the *)
(* order in which the recorders read the clock.                            *)
(*                                                                         *)
(* What an event says is the text its JSON encoding shows to a reader, and *)
(* whether that text is torn: sanitizeMetadata cuts a value at byte 256,   *)
(* which may split a character.  json.Marshal encodes the broken bytes as  *)
(* the escape of U+FFFD; decoded, they are that character, and encoded     *)
(* again they are the character itself, no longer the escape.              *)
(***************************************************************************)
EXTENDS Integers, Sequences, SequencesExt

CONSTANTS Recorders, \* goroutines that may record at the same time
          Drivers,   \* store implementations to consider
          Texts,     \* what events say: actor, action, target, metadata
          MaxEvents  \* bound on the number of Record calls

ASSUME DriversAssumption == Drivers \subseteq {"memory", "file", "sql"}
ASSUME MaxEventsAssumption == MaxEvents \in Nat

VARIABLES driver,  \* the configured store
          events,  \* the stored events, in the order they were appended
          saved,   \* how many of them a restart finds
          clock,   \* Record calls so far
          rec,     \* what every recorder is doing
          stale,   \* history: recorders whose tail is no longer the tail
          raced    \* history: such a recorder has saved its event

vars == <<driver, events, saved, clock, rec, stale, raced>>

Bodies == [text : Texts, torn : BOOLEAN]

NoHash == <<>>  \* the empty prevHash of the first event
HashWithoutBody(e) == <<e.seq, e.prev, e.id>>
EventHash(e) == <<e.seq, e.prev, e.id, e.body>>

\* An event encoded into a row or a snapshot and decoded again.
Reloaded(e) == [e EXCEPT !.body = [text |-> e.body.text, torn |-> FALSE]]

\* The recorder holds the event it is filling in.
Idle == [pc |-> "idle"]
Call(pc, event) == [pc |-> pc, event |-> event]
IsEvent(e) == /\ DOMAIN e = {"id", "seq", "prev", "body", "hash"}
              /\ e.id \in 1..clock /\ e.seq \in 1..MaxEvents /\ e.body \in Bodies
IsCall(q) == \/ q = Idle
             \/ /\ DOMAIN q = {"pc", "event"} /\ q.pc = "tail"
                /\ DOMAIN q.event = {"id", "body"}
                /\ q.event.id \in 1..clock /\ q.event.body \in Bodies
             \/ DOMAIN q = {"pc", "event"} /\ q.pc = "save" /\ IsEvent(q.event)

TypeOK == /\ driver \in Drivers
          /\ clock \in 0..MaxEvents
          /\ Len(events) <= clock /\ \A i \in DOMAIN events : IsEvent(events[i])
          /\ saved \in 0..Len(events)
          /\ DOMAIN rec = Recorders /\ \A r \in Recorders : IsCall(rec[r])
          /\ stale \subseteq Recorders
          /\ raced \in BOOLEAN

Init == /\ driver \in Drivers
        /\ events = <<>> /\ saved = 0
        /\ clock = 0
        /\ rec = [r \in Recorders |-> Idle]
        /\ stale = {} /\ raced = FALSE

-----------------------------------------------------------------------------
\* Store.Tail of a log that is not empty: the last one appended in memory; in
\* SQL the head of newestFirst, the highest seq and among equals the newest.
TailOldest(e) == e = events[1]
IsTail(e) ==
    IF driver = "sql"
    THEN \A i \in DOMAIN events :
            \/ events[i].seq < e.seq
            \/ events[i].seq = e.seq /\ events[i].id <= e.id
    ELSE e = events[Len(events)]

\* The place in the chain after the tail e.
HashNotLinked(e) == [seq |-> e.seq + 1, prev |-> NoHash]
After(e) == [seq |-> e.seq + 1, prev |-> e.hash]
First == [seq |-> 1, prev |-> NoHash]

Linked(e, link) ==
    LET f == [id |-> e.id, seq |-> link.seq, prev |-> link.prev, body |-> e.body] IN
    [id |-> f.id, seq |-> f.seq, prev |-> f.prev, body |-> f.body, hash |-> EventHash(f)]

\* Record: sanitise the request, which may tear its text, and take an id and
\* the time.
Record(r) ==
    /\ rec[r].pc = "idle"
    /\ clock < MaxEvents
    /\ clock' = clock + 1
    /\ \E b \in Bodies : rec' = [rec EXCEPT ![r] = Call("tail", [id |-> clock + 1, body |-> b])]
    /\ UNCHANGED <<driver, events, saved, stale, raced>>

\* fillChain
FillChain(r) ==
    /\ rec[r].pc = "tail"
    /\ \E link \in IF events = <<>> THEN {First}
                   ELSE {After(e) : e \in {f \in Range(events) : IsTail(f)}} :
          rec' = [rec EXCEPT ![r] = Call("save", Linked(rec[r].event, link))]
    /\ stale' = stale \ {r}
    /\ UNCHANGED <<driver, events, saved, clock, raced>>

\* The event is stored: the tails the others have read are not the tail now.
\* Memory keeps the event itself; whoever reads a row decodes it.
Append1(r) ==
    /\ rec[r].pc = "save"
    /\ events' = Append(events, IF driver = "sql" THEN Reloaded(rec[r].event)
                                                 ELSE rec[r].event)
    /\ rec' = [rec EXCEPT ![r] = Idle]
    /\ stale' = {s \in Recorders \ {r} : rec[s].pc = "save"}
    /\ raced' = (raced \/ r \in stale)
    /\ UNCHANGED <<driver, clock>>

\* Store.SaveEvent.  The file store writes the whole log, what an earlier
\* failure left unwritten included.
SaveEvent(r) ==
    /\ Append1(r)
    /\ saved' = IF driver = "memory" THEN 0 ELSE Len(events) + 1

\* The file store's sink fails after the event is in memory: Record returns an
\* error and recordAuditEvent logs it, but the event stays in the log.
PersistError(r) ==
    /\ driver = "file"
    /\ Append1(r)
    /\ saved' = saved

\* A SQL query or insert fails: Record returns without an event.
StoreError(r) ==
    /\ driver = "sql"
    /\ rec[r].pc \in {"tail", "save"}
    /\ rec' = [rec EXCEPT ![r] = Idle]
    /\ stale' = stale \ {r}
    /\ UNCHANGED <<driver, events, saved, clock, raced>>

\* The process stops at any moment and a new one opens the store.
Restart ==
    /\ events' = [i \in 1..saved |-> Reloaded(events[i])]
    /\ rec' = [r \in Recorders |-> Idle]
    /\ stale' = {}
    /\ UNCHANGED <<driver, saved, clock, raced>>

Next == \/ \E r \in Recorders : \/ Record(r) \/ FillChain(r) \/ SaveEvent(r)
                                \/ PersistError(r) \/ StoreError(r)
        \/ Restart

Spec == Init /\ [][Next]_vars

-----------------------------------------------------------------------------
\* VerifyChain: sorted by seq, the events are numbered from 1 without a gap or
\* a repetition, each names the hash of the one before it, and its own hash is
\* that of its contents.
SeqAt(es, n) == {k \in DOMAIN es : es[k].seq = n}
LinksHold(es) ==
    \A n \in DOMAIN es : \E k \in DOMAIN es :
       /\ SeqAt(es, n) = {k}
       /\ IF n = 1 THEN es[k].prev = NoHash
          ELSE \E j \in SeqAt(es, n - 1) : es[k].prev = es[j].hash
HashHolds(e) == e.hash = EventHash(e)
VerifyChain(es) == LinksHold(es) /\ \A k \in DOMAIN es : HashHolds(es[k])

\* The event was torn when it was hashed and has been decoded since.
Torn(e) == [e EXCEPT !.body = [text |-> e.body.text, torn |-> TRUE]]
MendedSince(e) == ~e.body.torn /\ e.hash = EventHash(Torn(e))

\* docs/arch/arch.md: audit events carry "a monotonically increasing seq plus
\* prevHash/hash chain fields".  With one recorder the links always hold, and
\* the log verifies as long as no text was torn on its way to a reader,
\* whatever fails and however often the server is restarted; with two it may
\* not (BrokenOnlyByRaceOrCut).
ChainVerifies ==
    /\ LinksHold(events)
    /\ (\A i \in DOMAIN events : ~MendedSince(events[i])) => VerifyChain(events)

\* VerifyChain has two things to object to.  The links of the log are broken
\* only when Record saved an event whose tail another recorder's save had
\* replaced in between.  A hash is wrong, race or no race, only on a durable
\* store and of an event whose text sanitizeMetadata cut inside a character:
\* what comes back from the file or the row is not what eventHash encoded.
BrokenOnlyByRaceOrCut ==
    /\ ~raced => LinksHold(events)
    /\ \A i \in DOMAIN events :
          HashHolds(events[i]) \/ (driver # "memory" /\ MendedSince(events[i]))

\* Even then every event continues an event stored before it, one number up:
\* the log is a tree, and a restart never cuts a branch in the middle
\* (fillChain, SnapshotStore.SaveEvent's rewrite of the whole log).
EventsContinueEarlier ==
    \A i \in DOMAIN events :
       \/ events[i].seq = 1 /\ events[i].prev = NoHash
       \/ \E j \in 1..(i - 1) : /\ events[j].hash = events[i].prev
                                /\ events[j].seq + 1 = events[i].seq

\* "... so adjacent tampering is detectable": in a log that VerifyChain
\* accepts, it no longer does after one event's contents are edited or any
\* event but the newest is taken out.
AlterationDetected ==
    VerifyChain(events) =>
       \A i \in DOMAIN events :
          /\ \A b \in Bodies \ {events[i].body} : ~VerifyChain([events EXCEPT ![i].body = b])
          /\ events[i].seq < Len(events) => ~VerifyChain(RemoveAt(events, i))
=============================================================================
