-------------------------- MODULE AuditChainProofs --------------------------
(***************************************************************************)
(* For every number of recorders and events: the links of the audit log    *)
(* hold unless a recorder has saved an event over a tail that was no       *)
(* longer the tail, which one recorder alone cannot do; a hash is wrong    *)
(* only of an event whose text was torn and has been decoded since; every  *)
(* event continues an earlier one; and in a log that verifies, an edit or  *)
(* a gap is noticed.                                                       *)
(***************************************************************************)
EXTENDS AuditChain, FiniteSetTheorems, SequenceTheorems, TLAPS

HasFields(e) == DOMAIN e = {"id", "seq", "prev", "body", "hash"}

\* The event e stands at place n of the log es.
Continues(e, es, n) ==
    /\ e.seq = n
    /\ e.prev = IF n = 1 THEN NoHash ELSE es[n - 1].hash

\* The log is numbered in the order in which it was appended.
InOrder(es) == \A i \in 1..Len(es) : Continues(es[i], es, i)

\* The inductive invariant: a log without a race is in order, and an event
\* about to be saved continues it unless its tail is stale.
IInv ==
    /\ saved \in 0..Len(events)
    /\ DOMAIN rec = Recorders
    /\ \A i \in 1..Len(events) : HasFields(events[i])
    /\ \A r \in Recorders : rec[r].pc = "save" => HasFields(rec[r].event)
    /\ \A r \in stale : r \in Recorders /\ rec[r].pc = "save"
    /\ ~raced => /\ InOrder(events)
                 /\ \A r \in Recorders :
                       rec[r].pc = "save" /\ r \notin stale =>
                          Continues(rec[r].event, events, Len(events) + 1)

\* The log is a sequence (of events whose hashes nest without a bound, so of no set
\* that can be named once and for all).
IsLog == \E S : events \in Seq(S)

Inductive == IsLog /\ IInv

\* What is read back says the same, and stands where it stood.
LEMMA ReloadedKeeps ==
    ASSUME NEW e, HasFields(e)
    PROVE  /\ HasFields(Reloaded(e))
           /\ Reloaded(e).id = e.id /\ Reloaded(e).seq = e.seq
           /\ Reloaded(e).prev = e.prev /\ Reloaded(e).hash = e.hash
           /\ Reloaded(e).body = [text |-> e.body.text, torn |-> FALSE]
BY DEF HasFields, Reloaded

\* The links of a log in order hold.
LEMMA InOrderLinks ==
    ASSUME NEW S, NEW es \in Seq(S), InOrder(es)
    PROVE  LinksHold(es)
<1> SUFFICES ASSUME NEW n \in DOMAIN es
             PROVE  \E k \in DOMAIN es :
                       /\ SeqAt(es, n) = {k}
                       /\ IF n = 1 THEN es[k].prev = NoHash
                          ELSE \E j \in SeqAt(es, n - 1) : es[k].prev = es[j].hash
  BY DEF LinksHold
<1>1. DOMAIN es = 1..Len(es) /\ Len(es) \in Nat
  OBVIOUS
<1>2. \A i \in 1..Len(es) : es[i].seq = i
  BY DEF InOrder, Continues
<1>3. \A i \in 1..Len(es) : SeqAt(es, i) = {i}
  BY <1>1, <1>2 DEF SeqAt
<1>4. es[n].prev = IF n = 1 THEN NoHash ELSE es[n - 1].hash
  BY <1>1 DEF InOrder, Continues
<1>5. CASE n = 1
  BY <1>1, <1>3, <1>4, <1>5
<1>6. CASE n # 1
  <2>1. n - 1 \in 1..Len(es)
    BY <1>1, <1>6
  <2>2. n - 1 \in SeqAt(es, n - 1)
    BY <2>1, <1>3
  <2> QED
    BY <1>1, <1>3, <1>4, <1>6, <2>2
<1> QED
  BY <1>5, <1>6

\* An event that continues a log in order leaves it in order.
LEMMA AppendKeepsOrder ==
    ASSUME NEW S, NEW es \in Seq(S), NEW e \in S,
           InOrder(es), Continues(e, es, Len(es) + 1)
    PROVE  InOrder(Append(es, e))
<1> DEFINE fs == Append(es, e)
<1>1. /\ Len(es) \in Nat /\ Len(fs) = Len(es) + 1
      /\ fs[Len(es) + 1] = e
      /\ \A i \in 1..Len(es) : fs[i] = es[i]
  OBVIOUS
<1> SUFFICES ASSUME NEW i \in 1..Len(fs)
             PROVE  Continues(fs[i], fs, i)
  BY DEF InOrder
<1> HIDE DEF fs
<1>2. CASE i = Len(es) + 1
  <2>1. i # 1 => fs[i - 1] = es[i - 1]
    BY <1>1, <1>2
  <2> QED
    BY <1>1, <1>2, <2>1 DEF Continues
<1>3. CASE i # Len(es) + 1
  <2>1. i \in 1..Len(es) /\ (i # 1 => i - 1 \in 1..Len(es))
    BY <1>1, <1>3
  <2>2. Continues(es[i], es, i)
    BY <2>1 DEF InOrder
  <2> QED
    BY <1>1, <2>1, <2>2 DEF Continues
<1> QED
  BY <1>2, <1>3 DEF fs

\* What a restart finds of a log in order is in order.
LEMMA ReloadInOrder ==
    ASSUME NEW es, NEW m \in Nat, NEW n \in 0..m,
           \A i \in 1..m : HasFields(es[i]) /\ Continues(es[i], es, i)
    PROVE  \A i \in 1..n : Continues(Reloaded(es[i]), [j \in 1..n |-> Reloaded(es[j])], i)
<1> DEFINE fs == [j \in 1..n |-> Reloaded(es[j])]
<1> SUFFICES ASSUME NEW i \in 1..n PROVE Continues(Reloaded(es[i]), fs, i)
  OBVIOUS
<1>1. i \in 1..m /\ (i # 1 => i - 1 \in 1..n /\ i - 1 \in 1..m)
  OBVIOUS
<1>2. i # 1 => fs[i - 1].hash = es[i - 1].hash
  BY <1>1, ReloadedKeeps
<1>3. Reloaded(es[i]).seq = es[i].seq /\ Reloaded(es[i]).prev = es[i].prev
  BY <1>1, ReloadedKeeps
<1> HIDE DEF fs
<1> QED
  BY <1>1, <1>2, <1>3 DEF Continues

\* fillChain on a log in order yields an event that continues it, whichever
\* store finds the tail.
LEMMA FillChainContinues ==
    ASSUME NEW S, events \in Seq(S), InOrder(events), events # <<>>,
           NEW e \in Range(events), IsTail(e)
    PROVE  e = events[Len(events)] /\ e.seq = Len(events)
<1>1. /\ DOMAIN events = 1..Len(events)
      /\ Len(events) \in Nat /\ Len(events) \in 1..Len(events)
  OBVIOUS
<1>2. \A i \in 1..Len(events) : events[i].seq = i
  BY DEF InOrder, Continues
<1>3. PICK i \in 1..Len(events) : e = events[i]
  BY <1>1 DEF Range
<1>4. i = Len(events)
  <2>1. CASE driver = "sql"
    <3>1. \A j \in DOMAIN events : events[j].seq < e.seq \/ events[j].seq = e.seq
      BY <2>1 DEF IsTail
    <3>2. events[Len(events)].seq < e.seq \/ events[Len(events)].seq = e.seq
      BY <1>1, <3>1
    <3>3. events[Len(events)].seq = Len(events) /\ e.seq = i
      BY <1>1, <1>2, <1>3
    <3>4. Len(events) < i \/ Len(events) = i
      BY ONLY <3>2, <3>3, Zenon
    <3>5. Len(events) \in Nat /\ i \in Nat /\ i <= Len(events)
      BY <1>1
    <3> QED
      BY ONLY <3>4, <3>5
  <2>2. CASE driver # "sql"
    <3>1. e = events[Len(events)]
      BY <2>2 DEF IsTail
    <3> QED
      BY <1>1, <1>2, <1>3, <3>1
  <2> QED
    BY <2>1, <2>2
<1> QED
  BY <1>1, <1>2, <1>3, <1>4

\* What a store keeps of the event it is given.
Kept(e) == IF driver = "sql" THEN Reloaded(e) ELSE e

\* Storing an event keeps the invariant, whatever part of the log is durable.
LEMMA AppendInductive ==
    ASSUME Inductive, NEW r \in Recorders, Append1(r), saved' \in 0..(Len(events) + 1)
    PROVE  Inductive'
<1> DEFINE e == Kept(rec[r].event)
<1>1. PICK S : events \in Seq(S)
  BY DEF Inductive, IsLog
<1>2. events \in Seq(S \cup {e})
  BY <1>1
<1>3. /\ Len(events) \in Nat /\ events' = Append(events, e)
      /\ events' \in Seq(S \cup {e}) /\ Len(events') = Len(events) + 1
      /\ events'[Len(events) + 1] = e /\ \A i \in 1..Len(events) : events'[i] = events[i]
  BY <1>2 DEF Append1, Kept
<1>4. IsLog'
  BY <1>3 DEF IsLog
<1>5. /\ rec[r].pc = "save" /\ rec' = [rec EXCEPT ![r] = Idle]
      /\ stale' = {s \in Recorders \ {r} : rec[s].pc = "save"}
      /\ raced' = (raced \/ r \in stale) /\ DOMAIN rec = Recorders
      /\ HasFields(rec[r].event)
  BY DEF Append1, Inductive, IInv
<1>6. \A s \in Recorders : rec'[s] = IF s = r THEN Idle ELSE rec[s]
  BY <1>5
<1>7. \A s \in stale' : s \in Recorders /\ rec'[s].pc = "save"
  BY <1>5, <1>6
<1>8. \A s \in Recorders : rec'[s].pc = "save" => s \in stale' /\ rec'[s] = rec[s]
  BY <1>5, <1>6 DEF Idle
<1>9. /\ HasFields(e)
      /\ e.seq = rec[r].event.seq /\ e.prev = rec[r].event.prev
  BY <1>5, ReloadedKeeps DEF Kept
<1> HIDE DEF e
<1>10. ASSUME ~raced' PROVE InOrder(events')
  <2>1. ~raced /\ r \notin stale
    BY <1>5, <1>10
  <2>2. InOrder(events) /\ Continues(rec[r].event, events, Len(events) + 1)
    BY <2>1, <1>5 DEF Inductive, IInv
  <2>3. e \in S \cup {e} /\ Continues(e, events, Len(events) + 1)
    BY <1>9, <2>2 DEF Continues
  <2> QED
    BY <1>2, <1>3, <2>2, <2>3, AppendKeepsOrder
<1>11. saved' \in 0..Len(events') /\ DOMAIN rec' = Recorders
  BY <1>3, <1>5
<1>12. \A i \in 1..Len(events') : HasFields(events'[i])
  <2> SUFFICES ASSUME NEW i \in 1..Len(events') PROVE HasFields(events'[i])
    OBVIOUS
  <2>1. i \in 1..Len(events) \/ i = Len(events) + 1
    BY <1>3
  <2> QED
    BY <1>3, <1>9, <2>1 DEF Inductive, IInv
<1>13. \A s \in Recorders : rec'[s].pc = "save" => HasFields(rec'[s].event)
  BY <1>8 DEF Inductive, IInv
<1> QED
  BY <1>4, <1>7, <1>8, <1>10, <1>11, <1>12, <1>13 DEF Inductive, IInv

\* The empty log satisfies it.
LEMMA InitInductive == Init => Inductive
<1> SUFFICES ASSUME Init PROVE Inductive
  OBVIOUS
<1>1. events = <<>> /\ Len(events) = 0 /\ events \in Seq({})
  BY DEF Init
<1> QED
  BY <1>1 DEF Init, Inductive, IsLog, IInv, InOrder, Idle

\* A step of Record or of a store preserves it.
LEMMA NextInductive == Inductive /\ [Next]_vars => Inductive'
<1> SUFFICES ASSUME Inductive, [Next]_vars PROVE Inductive'
  OBVIOUS
<1>1. PICK S : events \in Seq(S)
  BY DEF Inductive, IsLog
<1>2. Len(events) \in Nat
  BY <1>1
<1>3. IInv
  BY DEF Inductive
<1>4. ASSUME NEW r \in Recorders, Record(r) PROVE Inductive'
  <2>1. PICK b \in Bodies : rec' = [rec EXCEPT ![r] = Call("tail", [id |-> clock + 1, body |-> b])]
    BY <1>4 DEF Record
  <2>2. /\ rec[r].pc = "idle" /\ DOMAIN rec' = Recorders
        /\ rec'[r].pc = "tail" /\ \A s \in Recorders \ {r} : rec'[s] = rec[s]
    BY <1>3, <1>4, <2>1 DEF Record, IInv, Call
  <2>3. \A s \in Recorders : rec'[s].pc = "save" => rec'[s] = rec[s] /\ rec[s].pc = "save"
    BY <2>2
  <2>4. UNCHANGED <<events, saved, stale, raced>>
    BY <1>4 DEF Record
  <2> QED
    BY <1>1, <1>3, <2>2, <2>3, <2>4 DEF Inductive, IsLog, IInv
<1>5. ASSUME NEW r \in Recorders, FillChain(r) PROVE Inductive'
  <2>1. PICK link \in IF events = <<>> THEN {First}
                      ELSE {After(e) : e \in {f \in Range(events) : IsTail(f)}} :
           rec' = [rec EXCEPT ![r] = Call("save", Linked(rec[r].event, link))]
    BY <1>5 DEF FillChain
  <2> DEFINE e == Linked(rec[r].event, link)
  <2>2. /\ rec[r].pc = "tail" /\ DOMAIN rec' = Recorders
        /\ rec'[r].pc = "save" /\ rec'[r].event = e
        /\ \A s \in Recorders \ {r} : rec'[s] = rec[s]
    BY <1>3, <1>5, <2>1 DEF FillChain, IInv, Call
  <2>3. UNCHANGED <<events, saved, raced>> /\ stale' = stale \ {r}
    BY <1>5 DEF FillChain
  <2>4. ASSUME ~raced PROVE Continues(e, events, Len(events) + 1)
    <3>1. InOrder(events)
      BY <1>3, <2>4 DEF IInv
    <3>2. /\ link.seq = Len(events) + 1
          /\ link.prev = IF Len(events) + 1 = 1 THEN NoHash ELSE events[Len(events)].hash
      <4>1. CASE events = <<>>
        BY <2>1, <4>1 DEF First
      <4>2. CASE events # <<>>
        <5>1. PICK f \in Range(events) : IsTail(f) /\ link = After(f)
          BY <2>1, <4>2
        <5>2. f = events[Len(events)] /\ f.seq = Len(events)
          BY <1>1, <3>1, <4>2, <5>1, FillChainContinues
        <5>3. Len(events) # 0
          BY <1>1, <4>2
        <5> QED
          BY <1>2, <5>1, <5>2, <5>3 DEF After
      <4> QED
        BY <4>1, <4>2
    <3>3. e.seq = link.seq /\ e.prev = link.prev
      BY DEF Linked
    <3>4. (Len(events) + 1) - 1 = Len(events)
      BY <1>2
    <3> QED
      BY <3>2, <3>3, <3>4 DEF Continues
  <2>7. HasFields(e)
    BY DEF Linked, HasFields
  <2> HIDE DEF e
  <2>5. \A s \in stale' : s \in Recorders /\ rec'[s].pc = "save"
    BY <1>3, <2>2, <2>3 DEF IInv
  <2>6. ~raced => \A s \in Recorders : rec'[s].pc = "save" /\ s \notin stale' =>
                     Continues(rec'[s].event, events, Len(events) + 1)
    BY <1>3, <2>2, <2>3, <2>4 DEF IInv
  <2>8. \A s \in Recorders : rec'[s].pc = "save" => HasFields(rec'[s].event)
    BY <1>3, <2>2, <2>7 DEF IInv
  <2> QED
    BY <1>1, <1>3, <2>2, <2>3, <2>5, <2>6, <2>8 DEF Inductive, IsLog, IInv
<1>6. ASSUME NEW r \in Recorders, SaveEvent(r) PROVE Inductive'
  <2>1. saved' \in 0..(Len(events) + 1)
    BY <1>2, <1>6 DEF SaveEvent
  <2> QED
    BY <1>6, <2>1, AppendInductive DEF SaveEvent
<1>7. ASSUME NEW r \in Recorders, PersistError(r) PROVE Inductive'
  <2>1. saved' \in 0..(Len(events) + 1)
    BY <1>2, <1>3, <1>7 DEF PersistError, IInv
  <2> QED
    BY <1>7, <2>1, AppendInductive DEF PersistError
<1>8. ASSUME NEW r \in Recorders, StoreError(r) PROVE Inductive'
  <2>1. /\ rec' = [rec EXCEPT ![r] = Idle] /\ DOMAIN rec = Recorders
        /\ stale' = stale \ {r} /\ UNCHANGED <<events, saved, raced>>
    BY <1>3, <1>8 DEF StoreError, IInv
  <2>2. /\ DOMAIN rec' = Recorders /\ rec'[r].pc = "idle"
        /\ \A s \in Recorders \ {r} : rec'[s] = rec[s]
    BY <2>1 DEF Idle
  <2> QED
    <3>1. IsLog'
      BY <1>1, <2>1 DEF IsLog
    <3>2. \A s \in stale' : s \in Recorders /\ rec'[s].pc = "save"
      BY <1>3, <2>1, <2>2 DEF IInv
    <3>3. \A s \in Recorders : rec'[s].pc = "save" /\ s \notin stale' =>
                                 rec'[s] = rec[s] /\ s \notin stale
      BY <2>1, <2>2
    <3> QED
      BY <1>3, <2>1, <2>2, <3>1, <3>2, <3>3 DEF Inductive, IInv
<1>9. ASSUME Restart PROVE Inductive'
  <2>1. /\ events' = [i \in 1..saved |-> Reloaded(events[i])]
        /\ saved' = saved /\ raced' = raced
        /\ rec' = [r \in Recorders |-> Idle] /\ stale' = {}
    BY <1>9 DEF Restart
  <2>2. saved \in 0..Len(events) /\ \A i \in 1..Len(events) : HasFields(events[i])
    BY <1>3 DEF IInv
  <2> DEFINE T == {Reloaded(events[i]) : i \in 1..saved}
  <2>3. events' \in Seq(T) /\ Len(events') = saved
    BY <1>2, <2>1, <2>2
  <2>4. \A i \in 1..saved : events'[i] = Reloaded(events[i]) /\ i \in 1..Len(events)
    BY <1>2, <2>1, <2>2
  <2>5. ASSUME ~raced' PROVE InOrder(events')
    <3>1. \A i \in 1..Len(events) : HasFields(events[i]) /\ Continues(events[i], events, i)
      BY <1>3, <2>1, <2>2, <2>5 DEF IInv, InOrder
    <3>2. \A i \in 1..saved : Continues(Reloaded(events[i]), events', i)
      BY <1>2, <2>1, <2>2, <3>1, ReloadInOrder
    <3> QED
      BY <2>3, <2>4, <3>2 DEF InOrder
  <2>6. \A i \in 1..Len(events') : HasFields(events'[i])
    BY <2>2, <2>3, <2>4, ReloadedKeeps
  <2>7. \A r \in Recorders : rec'[r].pc = "idle"
    BY <2>1 DEF Idle
  <2>8. saved' \in 0..Len(events') /\ DOMAIN rec' = Recorders
    BY <1>2, <2>1, <2>2, <2>3
  <2> HIDE DEF T
  <2>9. IsLog'
    BY <2>3 DEF IsLog
  <2> QED
    BY <2>1, <2>5, <2>6, <2>7, <2>8, <2>9 DEF Inductive, IInv
<1>10. CASE UNCHANGED vars
  BY <1>1, <1>3, <1>10 DEF Inductive, IsLog, IInv, vars
<1> QED
  BY <1>4, <1>5, <1>6, <1>7, <1>8, <1>9, <1>10 DEF Next

\* The invariant holds in every behaviour of Record and the three stores.
THEOREM AuditInvariant == Spec => []Inductive
  BY InitInductive, NextInductive, PTL DEF Spec

-----------------------------------------------------------------------------
(***************************************************************************)
(* The hashes, which no race disturbs: an event is hashed with the text it *)
(* has, and decoding changes that text only if it is torn.                 *)
(***************************************************************************)

\* The hash of a stored event is that of its contents, or of its contents
\* before they were decoded.
Explained(e) == HashHolds(e) \/ (driver # "memory" /\ MendedSince(e))

\* What recorders hold has been hashed as it is; what is stored is explained.
Hashed ==
    /\ driver = "memory" => saved = 0
    /\ \A r \in Recorders :
          /\ rec[r].pc \in {"tail", "save"} => rec[r].event.body \in Bodies
          /\ rec[r].pc = "save" => HashHolds(rec[r].event)
    /\ \A i \in 1..Len(events) : events[i].body \in Bodies /\ Explained(events[i])

\* Reading an event back leaves its hash explained.
LEMMA ReloadedExplained ==
    ASSUME NEW e, HasFields(e), e.body \in Bodies, HashHolds(e) \/ MendedSince(e)
    PROVE  /\ Reloaded(e).body \in Bodies
           /\ HashHolds(Reloaded(e)) \/ MendedSince(Reloaded(e))
<1> DEFINE f == Reloaded(e)
           g == Torn(f)
<1>1. /\ HasFields(f) /\ f.id = e.id /\ f.seq = e.seq /\ f.prev = e.prev /\ f.hash = e.hash
      /\ f.body = [text |-> e.body.text, torn |-> FALSE]
  BY ReloadedKeeps
<1>2. e.body = [text |-> e.body.text, torn |-> e.body.torn] /\ e.body.torn \in BOOLEAN
  BY DEF Bodies
<1>3. f.body \in Bodies /\ f.body.text = e.body.text
  BY <1>1 DEF Bodies
<1> HIDE DEF f
<1>4. /\ g.id = e.id /\ g.seq = e.seq /\ g.prev = e.prev
      /\ g.body = [text |-> e.body.text, torn |-> TRUE]
  BY <1>1, <1>3 DEF HasFields, Torn
<1> HIDE DEF g
<1>5. CASE e.body.torn
  <2>1. HashHolds(e)
    BY <1>5 DEF MendedSince
  <2>2. g.body = e.body
    BY <1>2, <1>4, <1>5
  <2>3. f.hash = EventHash(g)
    BY <1>1, <1>4, <2>1, <2>2 DEF HashHolds, EventHash
  <2> QED
    BY <1>1, <1>3, <2>3 DEF MendedSince, f, g
<1>6. CASE ~e.body.torn
  <2>1. f.body = e.body
    BY <1>1, <1>2, <1>6
  <2>2. HashHolds(e) => HashHolds(f)
    BY <1>1, <2>1 DEF HashHolds, EventHash
  <2>3. ASSUME MendedSince(e) PROVE MendedSince(f)
    <3>1. EventHash(Torn(e)) = EventHash(g)
      BY <1>4 DEF EventHash, HasFields, Torn
    <3> QED
      BY <1>1, <2>3, <3>1 DEF MendedSince, g
  <2> QED
    BY <1>3, <2>2, <2>3 DEF f
<1> QED
  BY <1>2, <1>5, <1>6

\* Storing an event that was hashed as it is.
LEMMA AppendHashed ==
    ASSUME Inductive, Hashed, NEW r \in Recorders, Append1(r), driver = "memory" => saved' = 0
    PROVE  Hashed'
<1> DEFINE e == Kept(rec[r].event)
<1>1. PICK S : events \in Seq(S)
  BY DEF Inductive, IsLog
<1>2. events \in Seq(S \cup {e})
  BY <1>1
<1>3. /\ Len(events) \in Nat /\ Len(events') = Len(events) + 1
      /\ events'[Len(events) + 1] = e /\ \A i \in 1..Len(events) : events'[i] = events[i]
      /\ driver' = driver
  BY <1>2 DEF Append1, Kept
<1>4. /\ HasFields(rec[r].event) /\ rec[r].event.body \in Bodies /\ HashHolds(rec[r].event)
      /\ DOMAIN rec = Recorders
  BY DEF Append1, Inductive, IInv, Hashed
<1>5. e.body \in Bodies /\ Explained(e)
  <2>1. CASE driver = "sql"
    BY <1>4, <2>1, ReloadedExplained DEF Kept, Explained
  <2>2. CASE driver # "sql"
    BY <1>4, <2>2 DEF Kept, Explained
  <2> QED
    BY <2>1, <2>2
<1> HIDE DEF e
<1>6. ASSUME NEW i \in 1..Len(events') PROVE events'[i].body \in Bodies /\ Explained(events'[i])
  <2>1. i \in 1..Len(events) \/ i = Len(events) + 1
    BY <1>3
  <2> QED
    BY <1>3, <1>5, <2>1 DEF Hashed
<1>7. \A s \in Recorders : rec'[s].pc = "idle" \/ rec'[s] = rec[s]
  BY <1>4 DEF Append1, Idle
<1> QED
  BY <1>3, <1>6, <1>7 DEF Hashed, Explained

\* A step of Record or of a store leaves every hash explained.
LEMMA NextHashed == Inductive /\ Hashed /\ [Next]_vars => Hashed'
<1> SUFFICES ASSUME Inductive, Hashed, [Next]_vars PROVE Hashed'
  OBVIOUS
<1>1. DOMAIN rec = Recorders /\ saved \in 0..Len(events) /\ Len(events) \in Nat
  BY DEF Inductive, IInv, IsLog
<1>2. ASSUME NEW r \in Recorders, NEW q, rec' = [rec EXCEPT ![r] = q],
             UNCHANGED <<driver, events, saved>>,
             q.pc \in {"tail", "save"} => q.event.body \in Bodies,
             q.pc = "save" => HashHolds(q.event)
      PROVE  Hashed'
  <2>1. rec'[r] = q /\ \A s \in Recorders \ {r} : rec'[s] = rec[s]
    BY <1>1, <1>2
  <2>2. ASSUME NEW s \in Recorders
        PROVE  /\ rec'[s].pc \in {"tail", "save"} => rec'[s].event.body \in Bodies
               /\ rec'[s].pc = "save" => HashHolds(rec'[s].event)
    <3>1. CASE s = r
      BY <1>2, <2>1, <3>1
    <3>2. CASE s # r
      BY <2>1, <3>2 DEF Hashed
    <3> QED
      BY <3>1, <3>2
  <2> QED
    BY <1>2, <2>2 DEF Hashed, Explained
<1>3. ASSUME NEW r \in Recorders, Record(r) PROVE Hashed'
  <2>1. PICK b \in Bodies : rec' = [rec EXCEPT ![r] = Call("tail", [id |-> clock + 1, body |-> b])]
    BY <1>3 DEF Record
  <2> DEFINE q == Call("tail", [id |-> clock + 1, body |-> b])
  <2>2. q.pc = "tail" /\ q.event.body \in Bodies
    BY DEF Call
  <2> HIDE DEF q
  <2>3. rec' = [rec EXCEPT ![r] = q] /\ UNCHANGED <<driver, events, saved>>
    BY <1>3, <2>1 DEF Record, q
  <2> QED
    BY <1>2, <2>2, <2>3
<1>4. ASSUME NEW r \in Recorders, FillChain(r) PROVE Hashed'
  <2>1. PICK link : rec' = [rec EXCEPT ![r] = Call("save", Linked(rec[r].event, link))]
    BY <1>4 DEF FillChain
  <2> DEFINE q == Call("save", Linked(rec[r].event, link))
  <2>2. rec[r].event.body \in Bodies
    BY <1>4 DEF FillChain, Hashed
  <2>3. q.pc = "save" /\ q.event.body \in Bodies /\ HashHolds(q.event)
    BY <2>2 DEF Call, Linked, HashHolds, EventHash
  <2> HIDE DEF q
  <2>4. rec' = [rec EXCEPT ![r] = q] /\ UNCHANGED <<driver, events, saved>>
    BY <1>4, <2>1 DEF FillChain, q
  <2> QED
    BY <1>2, <2>3, <2>4
<1>5. ASSUME NEW r \in Recorders, SaveEvent(r) \/ PersistError(r) PROVE Hashed'
  <2>1. Append1(r) /\ (driver = "memory" => saved' = 0)
    BY <1>5 DEF SaveEvent, PersistError
  <2> QED
    BY <2>1, AppendHashed
<1>6. ASSUME NEW r \in Recorders, StoreError(r) PROVE Hashed'
  <2>1. rec' = [rec EXCEPT ![r] = Idle] /\ UNCHANGED <<driver, events, saved>> /\ Idle.pc = "idle"
    BY <1>6 DEF StoreError, Idle
  <2> QED
    BY <1>2, <2>1
<1>7. ASSUME Restart PROVE Hashed'
  <2>1. /\ Len(events') = saved /\ saved' = saved /\ driver' = driver
        /\ \A i \in 1..saved : events'[i] = Reloaded(events[i]) /\ i \in 1..Len(events)
    BY <1>1, <1>7 DEF Restart
  <2>2. \A s \in Recorders : rec'[s].pc = "idle"
    BY <1>7 DEF Restart, Idle
  <2>3. ASSUME NEW i \in 1..saved PROVE events'[i].body \in Bodies /\ Explained(events'[i])
    <3>1. driver # "memory"
      BY <1>1 DEF Hashed
    <3>2. /\ HasFields(events[i]) /\ events[i].body \in Bodies
          /\ HashHolds(events[i]) \/ MendedSince(events[i])
      BY <2>1 DEF Inductive, IInv, Hashed, Explained
    <3> QED
      BY <2>1, <3>1, <3>2, ReloadedExplained DEF Explained
  <2> QED
    BY <2>1, <2>2, <2>3 DEF Hashed, Explained
<1>8. CASE UNCHANGED vars
  BY <1>8 DEF vars, Hashed, Explained
<1> QED
  BY <1>3, <1>4, <1>5, <1>6, <1>7, <1>8 DEF Next

\* Through every step of Record and of the three stores each hash is explained.
THEOREM HashInvariant == Spec => []Hashed
<1>1. Init => Hashed
  <2>1. Init => events = <<>> /\ saved = 0 /\ \A r \in Recorders : rec[r].pc = "idle"
    BY DEF Init, Idle
  <2> QED
    BY <2>1 DEF Hashed
<1> QED
  BY <1>1, NextHashed, AuditInvariant, PTL DEF Spec

\* The two invariants are what VerifyChain may object to.
LEMMA InductiveBreaks == Inductive /\ Hashed => BrokenOnlyByRaceOrCut
<1> SUFFICES ASSUME Inductive, Hashed PROVE BrokenOnlyByRaceOrCut
  OBVIOUS
<1>1. PICK S : events \in Seq(S)
  BY DEF Inductive, IsLog
<1>2. ~raced => LinksHold(events)
  BY <1>1, InOrderLinks DEF Inductive, IInv
<1> QED
  BY <1>1, <1>2 DEF Hashed, Explained, BrokenOnlyByRaceOrCut

\* The log that Record writes stays linked, through failed saves and restarts
\* of any store, unless a stale tail was used, and every hash is that of its
\* event unless a text cut inside a character came back from a durable store
\* (Service.Record, fillChain, sanitizeMetadata, eventHash).
THEOREM BreaksNeedRaceOrCut == Spec => []BrokenOnlyByRaceOrCut
  BY AuditInvariant, HashInvariant, InductiveBreaks, PTL

\* Without concurrency there is no race: one recorder's log is always linked,
\* and VerifyChain accepts it unless an event of it was hashed with a torn text
\* and read back.
THEOREM SequentialLogVerifies ==
    ASSUME NEW q, Recorders = {q}
    PROVE  Spec => []ChainVerifies
<1> DEFINE Quiet == stale = {} /\ raced = FALSE
<1>1. Init => Quiet
  BY DEF Init
<1>2. Quiet /\ [Next]_vars => Quiet'
  BY DEF Next, Record, FillChain, SaveEvent, PersistError, Append1, StoreError, Restart, vars
<1>3. Quiet /\ BrokenOnlyByRaceOrCut => ChainVerifies
  BY DEF BrokenOnlyByRaceOrCut, ChainVerifies, VerifyChain
<1> HIDE DEF Quiet
<1> QED
  BY <1>1, <1>2, <1>3, BreaksNeedRaceOrCut, PTL DEF Spec

-----------------------------------------------------------------------------
(***************************************************************************)
(* Race or no race, the log is a tree: the same steps with an invariant    *)
(* that does not look at raced.                                            *)
(***************************************************************************)

\* The event e continues one of the first n events of the log es, or none.
ContinuesOneOf(e, es, n) ==
    \/ e.seq = 1 /\ e.prev = NoHash
    \/ \E j \in 1..n : es[j].hash = e.prev /\ es[j].seq + 1 = e.seq

\* Every event continues one stored before it, and an event about to be saved
\* continues one that is stored already: a log only grows under a recorder
\* that is waiting, and a restart leaves none waiting.
Tree ==
    /\ \A i \in 1..Len(events) : ContinuesOneOf(events[i], events, i - 1)
    /\ \A r \in Recorders :
          rec[r].pc = "save" => ContinuesOneOf(rec[r].event, events, Len(events))

\* The tail that fillChain links to is a stored event.
LEMMA LinkedContinues ==
    ASSUME NEW S, events \in Seq(S), NEW c,
           NEW link \in IF events = <<>> THEN {First}
                        ELSE {After(e) : e \in {f \in Range(events) : IsTail(f)}}
    PROVE  ContinuesOneOf(Linked(c, link), events, Len(events))
<1> DEFINE e == Linked(c, link)
<1>1. e.seq = link.seq /\ e.prev = link.prev
  BY DEF Linked
<1>2. CASE events = <<>>
  BY <1>1, <1>2 DEF First, ContinuesOneOf
<1>3. CASE events # <<>>
  <2>1. PICK f \in Range(events) : link = After(f)
    BY <1>3
  <2>2. PICK j \in 1..Len(events) : f = events[j]
    BY DEF Range
  <2>3. events[j].hash = e.prev /\ events[j].seq + 1 = e.seq
    BY <1>1, <2>1, <2>2 DEF After
  <2> QED
    BY <1>1, <2>3 DEF ContinuesOneOf
<1> QED
  BY <1>2, <1>3

\* Saving an event that continues the log keeps the tree.
LEMMA AppendTree ==
    ASSUME Inductive, Tree, NEW r \in Recorders, Append1(r)
    PROVE  Tree'
<1> DEFINE e == Kept(rec[r].event)
<1>1. PICK S : events \in Seq(S)
  BY DEF Inductive, IsLog
<1>2. events \in Seq(S \cup {e})
  BY <1>1
<1>3. /\ Len(events) \in Nat /\ Len(events') = Len(events) + 1
      /\ \A i \in 1..Len(events) : events'[i] = events[i]
      /\ events'[Len(events) + 1] = e
  BY <1>2 DEF Append1, Kept
<1>4. ContinuesOneOf(e, events, Len(events))
  <2>1. HasFields(rec[r].event) /\ ContinuesOneOf(rec[r].event, events, Len(events))
    BY DEF Append1, Inductive, IInv, Tree
  <2>2. e.seq = rec[r].event.seq /\ e.prev = rec[r].event.prev
    BY <2>1, ReloadedKeeps DEF Kept
  <2> QED
    BY <2>1, <2>2 DEF ContinuesOneOf
<1> HIDE DEF e
<1>5. \A x, n : n \in 0..Len(events) /\ ContinuesOneOf(x, events, n) => ContinuesOneOf(x, events', n)
  BY <1>3 DEF ContinuesOneOf
<1>6. ASSUME NEW i \in 1..Len(events')
      PROVE  ContinuesOneOf(events'[i], events', i - 1)
  <2>1. CASE i \in 1..Len(events)
    <3>1. events'[i] = events[i] /\ i - 1 \in 0..Len(events)
      BY <1>3, <2>1
    <3> QED
      BY <1>5, <2>1, <3>1 DEF Tree
  <2>2. CASE i = Len(events) + 1
    <3>1. events'[i] = e /\ i - 1 = Len(events) /\ i - 1 \in 0..Len(events)
      BY <1>3, <2>2
    <3> QED
      BY <1>4, <1>5, <3>1
  <2> QED
    BY <1>3, <2>1, <2>2
<1>7. \A x : ContinuesOneOf(x, events, Len(events)) => ContinuesOneOf(x, events', Len(events'))
  BY <1>3 DEF ContinuesOneOf
<1>8. \A s \in Recorders : rec'[s].pc = "save" => rec'[s] = rec[s]
  BY DEF Append1, Inductive, IInv, Idle
<1> QED
  BY <1>6, <1>7, <1>8 DEF Tree

\* A step of Record or of a store keeps the log a tree.
LEMMA NextTree == Inductive /\ Tree /\ [Next]_vars => Tree'
<1> SUFFICES ASSUME Inductive, Tree, [Next]_vars PROVE Tree'
  OBVIOUS
<1>1. PICK S : events \in Seq(S)
  BY DEF Inductive, IsLog
<1>2. DOMAIN rec = Recorders /\ saved \in 0..Len(events) /\ Len(events) \in Nat
  BY <1>1 DEF Inductive, IInv
<1>3. ASSUME events' = events,
             \A s \in Recorders : rec'[s].pc = "save" => rec'[s] = rec[s]
      PROVE  Tree'
  BY <1>3 DEF Tree
<1>4. ASSUME NEW r \in Recorders, Record(r) PROVE Tree'
  <2>1. PICK b \in Bodies : rec' = [rec EXCEPT ![r] = Call("tail", [id |-> clock + 1, body |-> b])]
    BY <1>4 DEF Record
  <2>2. \A s \in Recorders : rec'[s].pc = "save" => rec'[s] = rec[s]
    BY <1>2, <2>1 DEF Call
  <2> QED
    BY <1>3, <1>4, <2>2 DEF Record
<1>5. ASSUME NEW r \in Recorders, FillChain(r) PROVE Tree'
  <2>1. PICK link \in IF events = <<>> THEN {First}
                      ELSE {After(e) : e \in {f \in Range(events) : IsTail(f)}} :
           rec' = [rec EXCEPT ![r] = Call("save", Linked(rec[r].event, link))]
    BY <1>5 DEF FillChain
  <2> DEFINE e == Linked(rec[r].event, link)
  <2>2. ContinuesOneOf(e, events, Len(events))
    BY <1>1, <2>1, LinkedContinues
  <2> HIDE DEF e
  <2>3. rec'[r].event = e /\ \A s \in Recorders \ {r} : rec'[s] = rec[s]
    BY <1>2, <2>1 DEF Call, e
  <2>4. events' = events
    BY <1>5 DEF FillChain
  <2> QED
    BY <2>2, <2>3, <2>4 DEF Tree
<1>6. ASSUME NEW r \in Recorders, SaveEvent(r) \/ PersistError(r) PROVE Tree'
  BY <1>6, AppendTree DEF SaveEvent, PersistError
<1>7. ASSUME NEW r \in Recorders, StoreError(r) PROVE Tree'
  <2>1. \A s \in Recorders : rec'[s].pc = "save" => rec'[s] = rec[s]
    BY <1>2, <1>7 DEF StoreError, Idle
  <2> QED
    BY <1>3, <1>7, <2>1 DEF StoreError
<1>8. ASSUME Restart PROVE Tree'
  <2>1. /\ Len(events') = saved
        /\ \A i \in 1..saved : events'[i] = Reloaded(events[i]) /\ i \in 1..Len(events)
    BY <1>1, <1>2, <1>8 DEF Restart
  <2>2. \A s \in Recorders : rec'[s].pc = "idle"
    BY <1>8 DEF Restart, Idle
  <2>3. \A i \in 1..saved : /\ events'[i].seq = events[i].seq /\ events'[i].prev = events[i].prev
                             /\ events'[i].hash = events[i].hash
    BY <2>1, ReloadedKeeps DEF Inductive, IInv
  <2>4. ASSUME NEW i \in 1..saved
        PROVE  ContinuesOneOf(events'[i], events', i - 1)
    <3>1. ContinuesOneOf(events[i], events, i - 1)
      BY <2>1 DEF Tree
    <3>2. \A j \in 1..(i - 1) : j \in 1..saved
      BY <1>2
    <3> QED
      BY <2>3, <3>1, <3>2 DEF ContinuesOneOf
  <2> QED
    BY <2>1, <2>2, <2>4 DEF Tree
<1>9. CASE UNCHANGED vars
  BY <1>3, <1>9 DEF vars
<1> QED
  BY <1>4, <1>5, <1>6, <1>7, <1>8, <1>9 DEF Next

\* The tree is kept by every step of Record and of the three stores.
THEOREM TreeInvariant == Spec => []Tree
<1>1. Init => Tree
  <2>1. Init => events = <<>> /\ \A r \in Recorders : rec[r].pc = "idle"
    BY DEF Init, Idle
  <2> QED
    BY <2>1 DEF Tree
<1> QED
  BY <1>1, NextTree, AuditInvariant, PTL DEF Spec

\* Concurrent recorders, failed writes and restarts included, every event of
\* the log continues one that was stored before it.
THEOREM LogIsTree == Spec => []EventsContinueEarlier
<1>1. Inductive /\ Tree => EventsContinueEarlier
  <2> SUFFICES ASSUME Inductive, Tree PROVE EventsContinueEarlier
    OBVIOUS
  <2>1. DOMAIN events = 1..Len(events)
    BY DEF Inductive, IsLog
  <2> QED
    BY <2>1 DEF Tree, EventsContinueEarlier, ContinuesOneOf
<1> QED
  BY <1>1, TreeInvariant, AuditInvariant, PTL

-----------------------------------------------------------------------------
(***************************************************************************)
(* What VerifyChain detects.  The chain accepted numbers Len(es) events    *)
(* with Len(es) different numbers, so it leaves no event without one.      *)
(***************************************************************************)

\* In a log whose links hold every event has a number from 1 to the length, and
\* no two have the same: VerifyChain asks only that each number has one event.
LEMMA LinkedIsNumbered ==
    ASSUME NEW S, NEW es \in Seq(S), LinksHold(es), NEW i \in DOMAIN es
    PROVE  es[i].seq \in DOMAIN es /\ SeqAt(es, es[i].seq) = {i}
<1> DEFINE D == DOMAIN es
           at == [n \in D |-> CHOOSE k \in D : SeqAt(es, n) = {k}]
<1>1. /\ Len(es) \in Nat /\ D = 1..Len(es)
  OBVIOUS
<1>2. \A n \in D : at[n] \in D /\ SeqAt(es, n) = {at[n]}
  BY DEF LinksHold
<1> HIDE DEF at
<1>3. ASSUME NEW n \in D PROVE es[at[n]].seq = n
  <2>1. at[n] \in SeqAt(es, n)
    BY <1>2
  <2> QED
    BY <2>1 DEF SeqAt
<1>4. at \in Injection(D, D)
  <2>1. at \in [D -> D]
    BY <1>2 DEF at
  <2>2. \A m, n \in D : at[m] = at[n] => m = n
    BY <1>3
  <2> QED
    BY <2>1, <2>2 DEF Injection, IsInjective
<1>5. IsFiniteSet(D)
  BY <1>1, FS_Interval
<1>6. at \in Surjection(D, D)
  BY <1>4, <1>5, FS_Injection
<1>7. PICK n \in D : at[n] = i
  BY <1>6 DEF Surjection
<1>8. es[i].seq = n /\ SeqAt(es, n) = {i}
  BY <1>2, <1>3, <1>7
<1> QED
  BY <1>7, <1>8

\* Editing what one event says is found out.
LEMMA EditDetected ==
    ASSUME NEW S, NEW es \in Seq(S), VerifyChain(es), NEW i \in DOMAIN es,
           HasFields(es[i]), NEW b, b # es[i].body
    PROVE  ~VerifyChain([es EXCEPT ![i].body = b])
<1> DEFINE fs == [es EXCEPT ![i].body = b]
<1> SUFFICES ASSUME VerifyChain(fs) PROVE FALSE
  OBVIOUS
<1>1. DOMAIN fs = DOMAIN es /\ fs[i] = [es[i] EXCEPT !.body = b]
  OBVIOUS
<1>2. fs[i].hash = es[i].hash /\ fs[i].body = b
  BY <1>1 DEF HasFields
<1> HIDE DEF fs
<1>3. es[i].hash = EventHash(es[i]) /\ fs[i].hash = EventHash(fs[i])
  BY <1>1 DEF VerifyChain, HashHolds
<1>4. EventHash(fs[i]) = EventHash(es[i])
  BY <1>2, <1>3
<1> QED
  BY <1>2, <1>4 DEF EventHash

\* Taking out an event that is not the newest is found out: the numbers up to
\* the new length are no longer all there.
LEMMA RemovalDetected ==
    ASSUME NEW S, NEW es \in Seq(S), VerifyChain(es), NEW i \in DOMAIN es,
           es[i].seq < Len(es)
    PROVE  ~VerifyChain(RemoveAt(es, i))
<1> DEFINE fs == RemoveAt(es, i)
           n == es[i].seq
<1> SUFFICES ASSUME VerifyChain(fs) PROVE FALSE
  OBVIOUS
<1>1. Len(es) \in Nat /\ DOMAIN es = 1..Len(es) /\ i \in 1..Len(es)
  OBVIOUS
<1>2. /\ Len(fs) = Len(es) - 1 /\ fs \in Seq(S)
      /\ \A k \in 1..(Len(es) - 1) : fs[k] = es[IF k < i THEN k ELSE k + 1]
  <2> DEFINE before == SubSeq(es, 1, i - 1)
             behind == SubSeq(es, i + 1, Len(es))
  <2>1. /\ before \in Seq(S) /\ Len(before) = i - 1
        /\ \A k \in 1..(i - 1) : before[k] = es[k]
    BY <1>1
  <2>2. /\ behind \in Seq(S) /\ Len(behind) = Len(es) - i
        /\ \A k \in 1..(Len(es) - i) : behind[k] = es[i + k]
    BY <1>1
  <2>3. fs = before \o behind
    BY DEF RemoveAt
  <2> HIDE DEF before, behind, fs
  <2>4. /\ fs \in Seq(S) /\ Len(fs) = (i - 1) + (Len(es) - i)
        /\ \A k \in 1..Len(fs) : fs[k] = IF k <= i - 1 THEN before[k] ELSE behind[k - (i - 1)]
    <3>1. /\ before \o behind \in Seq(S)
          /\ Len(before \o behind) = Len(before) + Len(behind)
          /\ \A k \in 1..(Len(before) + Len(behind)) :
                (before \o behind)[k] = IF k <= Len(before) THEN before[k] ELSE behind[k - Len(before)]
      BY <2>1, <2>2, ConcatProperties, Zenon
    <3> QED
      BY ONLY <2>1, <2>2, <2>3, <3>1, Zenon
  <2>5. ASSUME NEW k \in 1..(Len(es) - 1) PROVE fs[k] = es[IF k < i THEN k ELSE k + 1]
    <3>1. CASE k < i
      <4>1. k \in 1..(i - 1)
        BY <1>1, <3>1
      <4>2. fs[k] = before[k]
        BY <1>1, <2>4, <4>1
      <4> QED
        BY <2>1, <3>1, <4>1, <4>2
    <3>2. CASE ~(k < i)
      <4>1. k - (i - 1) \in 1..(Len(es) - i) /\ i + (k - (i - 1)) = k + 1
        BY <1>1, <3>2
      <4>2. fs[k] = behind[k - (i - 1)]
        BY <1>1, <2>4, <3>2
      <4> QED
        BY <2>2, <3>2, <4>1, <4>2
    <3> QED
      BY <3>1, <3>2
  <2> QED
    BY <1>1, <2>4, <2>5
<1>3. DOMAIN fs = 1..(Len(es) - 1)
  BY <1>1, <1>2
<1> HIDE DEF fs
<1>4. n \in DOMAIN es /\ SeqAt(es, n) = {i}
  BY LinkedIsNumbered DEF VerifyChain
<1> HIDE DEF n
<1>5. n \in DOMAIN fs
  BY <1>1, <1>3, <1>4 DEF n
<1>6. PICK k \in DOMAIN fs : SeqAt(fs, n) = {k}
  BY <1>5 DEF VerifyChain, LinksHold
<1>7. fs[k].seq = n
  BY <1>6 DEF SeqAt
<1>8. PICK j \in DOMAIN es : fs[k] = es[j] /\ j # i
  <2>1. (IF k < i THEN k ELSE k + 1) \in DOMAIN es \ {i}
    BY <1>1, <1>3
  <2> QED
    BY <1>2, <1>3, <2>1
<1>9. j \in SeqAt(es, n)
  BY <1>7, <1>8 DEF SeqAt
<1> QED
  BY <1>4, <1>8, <1>9

\* Whatever recorders, failures and restarts have made of the log, a log that
\* VerifyChain accepts is one in which it finds an edit, or a removal of any
\* event but the newest.
THEOREM TamperingIsDetected == Spec => []AlterationDetected
<1>1. Inductive => AlterationDetected
  <2> SUFFICES ASSUME Inductive, VerifyChain(events), NEW i \in DOMAIN events
               PROVE  /\ \A b \in Bodies \ {events[i].body} : ~VerifyChain([events EXCEPT ![i].body = b])
                      /\ events[i].seq < Len(events) => ~VerifyChain(RemoveAt(events, i))
    BY DEF AlterationDetected
  <2>1. PICK S : events \in Seq(S)
    BY DEF Inductive, IsLog
  <2>2. HasFields(events[i])
    BY <2>1 DEF Inductive, IInv
  <2>3. ASSUME NEW b \in Bodies \ {events[i].body} PROVE ~VerifyChain([events EXCEPT ![i].body = b])
    BY <2>1, <2>2, <2>3, EditDetected
  <2>4. events[i].seq < Len(events) => ~VerifyChain(RemoveAt(events, i))
    BY <2>1, RemovalDetected
  <2> QED
    BY <2>3, <2>4
<1> QED
  BY <1>1, AuditInvariant, PTL

=============================================================================
