-------------------------- MODULE ImportApplyProofs --------------------------
(***************************************************************************)
(* For every number of uploads, applies, files, rows and books: a file has *)
(* one batch, the summary of an applied batch is a complete import, and a  *)
(* batch that no two applies worked on and none gave up on is imported     *)
(* once.                                                                   *)
(*                                                                         *)
(* The inductive invariant says what a request has created at the row it   *)
(* is at, that an apply which nothing disturbed is alone with its batch,   *)
(* and that every entry of such a batch belongs to the apply at work or to *)
(* the stored summary.  As long as no two applies overlapped, the lists    *)
(* that an apply has read are the stored ones.                             *)
(***************************************************************************)
EXTENDS ImportApply, FiniteSetTheorems, TLAPS

\* The entries that an apply makes of some rows of a batch.
Imported(r, b, book, rows) ==
    {e \in Entry : e.by = r /\ e.batch = b /\ e.book = book /\ e.row \in rows}

\* What a request has created so far.
CreatedOK(r) ==
    LET q == req[r] IN
    /\ q.pc \notin {"rows", "mark", "markSave", "done", "refused"} => Created(r) = {}
    /\ q.pc = "rows" =>
          Created(r) = Imported(r, q.batch, q.book, {i \in ImportableRows(q.batch) : i < q.row})
    /\ q.pc \in {"mark", "markSave"} =>
          Created(r) = Imported(r, q.batch, q.book, ImportableRows(q.batch))

\* An apply that nothing disturbed is alone with a batch not applied yet.
AloneOK(r) ==
    LET q == req[r] IN
    q.pc \in Working /\ q.batch \notin disturbed =>
       /\ ~Applied(q.batch)
       /\ \A s \in Requests \ {r} : req[s].pc \in Working => req[s].batch # q.batch

\* Its answer, and that of a later one, is the stored summary.
AnswerOK(r) ==
    LET q == req[r] IN
    q.pc \in {"replay", "done"} /\ q.batch \in Requests \ disturbed =>
       /\ Applied(q.batch) /\ q.answer = batch[q.batch].entries
       /\ q.pc = "replay" => q.book = batch[q.batch].book

\* What a request works on.
PlaceOK(r) ==
    LET q == req[r] IN
    /\ q.row > 0
    /\ q.pc \in Working \cup {"load", "replay"} =>
          q.batch \in Requests /\ batch[q.batch] # NoBatch /\ q.book \in Books
    /\ q.pc \in {"lookup", "save"} => q.file \in Files /\ q.batch = NoBatch
    /\ batch[r] # NoBatch => q.pc \in {"done", "refused"}

RequestOK(r) == PlaceOK(r) /\ CreatedOK(r) /\ AloneOK(r) /\ AnswerOK(r)

FilesDiffer ==
    \A b, c \in Requests :
       batch[b] # NoBatch /\ batch[c] # NoBatch /\ batch[b].file = batch[c].file => b = c

\* A stored summary is the work of one apply.
AppliedOK ==
    \A b \in Requests : Applied(b) =>
       /\ batch[b].book \in Books /\ batch[b].entries \subseteq entries
       /\ \E r \in Requests : batch[b].entries = Imported(r, b, batch[b].book, ImportableRows(b))

\* The entries of a batch that nothing disturbed.
EntriesOK ==
    \A e \in entries : e.batch \notin disturbed =>
       \/ req[e.by].pc \in Working /\ req[e.by].batch = e.batch
       \/ Applied(e.batch) /\ e \in batch[e.batch].entries

\* The lists that an apply has read.
ListsOK(q) ==
    /\ q.pc \in {"groups", "categories", "references"} => q.accounts = {a.name : a \in accounts}
    /\ q.pc \in {"categories", "references"} => q.group = (groups # {})
    /\ q.pc = "references" =>
          q.categories = {c.name : c \in {d \in categories : d.book = q.book}}

ReferencesOK ==
    ~overlapped =>
       /\ \A r, s \in Requests : req[r].pc \in Working /\ req[s].pc \in Working => r = s
       /\ \A g, h \in groups : g = h
       /\ \A a, b \in accounts : a.name = b.name => a = b
       /\ \A c, d \in categories : c.name = d.name /\ c.book = d.book => c = d
       /\ \A r \in Requests : ListsOK(req[r])

IInv ==
    /\ TypeOK /\ FilesDiffer /\ AppliedOK /\ EntriesOK /\ ReferencesOK
    /\ \A r \in Requests : RequestOK(r)

-----------------------------------------------------------------------------
(* A step of one request, and what it leaves to the others.                *)

\* A step of r adds entries of its own, keeps the batches, and applies only
\* the batch that r works on.
Framed(r) ==
    /\ \A s \in Requests \ {r} : req'[s] = req[s]
    /\ entries \subseteq entries' /\ \A e \in entries' : e \in entries \/ e.by = r
    /\ \A b \in Requests : batch[b] # NoBatch => batch'[b] # NoBatch /\ batch'[b].file = batch[b].file
    /\ \A s \in Requests \ {r} : batch'[s] # NoBatch => batch[s] # NoBatch
    /\ \A b \in Requests \ disturbed' : Applied(b) => batch'[b] = batch[b]
    /\ \A b \in Requests \ disturbed' :
          Applied(b)' => Applied(b) \/ (req[r].pc \in Working /\ req[r].batch = b)
    /\ disturbed \subseteq disturbed'

\* Then the others may go on as before.
LEMMA OthersHold ==
    ASSUME IInv, NEW r \in Requests, Framed(r), AloneOK(r)', NEW s \in Requests \ {r}
    PROVE  RequestOK(s)'
<1> DEFINE q == req[s]
<1>1. RequestOK(s) /\ req'[s] = q
  BY DEF IInv, Framed
<1>2. PlaceOK(s)'
  BY <1>1 DEF RequestOK, PlaceOK, Framed
<1>3. Created(s)' = Created(s)
  BY DEF Created, Framed
<1>4. q.pc \in Working => q.batch \in Requests /\ ImportableRows(q.batch)' = ImportableRows(q.batch)
  BY <1>1 DEF RequestOK, PlaceOK, Framed, ImportableRows
<1>5. CreatedOK(s)'
  BY <1>1, <1>3, <1>4 DEF RequestOK, CreatedOK, Imported, Working
<1>6. AloneOK(s)'
  <2>1. SUFFICES ASSUME q.pc \in Working, q.batch \notin disturbed'
                 PROVE  /\ ~Applied(q.batch)'
                        /\ \A x \in Requests \ {s} : req'[x].pc \in Working => req'[x].batch # q.batch
    BY <1>1 DEF AloneOK
  <2>2. /\ q.batch \in Requests /\ ~Applied(q.batch)
        /\ \A x \in Requests \ {s} : req[x].pc \in Working => req[x].batch # q.batch
    BY <1>1, <1>4, <2>1 DEF RequestOK, AloneOK, Framed
  <2>3. ~Applied(q.batch)'
    BY <2>1, <2>2 DEF Framed
  <2>4. req'[r].pc \in Working => req'[r].batch # q.batch
    BY <1>1, <2>1 DEF AloneOK
  <2> QED
    BY <2>2, <2>3, <2>4 DEF Framed
<1>7. AnswerOK(s)'
  BY <1>1 DEF RequestOK, AnswerOK, Framed, Applied
<1> QED
  BY <1>2, <1>5, <1>6, <1>7 DEF RequestOK

\* The request that takes the step, and the others.
LEMMA Continued ==
    ASSUME TypeOK, NEW r \in Requests, NEW q \in Request, Continue(r, q)
    PROVE  /\ req' \in [Requests -> Request] /\ req'[r] = q
           /\ \A s \in Requests \ {r} : req'[s] = req[s]
  BY DEF TypeOK, Continue

\* The accounts, categories and groups are of the right type.
ReferencesTyped ==
    /\ groups \subseteq Requests
    /\ accounts \subseteq [by: Requests, name: Names]
    /\ categories \subseteq [by: Requests, book: Books, name: Names]
    /\ members \in [Books -> SUBSET Members]

\* Until two applies overlapped, one at most is at work.
LEMMA RecordedOverlaps ==
    ASSUME TypeOK, Recorded
    PROVE  /\ overlapped' \in BOOLEAN /\ (~overlapped' => ~overlapped)
           /\ ~overlapped' => \A r, s \in Requests :
                 req'[r].pc \in Working /\ req'[s].pc \in Working => r = s
<1>1. overlapped' <=> (overlapped \/ \E r, s \in Requests : r # s /\ {req'[r].pc, req'[s].pc} \subseteq Working)
  BY Zenon DEF Recorded
<1>2. overlapped' \in BOOLEAN
  BY Zenon DEF Recorded
<1> QED
  BY <1>1, <1>2

\* A step that leaves batches and entries alone.
LEMMA QuietStep ==
    ASSUME IInv, NEW r \in Requests, NEW q \in Request, Continue(r, q), Recorded,
           UNCHANGED <<batch, entries>>, ReferencesTyped',
           disturbed \subseteq disturbed', disturbed' \subseteq Requests,
           req'[r] = q => RequestOK(r)' /\ ReferencesOK',
           req[r].pc \in Working => \/ q.pc \in Working /\ q.batch = req[r].batch
                                    \/ Created(r) = {}
                                    \/ req[r].batch \in disturbed'
    PROVE  IInv'
<1>1. /\ TypeOK /\ FilesDiffer /\ AppliedOK /\ EntriesOK /\ RequestOK(r)
  BY DEF IInv
<1>2. /\ req' \in [Requests -> Request] /\ req'[r] = q
      /\ \A s \in Requests \ {r} : req'[s] = req[s]
  BY <1>1, Continued
<1>3. TypeOK'
  BY <1>1, <1>2, RecordedOverlaps DEF TypeOK, ReferencesTyped
<1>4. Framed(r)
  BY <1>2 DEF Framed, Applied
<1>5. \A s \in Requests : RequestOK(s)'
  BY <1>2, <1>4, OthersHold DEF RequestOK
<1>6. FilesDiffer' /\ AppliedOK'
  BY <1>1 DEF FilesDiffer, AppliedOK, Applied, ImportableRows, Imported
<1>7. EntriesOK'
  <2>1. SUFFICES ASSUME NEW e \in entries, e.batch \notin disturbed'
                 PROVE  \/ req'[e.by].pc \in Working /\ req'[e.by].batch = e.batch
                        \/ Applied(e.batch) /\ e \in batch[e.batch].entries
    BY DEF EntriesOK, Applied
  <2>2. e \in Entry /\ e.by \in Requests
    BY <1>1 DEF TypeOK, Entry
  <2>3. \/ req[e.by].pc \in Working /\ req[e.by].batch = e.batch
        \/ Applied(e.batch) /\ e \in batch[e.batch].entries
    BY <1>1, <2>1 DEF EntriesOK
  <2>4. CASE e.by = r
    <3>1. e \in Created(r)
      BY <2>4 DEF Created
    <3> QED
      BY <1>2, <2>1, <2>3, <2>4, <3>1
  <2>5. CASE e.by # r
    BY <1>2, <2>2, <2>3, <2>5
  <2> QED
    BY <2>4, <2>5
<1> QED
  BY <1>2, <1>3, <1>5, <1>6, <1>7 DEF IInv

\* Lists that an apply reads anew, or not at all.
LEMMA SameReferences ==
    ASSUME IInv, NEW r \in Requests, NEW q \in Request, Continue(r, q), Recorded,
           UNCHANGED <<groups, accounts, categories>>, ~overlapped => ListsOK(q)
    PROVE  ReferencesOK'
<1>1. TypeOK /\ ReferencesOK
  BY DEF IInv
<1>2. req'[r] = q /\ \A s \in Requests \ {r} : req'[s] = req[s]
  BY <1>1, Continued
<1>3. ASSUME ~overlapped, NEW s \in Requests PROVE ListsOK(req[s])'
  <2>1. ListsOK(req'[s])
    BY <1>1, <1>2, <1>3 DEF ReferencesOK
  <2> QED
    BY <2>1 DEF ListsOK
<1> QED
  BY <1>1, <1>3, RecordedOverlaps DEF ReferencesOK

\* An apply that creates what its lists lack: nobody else holds lists.
LEMMA ReferencesWritten ==
    ASSUME IInv, NEW r \in Requests, NEW q \in Request, Continue(r, q), Recorded,
           req[r].pc \in Working,
           ~overlapped' => /\ \A g, h \in groups' : g = h
                           /\ \A a, b \in accounts' : a.name = b.name => a = b
                           /\ \A c, d \in categories' : c.name = d.name /\ c.book = d.book => c = d,
           ~overlapped' /\ req'[r] = q => ListsOK(req[r])'
    PROVE  ReferencesOK'
<1>1. TypeOK /\ ReferencesOK
  BY DEF IInv
<1>2. req'[r] = q /\ \A s \in Requests \ {r} : req'[s] = req[s]
  BY <1>1, Continued
<1>3. ASSUME ~overlapped', NEW s \in Requests PROVE ListsOK(req[s])'
  <2>1. CASE s = r
    BY <1>2, <1>3, <2>1
  <2>2. CASE s # r
    <3>1. req'[s].pc \notin Working
      BY <1>1, <1>2, <1>3, <2>2, RecordedOverlaps DEF ReferencesOK
    <3> QED
      BY <3>1 DEF ListsOK, Working
  <2> QED
    BY <2>1, <2>2
<1> QED
  BY <1>1, <1>3, RecordedOverlaps DEF ReferencesOK

\* What is known of a request.
LEMMA Known ==
    ASSUME IInv, NEW r \in Requests
    PROVE  /\ req[r] \in Request /\ RequestOK(r) /\ ReferencesTyped /\ disturbed \subseteq Requests
           /\ Created(r) # {} => req[r].pc \in {"rows", "mark", "markSave", "done", "refused"}
  BY DEF IInv, TypeOK, ReferencesTyped, RequestOK, CreatedOK

\* A request that has ended.
LEMMA Ended ==
    ASSUME NEW r \in Requests, req[r] \in Request, NEW pc \in {"done", "refused"},
           NEW answer \in SUBSET Entry
    PROVE  LET q == [New EXCEPT !.pc = pc, !.batch = req[r].batch, !.answer = answer] IN
           /\ q \in Request /\ q.pc = pc /\ q.batch = req[r].batch /\ q.answer = answer /\ q.row = 1
  BY DEF New, Request, PCs

\* A request is refused: it has created nothing, or its batch is disturbed.
LEMMA RefusedStep ==
    ASSUME IInv, NEW r \in Requests, Refuse(r), Recorded, UNCHANGED <<batch, entries>>,
           ReferencesTyped', ReferencesOK', disturbed \subseteq disturbed', disturbed' \subseteq Requests,
           Created(r) = {} \/ req[r].batch \in disturbed'
    PROVE  IInv'
<1> DEFINE q == [New EXCEPT !.pc = "refused", !.batch = req[r].batch, !.answer = {}]
<1>1. q \in Request /\ q.pc = "refused" /\ q.row = 1
  BY Known, Ended
<1>2. Continue(r, q)
  BY DEF Refuse, Answer
<1> HIDE DEF q
<1>3. ASSUME req'[r] = q PROVE RequestOK(r)'
  BY <1>1, <1>3 DEF RequestOK, PlaceOK, CreatedOK, AloneOK, AnswerOK, Working
<1> QED
  BY <1>1, <1>2, <1>3, QuietStep

\* The same when it has read only.
LEMMA RefusedReading ==
    ASSUME IInv, NEW r \in Requests, Refuse(r), Recorded, UNCHANGED <<batch, ledger, disturbed>>,
           Created(r) = {} \/ req[r].batch \in disturbed
    PROVE  IInv'
<1> DEFINE q == [New EXCEPT !.pc = "refused", !.batch = req[r].batch, !.answer = {}]
<1>1. q \in Request /\ q.pc = "refused"
  BY Known, Ended
<1>2. Continue(r, q)
  BY DEF Refuse, Answer
<1>3. UNCHANGED <<groups, accounts, categories, members, entries>> /\ ReferencesTyped'
  BY Known DEF ledger, ReferencesTyped
<1> HIDE DEF q
<1>4. ReferencesOK'
  BY <1>1, <1>2, <1>3, SameReferences DEF ListsOK
<1> QED
  BY <1>3, <1>4, Known, RefusedStep

\* A request is given up after it has read or written references: if it has
\* created an entry, its batch is disturbed.
LEMMA AbortedStep ==
    ASSUME IInv, NEW r \in Requests, Running(r), Abort(r), Recorded, UNCHANGED <<batch, entries>>,
           ReferencesTyped', ReferencesOK'
    PROVE  IInv'
<1>1. /\ Refuse(r)
      /\ disturbed' = (IF Created(r) # {} THEN disturbed \cup {req[r].batch} ELSE disturbed)
  BY DEF Abort, Created
<1>2. Created(r) # {} => req[r].batch \in Requests
  BY Known DEF Running, RequestOK, PlaceOK, Working
<1> QED
  BY <1>1, <1>2, Known, RefusedStep

\* An apply at work goes on.
LEMMA WorkStep ==
    ASSUME IInv, NEW r \in Requests, NEW q \in Request, Continue(r, q), Recorded,
           req[r].pc \in Working, q.pc \in Working, q.batch = req[r].batch, q.book = req[r].book,
           q.row > 0, UNCHANGED <<batch, entries, disturbed>>, ReferencesTyped',
           req'[r] = q => CreatedOK(r)' /\ ReferencesOK'
    PROVE  IInv'
<1>1. RequestOK(r) /\ disturbed \subseteq Requests
  BY Known
<1>2. /\ req'[r] = q /\ \A s \in Requests \ {r} : req'[s] = req[s]
  BY Continued DEF IInv
<1>3. PlaceOK(r)'
  BY <1>1, <1>2 DEF RequestOK, PlaceOK, Working
<1>4. AloneOK(r)'
  BY <1>1, <1>2 DEF RequestOK, AloneOK, Applied
<1>5. AnswerOK(r)'
  BY <1>2 DEF AnswerOK, Working
<1> QED
  BY <1>1, <1>2, <1>3, <1>4, <1>5, QuietStep DEF RequestOK

\* ... before it has created an entry.
LEMMA ReadingWork ==
    ASSUME IInv, NEW r \in Requests, NEW q \in Request, Continue(r, q), Recorded,
           req[r].pc \in Working \ {"rows", "mark", "markSave"},
           q.pc \in Working \ {"rows", "mark", "markSave"},
           q.batch = req[r].batch, q.book = req[r].book, q.row > 0,
           UNCHANGED <<batch, entries, disturbed>>, ReferencesTyped', req'[r] = q => ReferencesOK'
    PROVE  IInv'
<1>1. Created(r) = {}
  BY Known DEF Working
<1>2. ASSUME req'[r] = q PROVE CreatedOK(r)'
  BY <1>1, <1>2 DEF CreatedOK, Created
<1> QED
  BY <1>2, WorkStep

-----------------------------------------------------------------------------
(* The steps of a preview.                                                 *)

\* A request arrives and has created nothing.
LEMMA ReceiveInv ==
    ASSUME IInv, NEW r \in Requests, NEW q \in Request, Receive(r, q), Recorded, q.row > 0,
           \/ q.pc = "lookup" /\ q.file \in Files /\ q.batch = NoBatch
           \/ q.pc = "load" /\ q.batch \in Requests /\ batch[q.batch] # NoBatch /\ q.book \in Books
    PROVE  IInv'
<1>1. /\ req[r].pc = "new" /\ Continue(r, q)
      /\ UNCHANGED <<batch, groups, accounts, categories, members, entries, disturbed>>
  BY DEF Receive, ledger
<1>2. RequestOK(r) /\ ReferencesTyped' /\ disturbed \subseteq Requests /\ Created(r) = {}
  BY <1>1, Known DEF ReferencesTyped
<1>3. ReferencesOK'
  BY <1>1, SameReferences DEF ListsOK
<1>4. ASSUME req'[r] = q PROVE RequestOK(r)'
  BY <1>1, <1>2, <1>4 DEF RequestOK, PlaceOK, CreatedOK, Created, AloneOK, AnswerOK, Working
<1> QED
  BY <1>1, <1>2, <1>3, <1>4, QuietStep DEF Working

\* An upload, or the apply of a batch that is there.
LEMMA RequestsArrive ==
    ASSUME IInv, NEW r \in Requests, ReceivePreview(r) \/ ReceiveApply(r), Recorded PROVE IInv'
<1>1. CASE ReceivePreview(r)
  <2>1. PICK f \in Files : Receive(r, [New EXCEPT !.pc = "lookup", !.file = f])
    BY <1>1 DEF ReceivePreview
  <2> DEFINE q == [New EXCEPT !.pc = "lookup", !.file = f]
  <2>2. q \in Request
    BY DEF New, Request, PCs
  <2>3. q.row = 1 /\ q.pc = "lookup" /\ q.file = f /\ q.batch = NoBatch
    BY DEF New
  <2> HIDE DEF q
  <2>4. q.row > 0
    BY <2>3
  <2> QED
    BY <2>1, <2>2, <2>3, <2>4, ReceiveInv DEF q
<1>2. CASE ReceiveApply(r)
  <2>1. PICK b \in Requests, book \in Books, f \in Files, mapped \in SUBSET Members :
           /\ batch[b] # NoBatch
           /\ Receive(r, [New EXCEPT !.pc = "load", !.batch = b, !.book = book, !.file = f,
                                     !.mapped = mapped])
    BY <1>2 DEF ReceiveApply
  <2> DEFINE q == [New EXCEPT !.pc = "load", !.batch = b, !.book = book, !.file = f, !.mapped = mapped]
  <2>2. q \in Request
    BY DEF New, Request, PCs
  <2>3. q.row = 1 /\ q.pc = "load" /\ q.batch = b /\ q.book = book
    BY DEF New
  <2> HIDE DEF q
  <2>4. q.row > 0
    BY <2>3
  <2> QED
    BY <2>1, <2>2, <2>3, <2>4, ReceiveInv DEF q
<1> QED
  BY <1>1, <1>2

\* A preview that was answered tells no entries.
LEMMA PreviewDone ==
    ASSUME IInv, NEW r \in Requests, req[r].pc \in {"lookup", "save"}, Answer(r, "done", {}), Recorded,
           UNCHANGED <<batch, ledger, disturbed>>
    PROVE  IInv'
<1> DEFINE q == [New EXCEPT !.pc = "done", !.batch = req[r].batch, !.answer = {}]
<1>1. q \in Request /\ q.pc = "done" /\ q.row = 1 /\ q.batch = req[r].batch /\ Continue(r, q)
  <2>1. req[r] \in Request /\ {} \in SUBSET Entry /\ Continue(r, q)
    BY Known DEF Answer
  <2> QED
    BY <2>1, Ended
<1>2. req[r].batch \notin Requests /\ ReferencesTyped /\ disturbed \subseteq Requests
  BY Known, NoBatchAssumption DEF RequestOK, PlaceOK
<1>3. UNCHANGED <<groups, accounts, categories, members, entries>> /\ ReferencesTyped'
  BY <1>2 DEF ledger, ReferencesTyped
<1> HIDE DEF q
<1>4. ReferencesOK'
  BY <1>1, <1>3, SameReferences DEF ListsOK
<1>5. ASSUME req'[r] = q PROVE RequestOK(r)'
  BY <1>1, <1>2, <1>5 DEF RequestOK, PlaceOK, CreatedOK, AloneOK, AnswerOK, Working
<1> QED
  BY <1>1, <1>2, <1>3, <1>4, <1>5, QuietStep DEF Working

\* BatchByHash
LEMMA BatchByHashInv == ASSUME IInv, NEW r \in Requests, BatchByHash(r), Recorded PROVE IInv'
<1> DEFINE q == [req[r] EXCEPT !.pc = "save"]
<1>1. req[r].pc = "lookup" /\ UNCHANGED <<batch, ledger, disturbed>>
  BY DEF BatchByHash
<1>2. ASSUME At(r, "save") PROVE IInv'
  <2>1. req[r] \in Request /\ RequestOK(r) /\ ReferencesTyped /\ disturbed \subseteq Requests /\ Created(r) = {}
    BY <1>1, Known
  <2>2. /\ q \in Request /\ q.pc = "save" /\ q.file = req[r].file /\ q.batch = req[r].batch
        /\ q.row = req[r].row /\ Continue(r, q)
    BY <1>2, <2>1 DEF At, Request, PCs
  <2>3. UNCHANGED <<groups, accounts, categories, members, entries>> /\ ReferencesTyped'
    BY <1>1, <2>1 DEF ledger, ReferencesTyped
  <2> HIDE DEF q
  <2>4. ReferencesOK'
    BY <2>2, <2>3, SameReferences DEF ListsOK
  <2>5. ASSUME req'[r] = q PROVE RequestOK(r)'
    BY <1>1, <2>1, <2>2, <2>3, <2>5 DEF RequestOK, PlaceOK, CreatedOK, Created, AloneOK, AnswerOK, Working
  <2> QED
    BY <1>1, <2>1, <2>2, <2>3, <2>4, <2>5, QuietStep DEF Working
<1> QED
  BY <1>1, <1>2, PreviewDone DEF BatchByHash

\* SaveBatchIfAbsent: a second batch of the file is not stored.
LEMMA SaveBatchIfAbsentInv ==
    ASSUME IInv, NEW r \in Requests, SaveBatchIfAbsent(r), Recorded PROVE IInv'
<1> DEFINE new == [file |-> req[r].file, status |-> "preview", book |-> NoName, entries |-> {}]
<1>1. /\ req[r].pc = "save" /\ UNCHANGED <<ledger, disturbed>>
      /\ Answer(r, "done", {}) \/ Refuse(r)
      /\ batch' = IF BatchesOf(req[r].file) # {} THEN batch ELSE [batch EXCEPT ![r] = new]
  BY DEF SaveBatchIfAbsent
<1>2. req[r] \in Request /\ RequestOK(r) /\ ReferencesTyped /\ disturbed \subseteq Requests /\ Created(r) = {}
  BY <1>1, Known
<1>3. UNCHANGED <<groups, accounts, categories, members, entries>> /\ ReferencesTyped'
  BY <1>1, <1>2 DEF ledger, ReferencesTyped
<1>4. CASE batch' = batch
  BY <1>1, <1>2, <1>4, PreviewDone, RefusedReading
<1>5. CASE BatchesOf(req[r].file) = {} /\ batch' = [batch EXCEPT ![r] = new]
  <2>1. /\ TypeOK /\ FilesDiffer /\ AppliedOK /\ EntriesOK
    BY DEF IInv
  <2>2. batch[r] = NoBatch /\ req[r].file \in Files /\ req[r].batch = NoBatch
    BY <1>1, <1>2 DEF RequestOK, PlaceOK
  <2>3. new \in Batch /\ new.file = req[r].file /\ new.status = "preview" /\ new # NoBatch
    BY <2>2, NoBatchAssumption DEF Batch
  <2> HIDE DEF new
  <2>4. /\ batch' \in [Requests -> Batch \cup {NoBatch}] /\ batch'[r] = new
        /\ \A b \in Requests \ {r} : batch'[b] = batch[b]
    BY <1>5, <2>1, <2>3 DEF TypeOK
  <2>5. PICK pc \in {"done", "refused"} :
           Continue(r, [New EXCEPT !.pc = pc, !.batch = req[r].batch, !.answer = {}])
    BY <1>1 DEF Refuse, Answer
  <2> DEFINE q == [New EXCEPT !.pc = pc, !.batch = req[r].batch, !.answer = {}]
  <2>6. q \in Request /\ q.pc = pc /\ q.batch = req[r].batch /\ q.row = 1
    <3>1. {} \in SUBSET Entry /\ pc \in {"done", "refused"} /\ req[r] \in Request
      BY <1>2, <2>5
    <3>2. q \in Request
      BY <3>1 DEF New, Request, PCs
    <3>3. q.pc = pc /\ q.batch = req[r].batch /\ q.row = 1
      BY DEF New
    <3> QED
      BY <3>2, <3>3
  <2> HIDE DEF q
  <2>7. /\ req' \in [Requests -> Request] /\ req'[r] = q
        /\ \A s \in Requests \ {r} : req'[s] = req[s]
    BY <2>1, <2>5, <2>6, Continued DEF q
  <2>8. \A b \in Requests : (Applied(b)' <=> Applied(b)) /\ (Applied(b) => batch'[b] = batch[b])
    BY <2>2, <2>3, <2>4 DEF Applied
  <2>9. Framed(r)
    BY <1>1, <1>3, <2>2, <2>4, <2>7, <2>8 DEF Framed
  <2>10. RequestOK(r)'
    BY <2>2, <2>6, <2>7, NoBatchAssumption DEF RequestOK, PlaceOK, CreatedOK, AloneOK, AnswerOK, Working
  <2>11. \A s \in Requests : RequestOK(s)'
    BY <2>9, <2>10, OthersHold DEF RequestOK
  <2>12. TypeOK'
    BY <1>1, <1>3, <2>1, <2>4, <2>7, RecordedOverlaps DEF TypeOK
  <2>13. FilesDiffer'
    BY <1>5, <2>1, <2>3, <2>4 DEF FilesDiffer, BatchesOf
  <2>14. AppliedOK'
    BY <1>3, <2>1, <2>8 DEF AppliedOK, ImportableRows, Imported
  <2>15. EntriesOK'
    <3>1. \A e \in entries : e.by \in Requests \ {r} /\ e.batch \in Requests
      BY <1>2, <2>1 DEF Created, TypeOK, Entry
    <3> QED
      BY <1>1, <1>3, <2>1, <2>7, <2>8, <3>1 DEF EntriesOK
  <2>16. ReferencesOK'
    BY <1>3, <2>5, <2>6, SameReferences DEF ListsOK, q
  <2> QED
    BY <2>11, <2>12, <2>13, <2>14, <2>15, <2>16 DEF IInv
<1> QED
  BY <1>1, <1>4, <1>5

-----------------------------------------------------------------------------
(* The steps of an apply up to its rows.                                   *)

\* The status that was read decides: a second apply that overlaps another
\* disturbs the batch.
LEMMA LoadBatchInv == ASSUME IInv, NEW r \in Requests, LoadBatch(r), Recorded PROVE IInv'
<1> DEFINE b == batch[req[r].batch]
<1>1. req[r].pc = "load" /\ UNCHANGED <<batch, ledger>>
  BY DEF LoadBatch
<1>2. /\ req[r] \in Request /\ RequestOK(r) /\ ReferencesTyped /\ disturbed \subseteq Requests
      /\ Created(r) = {}
  BY <1>1, Known
<1>3. UNCHANGED <<groups, accounts, categories, members, entries>> /\ ReferencesTyped'
  BY <1>1, <1>2 DEF ledger, ReferencesTyped
<1>4. req[r].batch \in Requests /\ b # NoBatch /\ req[r].book \in Books /\ b \in Batch
  BY <1>1, <1>2 DEF RequestOK, PlaceOK, IInv, TypeOK
<1>5. ASSUME Refuse(r), UNCHANGED disturbed PROVE IInv'
  BY <1>1, <1>2, <1>5, RefusedReading
<1>6. ASSUME b.status = "applied", b.book = req[r].book, UNCHANGED disturbed,
             Continue(r, [req[r] EXCEPT !.pc = "replay", !.answer = b.entries])
      PROVE  IInv'
  <2> DEFINE q == [req[r] EXCEPT !.pc = "replay", !.answer = b.entries]
  <2>1. b.entries \in SUBSET Entry
    BY <1>4 DEF Batch
  <2>2. /\ q \in Request /\ q.pc = "replay" /\ q.batch = req[r].batch /\ q.book = req[r].book
        /\ q.row = req[r].row /\ q.answer = b.entries /\ Continue(r, q)
    BY <1>2, <1>6, <2>1 DEF Request, PCs
  <2> HIDE DEF q
  <2>3. ReferencesOK'
    BY <1>3, <2>2, SameReferences DEF ListsOK
  <2>4. ASSUME req'[r] = q PROVE RequestOK(r)'
    BY <1>1, <1>2, <1>3, <1>4, <1>6, <2>2, <2>4
    DEF RequestOK, PlaceOK, CreatedOK, Created, AloneOK, AnswerOK, Applied, Working
  <2> QED
    BY <1>1, <1>2, <1>3, <1>6, <2>2, <2>3, <2>4, QuietStep DEF Working
<1>7. ASSUME b.status = "preview", At(r, "members"),
             disturbed' = IF Overlaps(r) THEN disturbed \cup {req[r].batch} ELSE disturbed
      PROVE  IInv'
  <2> DEFINE q == [req[r] EXCEPT !.pc = "members"]
  <2>1. /\ q \in Request /\ q.pc = "members" /\ q.batch = req[r].batch /\ q.book = req[r].book
        /\ q.row = req[r].row /\ Continue(r, q)
    BY <1>2, <1>7 DEF Request, PCs, At
  <2> HIDE DEF q
  <2>2. disturbed \subseteq disturbed' /\ disturbed' \subseteq Requests
    BY <1>2, <1>4, <1>7
  <2>3. ReferencesOK'
    BY <1>3, <2>1, SameReferences DEF ListsOK
  <2>4. req'[r] = q /\ \A s \in Requests \ {r} : req'[s] = req[s]
    BY <2>1, Continued DEF IInv
  <2>5. AloneOK(r)'
    <3>1. req[r].batch \notin disturbed' => ~Overlaps(r)
      BY <1>7
    <3> QED
      BY <1>1, <1>7, <2>1, <2>4, <3>1 DEF AloneOK, Applied, Overlaps
  <2>6. PlaceOK(r)' /\ CreatedOK(r)' /\ AnswerOK(r)'
    BY <1>1, <1>2, <1>3, <1>4, <2>1, <2>4 DEF RequestOK, PlaceOK, CreatedOK, Created, AnswerOK, Working
  <2> QED
    BY <1>1, <1>2, <1>3, <2>1, <2>2, <2>3, <2>5, <2>6, QuietStep DEF Working, RequestOK
<1> QED
  BY <1>5, <1>6, <1>7 DEF LoadBatch

\* importEntriesByIDs finds all the entries of the summary.
LEMMA ReplayInv == ASSUME IInv, NEW r \in Requests, Replay(r), Recorded PROVE IInv'
<1> DEFINE found == {e \in entries : e \in req[r].answer /\ e.book = req[r].book}
           q == [New EXCEPT !.pc = "done", !.batch = req[r].batch, !.answer = found]
<1>1. req[r].pc = "replay" /\ UNCHANGED <<batch, ledger, disturbed>> /\ Continue(r, q)
  BY DEF Replay, Answer
<1>2. /\ req[r] \in Request /\ RequestOK(r) /\ ReferencesTyped /\ disturbed \subseteq Requests
      /\ Created(r) = {}
  BY <1>1, Known
<1>3. UNCHANGED <<groups, accounts, categories, members, entries>> /\ ReferencesTyped'
  BY <1>1, <1>2 DEF ledger, ReferencesTyped
<1>4. q \in Request /\ q.pc = "done" /\ q.row = 1 /\ q.batch = req[r].batch /\ q.answer = found
  <2>1. found \in SUBSET Entry
    BY DEF IInv, TypeOK
  <2> HIDE DEF found
  <2> QED
    BY <1>2, <2>1, Ended
<1>5. ASSUME req[r].batch \in Requests \ disturbed
      PROVE  Applied(req[r].batch) /\ found = batch[req[r].batch].entries
  <2>1. /\ Applied(req[r].batch) /\ req[r].answer = batch[req[r].batch].entries
        /\ req[r].book = batch[req[r].batch].book
    BY <1>1, <1>2, <1>5 DEF RequestOK, AnswerOK
  <2>2. /\ req[r].answer \subseteq entries /\ \A e \in req[r].answer : e.book = req[r].book
    BY <1>5, <2>1 DEF IInv, AppliedOK, Imported
  <2> QED
    BY <2>1, <2>2
<1> HIDE DEF q, found
<1>6. ReferencesOK'
  BY <1>1, <1>3, <1>4, SameReferences DEF ListsOK
<1>7. ASSUME req'[r] = q PROVE RequestOK(r)'
  BY <1>1, <1>4, <1>5, <1>7 DEF RequestOK, PlaceOK, CreatedOK, AloneOK, AnswerOK, Applied, Working
<1> QED
  BY <1>1, <1>2, <1>3, <1>4, <1>6, <1>7, QuietStep DEF Working

\* The rows of the batch that an apply works on.
LEMMA RowsKnown ==
    ASSUME IInv, NEW r \in Requests, req[r].pc \in Working
    PROVE  /\ Rows(r) \in Seq(ImportRow) /\ Len(Rows(r)) \in Nat /\ req[r].row \in Nat
           /\ DOMAIN Rows(r) = 1..Len(Rows(r)) /\ DOMAIN Rows(r) \subseteq RowNumbers
           /\ ~PastRows(r) => req[r].row \in DOMAIN Rows(r) /\ Row(r) \in ImportRow
           /\ PastRows(r) => \A i \in DOMAIN Rows(r) : i < req[r].row
           /\ ImportableRows(req[r].batch) = {i \in DOMAIN Rows(r) : Importable(Rows(r)[i])}
           /\ req[r].batch \in Requests /\ req[r].book \in Books /\ req[r] \in Request /\ req[r].row > 0
<1>1. /\ req[r] \in Request /\ req[r].batch \in Requests /\ batch[req[r].batch] # NoBatch
      /\ req[r].book \in Books /\ req[r].row > 0
  BY Known DEF RequestOK, PlaceOK
<1>2. batch[req[r].batch].file \in Files
  BY <1>1 DEF IInv, TypeOK, Batch
<1>3. Rows(r) \in Seq(ImportRow) /\ DOMAIN Rows(r) \subseteq RowNumbers
  BY <1>2, ImportAssumption DEF Rows, RowNumbers
<1>4. req[r].row \in Nat
  BY <1>1 DEF Request
<1>5. ImportableRows(req[r].batch) = {i \in DOMAIN Rows(r) : Importable(Rows(r)[i])}
  BY DEF ImportableRows, Rows
<1> HIDE DEF Rows
<1>6. Len(Rows(r)) \in Nat /\ DOMAIN Rows(r) = 1..Len(Rows(r))
  BY <1>3
<1>7. ~PastRows(r) => req[r].row \in DOMAIN Rows(r) /\ Row(r) \in ImportRow
  BY <1>1, <1>3, <1>4, <1>6 DEF PastRows, Row
<1>8. PastRows(r) => \A i \in DOMAIN Rows(r) : i < req[r].row
  BY <1>4, <1>6 DEF PastRows
<1> QED
  BY <1>1, <1>3, <1>4, <1>5, <1>6, <1>7, <1>8

\* A request that is refused holds no lists.
LEMMA AbortedReferences ==
    ASSUME IInv, NEW r \in Requests, Abort(r), Recorded,
           \/ UNCHANGED <<groups, accounts, categories>>
           \/ /\ req[r].pc \in Working
              /\ ~overlapped' => /\ \A g, h \in groups' : g = h
                                 /\ \A a, b \in accounts' : a.name = b.name => a = b
                                 /\ \A c, d \in categories' : c.name = d.name /\ c.book = d.book => c = d
    PROVE  ReferencesOK'
<1> DEFINE q == [New EXCEPT !.pc = "refused", !.batch = req[r].batch, !.answer = {}]
<1>1. q \in Request /\ q.pc = "refused"
  BY Known, Ended
<1>2. Continue(r, q)
  BY DEF Abort, Refuse, Answer
<1> HIDE DEF q
<1>3. req'[r] = q => ListsOK(req[r])'
  BY <1>1 DEF ListsOK
<1>4. ListsOK(q)
  BY <1>1 DEF ListsOK
<1> QED
  BY <1>1, <1>2, <1>3, <1>4, SameReferences, ReferencesWritten

\* An apply moves to the next row, or back to the first one.
LEMMA RowMoves ==
    ASSUME NEW q \in Request, NEW pc \in PCs
    PROVE  /\ NextRow(q) \in Request /\ NextRow(q).pc = q.pc /\ NextRow(q).batch = q.batch
           /\ NextRow(q).book = q.book /\ NextRow(q).row = q.row + 1 /\ q.row \in Nat
           /\ NextRow(q).accounts = q.accounts /\ NextRow(q).categories = q.categories
           /\ NextRow(q).group = q.group
           /\ Restart(q, pc) \in Request /\ Restart(q, pc).pc = pc /\ Restart(q, pc).batch = q.batch
           /\ Restart(q, pc).book = q.book /\ Restart(q, pc).row = 1
<1>1. q.row \in Nat
  BY DEF Request
<1>2. /\ NextRow(q) \in Request /\ NextRow(q).pc = q.pc /\ NextRow(q).batch = q.batch
      /\ NextRow(q).book = q.book /\ NextRow(q).row = q.row + 1
      /\ NextRow(q).accounts = q.accounts /\ NextRow(q).categories = q.categories
      /\ NextRow(q).group = q.group
  BY <1>1 DEF NextRow, Request
<1>3. /\ Restart(q, pc) \in Request /\ Restart(q, pc).pc = pc /\ Restart(q, pc).batch = q.batch
      /\ Restart(q, pc).book = q.book /\ Restart(q, pc).row = 1
  BY DEF Restart, Request
<1> QED
  BY <1>1, <1>2, <1>3

\* resolveWacaiMemberMappings
LEMMA ResolveMemberInv == ASSUME IInv, NEW r \in Requests, ResolveMember(r), Recorded PROVE IInv'
<1>1. req[r].pc = "members" /\ UNCHANGED <<batch, groups, accounts, categories>>
  BY DEF ResolveMember
<1>2. /\ req[r] \in Request /\ ReferencesTyped /\ Created(r) = {} /\ req[r].row > 0
      /\ req[r].book \in Books /\ req[r].row \in Nat
  BY <1>1, Known, RowsKnown DEF Working
<1>3. ASSUME NEW q \in {Restart(req[r], "accounts"), NextRow(req[r])}
      PROVE  /\ q \in Request /\ q.pc \in {"members", "accounts"} /\ q.batch = req[r].batch
             /\ q.book = req[r].book /\ q.row > 0
  BY <1>1, <1>2, <1>3, RowMoves DEF PCs
<1>4. ASSUME NEW q \in {Restart(req[r], "accounts"), NextRow(req[r])}, Continue(r, q),
             UNCHANGED <<entries, disturbed>>, ReferencesTyped'
      PROVE  IInv'
  <2>1. ListsOK(q)
    BY <1>3 DEF ListsOK
  <2>2. ReferencesOK'
    BY <1>1, <1>3, <1>4, <2>1, SameReferences
  <2> QED
    BY <1>1, <1>3, <1>4, <2>2, ReadingWork DEF Working
<1>5. ASSUME UNCHANGED members PROVE ReferencesTyped'
  BY <1>1, <1>2, <1>5 DEF ReferencesTyped
<1>6. ASSUME ~PastRows(r), Row(r).member \in req[r].mapped, UNCHANGED entries,
             members' = [members EXCEPT ![req[r].book] = @ \cup {Row(r).member}],
             AfterWrite(r, NextRow(req[r]))
      PROVE  IInv'
  <2>1. req[r].mapped \subseteq Members
    BY <1>2 DEF Request
  <2>2. ReferencesTyped'
    BY <1>1, <1>2, <1>6, <2>1 DEF ReferencesTyped
  <2>3. ASSUME Abort(r) PROVE IInv'
    BY <1>1, <1>6, <2>2, <2>3, AbortedStep, AbortedReferences DEF Running
  <2> QED
    BY <1>4, <1>6, <2>2, <2>3 DEF AfterWrite
<1>7. ASSUME Refuse(r), UNCHANGED <<members, disturbed, entries>> PROVE IInv'
  BY <1>1, <1>2, <1>7, RefusedReading DEF ledger
<1> QED
  BY <1>4, <1>5, <1>6, <1>7 DEF ResolveMember

\* What the lists of an apply are when nothing overlapped.
LEMMA ListsKnown ==
    ASSUME IInv, NEW r \in Requests, ~overlapped
    PROVE  /\ ListsOK(req[r])
           /\ \A g, h \in groups : g = h
           /\ \A a, b \in accounts : a.name = b.name => a = b
           /\ \A c, d \in categories : c.name = d.name /\ c.book = d.book => c = d
  BY DEF IInv, ReferencesOK

\* ensureWacaiImportReferences reads the three lists.
LEMMA ListsInv ==
    ASSUME IInv, NEW r \in Requests, Recorded,
           ListAccounts(r) \/ ListAccountGroups(r) \/ ListCategories(r)
    PROVE  IInv'
<1>1. /\ req[r].pc \in {"accounts", "groups", "categories"}
      /\ UNCHANGED <<batch, groups, accounts, categories, members, entries, disturbed>>
  BY DEF ListAccounts, ListAccountGroups, ListCategories, ledger
<1>2. req[r] \in Request /\ ReferencesTyped /\ req[r].row > 0 /\ ReferencesTyped'
  BY <1>1, Known, RowsKnown DEF Working, ReferencesTyped
<1>3. ASSUME NEW q \in Request, Continue(r, q), q.pc \in {"groups", "categories", "references"},
             q.batch = req[r].batch, q.book = req[r].book, q.row = req[r].row,
             ~overlapped => ListsOK(q)
      PROVE  IInv'
  <2>1. ReferencesOK'
    BY <1>1, <1>3, SameReferences
  <2> QED
    BY <1>1, <1>2, <1>3, <2>1, ReadingWork DEF Working
<1>4. CASE ListAccounts(r)
  <2> DEFINE names == {a.name : a \in accounts}
             q == [req[r] EXCEPT !.pc = "groups", !.accounts = names]
  <2>1. names \in SUBSET Names
    BY <1>2 DEF ReferencesTyped
  <2>2. Continue(r, q)
    BY <1>4 DEF ListAccounts
  <2> HIDE DEF names
  <2>3. /\ q \in Request /\ q.pc = "groups" /\ q.batch = req[r].batch /\ q.book = req[r].book
        /\ q.row = req[r].row /\ q.accounts = names
    BY <1>2, <2>1 DEF Request, PCs
  <2> HIDE DEF q
  <2>4. ListsOK(q)
    BY <2>3 DEF ListsOK, names
  <2> QED
    BY <1>3, <2>2, <2>3, <2>4
<1>5. CASE ListAccountGroups(r)
  <2> DEFINE q == [req[r] EXCEPT !.pc = "categories", !.group = groups # {}]
  <2>1. req[r].pc = "groups" /\ Continue(r, q)
    BY <1>5 DEF ListAccountGroups
  <2>2. /\ q \in Request /\ q.pc = "categories" /\ q.batch = req[r].batch /\ q.book = req[r].book
        /\ q.row = req[r].row /\ q.accounts = req[r].accounts /\ q.group = (groups # {})
    BY <1>2 DEF Request, PCs
  <2> HIDE DEF q
  <2>3. ~overlapped => ListsOK(q)
    BY <2>1, <2>2, ListsKnown DEF ListsOK
  <2> QED
    BY <1>3, <2>1, <2>2, <2>3
<1>6. CASE ListCategories(r)
  <2> DEFINE names == {c.name : c \in {d \in categories : d.book = req[r].book}}
             q == [req[r] EXCEPT !.pc = "references", !.categories = names]
  <2>1. req[r].pc = "categories" /\ Continue(r, q) /\ names \in SUBSET Names
    BY <1>2, <1>6 DEF ListCategories, ReferencesTyped
  <2> HIDE DEF names
  <2>2. /\ q \in Request /\ q.pc = "references" /\ q.batch = req[r].batch /\ q.book = req[r].book
        /\ q.row = req[r].row /\ q.accounts = req[r].accounts /\ q.group = req[r].group
        /\ q.categories = names
    BY <1>2, <2>1 DEF Request, PCs
  <2> HIDE DEF q
  <2>3. ~overlapped => ListsOK(q)
    BY <2>1, <2>2, ListsKnown DEF ListsOK, names
  <2> QED
    BY <1>3, <2>1, <2>2, <2>3
<1> QED
  BY <1>4, <1>5, <1>6

\* A reference is created and noted in the list, or the apply is given up.
LEMMA ReferenceCreated ==
    ASSUME IInv, NEW r \in Requests, NEW q \in Request, AfterWrite(r, q), Recorded,
           req[r].pc = "references", q.pc = "references", q.batch = req[r].batch,
           q.book = req[r].book, q.row = req[r].row, UNCHANGED <<batch, entries>>, ReferencesTyped',
           ~overlapped => /\ \A g, h \in groups' : g = h
                          /\ \A a, b \in accounts' : a.name = b.name => a = b
                          /\ \A c, d \in categories' : c.name = d.name /\ c.book = d.book => c = d,
           ~overlapped /\ req'[r] = q => ListsOK(req[r])'
    PROVE  IInv'
<1>1. ~overlapped' => ~overlapped
  BY RecordedOverlaps DEF IInv
<1>2. CASE Continue(r, q) /\ UNCHANGED disturbed
  <2>1. ReferencesOK'
    BY <1>1, <1>2, ReferencesWritten DEF Working
  <2>2. q.row > 0
    BY RowsKnown DEF Working
  <2> QED
    BY <1>2, <2>1, <2>2, ReadingWork DEF Working
<1>3. CASE Abort(r)
  <2>1. ReferencesOK'
    BY <1>1, <1>3, AbortedReferences DEF Working
  <2> QED
    BY <1>3, <2>1, AbortedStep DEF Running
<1> QED
  BY <1>2, <1>3 DEF AfterWrite

\* The import group, if the list had none.
LEMMA CreateAccountGroupInv ==
    ASSUME IInv, NEW r \in Requests, CreateAccountGroup(r), Recorded PROVE IInv'
<1> DEFINE q == [req[r] EXCEPT !.group = TRUE]
<1>1. /\ req[r].pc = "references" /\ ~req[r].group /\ groups' = groups \cup {r}
      /\ UNCHANGED <<batch, accounts, categories, members, entries>> /\ AfterWrite(r, q)
  BY DEF CreateAccountGroup, MissingAccount
<1>2. req[r] \in Request /\ ReferencesTyped
  BY Known
<1>3. /\ q \in Request /\ q.pc = "references" /\ q.batch = req[r].batch /\ q.book = req[r].book
      /\ q.row = req[r].row /\ q.accounts = req[r].accounts /\ q.categories = req[r].categories
      /\ q.group = TRUE
  BY <1>1, <1>2 DEF Request
<1> HIDE DEF q
<1>4. ReferencesTyped'
  BY <1>1, <1>2 DEF ReferencesTyped
<1>5. ASSUME ~overlapped PROVE groups = {}
  BY <1>1, <1>5, ListsKnown DEF ListsOK
<1>6. ASSUME ~overlapped, req'[r] = q PROVE ListsOK(req[r])'
  <2>1. ListsOK(req[r]) /\ r \in groups'
    BY <1>1, <1>6, ListsKnown
  <2>2. (groups' # {}) = TRUE
    BY <2>1
  <2> QED
    BY <1>1, <1>3, <1>6, <2>1, <2>2 DEF ListsOK
<1>7. ASSUME ~overlapped
      PROVE  /\ \A g, h \in groups' : g = h
             /\ \A a, b \in accounts' : a.name = b.name => a = b
             /\ \A c, d \in categories' : c.name = d.name /\ c.book = d.book => c = d
  BY <1>1, <1>5, <1>7, ListsKnown
<1> QED
  BY <1>1, <1>3, <1>4, <1>6, <1>7, ReferenceCreated

\* An account that the list lacks.
LEMMA CreateAccountInv == ASSUME IInv, NEW r \in Requests, CreateAccount(r), Recorded PROVE IInv'
<1> DEFINE name == Row(r).account
           new == [by |-> r, name |-> name]
           q == [req[r] EXCEPT !.accounts = @ \cup {name}]
<1>1. /\ req[r].pc = "references" /\ ~PastRows(r) /\ name \notin req[r].accounts
      /\ accounts' = accounts \cup {new}
      /\ UNCHANGED <<batch, groups, categories, members, entries>> /\ AfterWrite(r, q)
  BY DEF CreateAccount, MissingAccount
<1>2. req[r] \in Request /\ ReferencesTyped
  BY Known
<1>3. name \in Names
  BY <1>1, RowsKnown DEF Working, ImportRow
<1> HIDE DEF name
<1>4. /\ q \in Request /\ q.pc = "references" /\ q.batch = req[r].batch /\ q.book = req[r].book
      /\ q.row = req[r].row /\ q.accounts = req[r].accounts \cup {name}
      /\ q.categories = req[r].categories /\ q.group = req[r].group
  BY <1>1, <1>2, <1>3 DEF Request
<1>5. new \in [by: Requests, name: Names] /\ new.name = name
  BY <1>3
<1> HIDE DEF q, new
<1>6. ReferencesTyped'
  BY <1>1, <1>2, <1>5 DEF ReferencesTyped
<1>7. ASSUME ~overlapped PROVE \A a \in accounts : a.name # name
  BY <1>1, <1>7, ListsKnown DEF ListsOK
<1>8. ASSUME ~overlapped
      PROVE  /\ \A g, h \in groups' : g = h
             /\ \A a, b \in accounts' : a.name = b.name => a = b
             /\ \A c, d \in categories' : c.name = d.name /\ c.book = d.book => c = d
  <2>1. /\ \A g, h \in groups : g = h
        /\ \A a, b \in accounts : a.name = b.name => a = b
        /\ \A c, d \in categories : c.name = d.name /\ c.book = d.book => c = d
    BY <1>8, ListsKnown
  <2> QED
    BY <1>1, <1>5, <1>7, <1>8, <2>1
<1>9. ASSUME ~overlapped, req'[r] = q PROVE ListsOK(req[r])'
  <2>1. ListsOK(req[r])
    BY <1>9, ListsKnown
  <2>2. {a.name : a \in accounts'} = {a.name : a \in accounts} \cup {name}
    BY <1>1, <1>5
  <2> QED
    BY <1>1, <1>4, <1>9, <2>1, <2>2 DEF ListsOK
<1> QED
  BY <1>1, <1>4, <1>6, <1>8, <1>9, ReferenceCreated

\* A category that the list of the book lacks.
LEMMA CreateCategoryInv == ASSUME IInv, NEW r \in Requests, CreateCategory(r), Recorded PROVE IInv'
<1> DEFINE name == Row(r).category
           new == [by |-> r, book |-> req[r].book, name |-> name]
           q == [req[r] EXCEPT !.categories = @ \cup {name}]
<1>1. /\ req[r].pc = "references" /\ ~PastRows(r) /\ name \notin req[r].categories
      /\ categories' = categories \cup {new}
      /\ UNCHANGED <<batch, groups, accounts, members, entries>> /\ AfterWrite(r, q)
  BY DEF CreateCategory, MissingCategory
<1>2. req[r] \in Request /\ ReferencesTyped
  BY Known
<1>3. name \in Names /\ req[r].book \in Books
  BY <1>1, RowsKnown DEF Working, ImportRow
<1> HIDE DEF name
<1>4. /\ q \in Request /\ q.pc = "references" /\ q.batch = req[r].batch /\ q.book = req[r].book
      /\ q.row = req[r].row /\ q.categories = req[r].categories \cup {name}
      /\ q.accounts = req[r].accounts /\ q.group = req[r].group
  BY <1>1, <1>2, <1>3 DEF Request
<1>5. /\ new \in [by: Requests, book: Books, name: Names] /\ new.name = name
      /\ new.book = req[r].book
  BY <1>3
<1> HIDE DEF q, new
<1>6. ReferencesTyped'
  BY <1>1, <1>2, <1>5 DEF ReferencesTyped
<1>7. ASSUME ~overlapped PROVE \A c \in categories : c.book = req[r].book => c.name # name
  BY <1>1, <1>7, ListsKnown DEF ListsOK
<1>8. ASSUME ~overlapped
      PROVE  /\ \A g, h \in groups' : g = h
             /\ \A a, b \in accounts' : a.name = b.name => a = b
             /\ \A c, d \in categories' : c.name = d.name /\ c.book = d.book => c = d
  <2>1. /\ \A g, h \in groups : g = h
        /\ \A a, b \in accounts : a.name = b.name => a = b
        /\ \A c, d \in categories : c.name = d.name /\ c.book = d.book => c = d
    BY <1>8, ListsKnown
  <2> QED
    BY <1>1, <1>5, <1>7, <1>8, <2>1
<1>9. ASSUME ~overlapped, req'[r] = q PROVE ListsOK(req[r])'
  <2>1. ListsOK(req[r])
    BY <1>9, ListsKnown
  <2>2. {c.name : c \in {d \in categories' : d.book = req[r].book}}
           = {c.name : c \in {d \in categories : d.book = req[r].book}} \cup {name}
    BY <1>1, <1>5
  <2> QED
    BY <1>1, <1>4, <1>9, <2>1, <2>2 DEF ListsOK
<1> QED
  BY <1>1, <1>4, <1>6, <1>8, <1>9, ReferenceCreated

\* An apply that goes on among its rows or to the mark holds no lists.
LEMMA RowsWork ==
    ASSUME IInv, NEW r \in Requests, NEW q \in Request, Continue(r, q), Recorded,
           req[r].pc \in {"references", "rows", "mark"}, q.pc \in {"rows", "mark", "markSave"},
           q.batch = req[r].batch, q.book = req[r].book, q.row > 0,
           UNCHANGED <<batch, groups, accounts, categories, members, entries, disturbed>>,
           \/ /\ q.pc = "rows"
              /\ Created(r) = Imported(r, q.batch, q.book, {i \in ImportableRows(q.batch) : i < q.row})
           \/ /\ q.pc # "rows" /\ Created(r) = Imported(r, q.batch, q.book, ImportableRows(q.batch))
    PROVE  IInv'
<1>1. ReferencesTyped'
  BY Known DEF ReferencesTyped
<1>2. ReferencesOK'
  BY SameReferences DEF ListsOK
<1>3. ASSUME req'[r] = q PROVE CreatedOK(r)'
  <2>1. ImportableRows(q.batch)' = ImportableRows(q.batch) /\ Created(r)' = Created(r)
    BY DEF ImportableRows, Created
  <2> QED
    BY <1>3, <2>1 DEF CreatedOK, Imported
<1> QED
  BY <1>1, <1>2, <1>3, WorkStep DEF Working

\* The references of a row are there; before the first row nothing is imported.
LEMMA ReferencesReadyInv ==
    ASSUME IInv, NEW r \in Requests, ReferencesReady(r), Recorded PROVE IInv'
<1> DEFINE q == IF PastRows(r) THEN Restart(req[r], "rows") ELSE NextRow(req[r])
<1>1. /\ req[r].pc = "references" /\ Continue(r, q)
      /\ UNCHANGED <<batch, groups, accounts, categories, members, entries, disturbed>>
  BY DEF ReferencesReady, ledger
<1>2. req[r] \in Request /\ ReferencesTyped /\ Created(r) = {}
  BY <1>1, Known
<1>3. ReferencesTyped'
  BY <1>1, <1>2 DEF ReferencesTyped
<1>4. CASE PastRows(r)
  <2>1. /\ q \in Request /\ q.pc = "rows" /\ q.batch = req[r].batch /\ q.book = req[r].book
        /\ q.row = 1
    BY <1>2, <1>4, RowMoves DEF PCs
  <2> HIDE DEF q
  <2>2. \A i \in ImportableRows(req[r].batch) : ~(i < 1)
    BY <1>1, RowsKnown DEF Working
  <2>3. Imported(r, q.batch, q.book, {i \in ImportableRows(q.batch) : i < q.row}) = {}
    BY <2>1, <2>2 DEF Imported
  <2>4. /\ Created(r) = Imported(r, q.batch, q.book, {i \in ImportableRows(q.batch) : i < q.row})
        /\ q.row > 0
    BY <1>2, <2>1, <2>3
  <2> QED
    BY <1>1, <2>1, <2>4, RowsWork
<1>5. CASE ~PastRows(r)
  <2>1. /\ q \in Request /\ q.pc = "references" /\ q.batch = req[r].batch /\ q.book = req[r].book
        /\ q.row > 0 /\ q.accounts = req[r].accounts /\ q.categories = req[r].categories
        /\ q.group = req[r].group
    BY <1>1, <1>2, <1>5, RowMoves DEF PCs
  <2> HIDE DEF q
  <2>2. ~overlapped => ListsOK(q)
    BY <1>1, <2>1, ListsKnown DEF ListsOK
  <2>3. ReferencesOK'
    BY <1>1, <2>1, <2>2, SameReferences
  <2> QED
    BY <1>1, <1>3, <2>1, <2>3, ReadingWork DEF Working
<1> QED
  BY <1>4, <1>5

-----------------------------------------------------------------------------
(* The rows, and the batch that is marked.                                 *)

\* Entries that agree in everything are one.
LEMMA SameEntry ==
    ASSUME NEW e \in Entry, NEW d \in Entry, e.by = d.by, e.batch = d.batch, e.book = d.book,
           e.row = d.row
    PROVE  e = d
  BY DEF Entry

\* An entry of the next row is created, and the apply goes on or is given up.
LEMMA EntryAdded ==
    ASSUME IInv, NEW r \in Requests, NEW q \in Request, Continue(r, q), Recorded,
           req[r].pc = "rows", ~PastRows(r), Importable(Row(r)),
           NEW new \in Entry, new.by = r, new.batch = req[r].batch, new.book = req[r].book,
           new.row = req[r].row, entries' = entries \cup {new},
           UNCHANGED <<batch, groups, accounts, categories, members>>,
           \/ /\ q.pc = "rows" /\ q.batch = req[r].batch /\ q.book = req[r].book
              /\ q.row = req[r].row + 1 /\ UNCHANGED disturbed
           \/ q.pc = "refused" /\ q.row = 1 /\ disturbed' = disturbed \cup {req[r].batch}
    PROVE  IInv'
<1> DEFINE B == req[r].batch
           K == req[r].book
           R == ImportableRows(B)
<1>1. /\ TypeOK /\ FilesDiffer /\ AppliedOK /\ EntriesOK /\ RequestOK(r)
  BY DEF IInv
<1>2. /\ req' \in [Requests -> Request] /\ req'[r] = q
      /\ \A s \in Requests \ {r} : req'[s] = req[s]
  BY <1>1, Continued
<1>3. /\ B \in Requests /\ K \in Books /\ req[r].row \in Nat /\ req[r].row > 0 /\ req[r].row \in R
      /\ \A i \in R : i \in Nat
  <2>1. req[r].pc \in Working
    BY DEF Working
  <2>2. /\ B \in Requests /\ K \in Books /\ req[r].row \in Nat /\ req[r].row > 0
        /\ R = {i \in DOMAIN Rows(r) : Importable(Rows(r)[i])}
        /\ DOMAIN Rows(r) = 1..Len(Rows(r)) /\ req[r].row \in DOMAIN Rows(r)
    BY <2>1, RowsKnown
  <2>3. Importable(Rows(r)[req[r].row])
    BY DEF Row
  <2> HIDE DEF R
  <2> QED
    BY <2>2, <2>3
<1>4. TypeOK'
  BY <1>1, <1>2, <1>3, RecordedOverlaps DEF TypeOK
<1>5. \A b \in Requests : batch'[b] = batch[b] /\ (Applied(b)' <=> Applied(b))
  BY DEF Applied
<1>6. Framed(r)
  BY <1>2, <1>5 DEF Framed
<1>7. CreatedOK(r)'
  <2>1. CASE q.pc = "refused"
    BY <1>2, <2>1 DEF CreatedOK
  <2>2. CASE q.pc = "rows" /\ q.batch = B /\ q.book = K /\ q.row = req[r].row + 1
    <3>1. Created(r) = Imported(r, B, K, {i \in R : i < req[r].row})
      BY <1>1 DEF RequestOK, CreatedOK
    <3>2. Created(r)' = Created(r) \cup {new}
      BY DEF Created
    <3>3. {i \in R : i < req[r].row + 1} = {i \in R : i < req[r].row} \cup {req[r].row}
      BY <1>3
    <3>4. Imported(r, B, K, {i \in R : i < req[r].row + 1})
             = Imported(r, B, K, {i \in R : i < req[r].row}) \cup {new}
      <4> HIDE DEF R, B, K
      <4> USE DEF Imported
      <4>1. ASSUME NEW e \in Imported(r, B, K, {i \in R : i < req[r].row + 1}),
                   e.row = req[r].row
            PROVE  e = new
        BY <4>1, SameEntry DEF B, K
      <4>2. ASSUME NEW e \in Imported(r, B, K, {i \in R : i < req[r].row + 1}),
                   e.row # req[r].row
            PROVE  e \in Imported(r, B, K, {i \in R : i < req[r].row})
        BY <3>3, <4>2
      <4>3. ASSUME NEW e \in Imported(r, B, K, {i \in R : i < req[r].row})
            PROVE  e \in Imported(r, B, K, {i \in R : i < req[r].row + 1})
        BY <3>3, <4>3
      <4>4. new \in Imported(r, B, K, {i \in R : i < req[r].row + 1})
        BY <1>3, <3>3 DEF B, K
      <4> HIDE DEF Imported
      <4> QED
        BY <4>1, <4>2, <4>3, <4>4
    <3>5. ImportableRows(q.batch)' = R
      BY <2>2 DEF ImportableRows
    <3>6. Created(r)' = Imported(r, q.batch, q.book, {i \in R : i < q.row})
      BY <2>2, <3>1, <3>2, <3>4
    <3> HIDE DEF R
    <3> QED
      BY <1>2, <2>2, <3>5, <3>6 DEF CreatedOK, Imported
  <2> QED
    BY <2>1, <2>2
<1>8. PlaceOK(r)' /\ AnswerOK(r)'
  BY <1>1, <1>2, <1>3 DEF RequestOK, PlaceOK, AnswerOK, Working
<1>9. AloneOK(r)'
  BY <1>1, <1>2, <1>3, <1>5 DEF RequestOK, AloneOK, Working
<1>10. \A s \in Requests : RequestOK(s)'
  BY <1>6, <1>7, <1>8, <1>9, OthersHold DEF RequestOK
<1>11. FilesDiffer' /\ AppliedOK'
  BY <1>1, <1>5 DEF FilesDiffer, AppliedOK, ImportableRows, Imported
<1>12. EntriesOK'
  <2>1. SUFFICES ASSUME NEW e \in entries', e.batch \notin disturbed'
                 PROVE  \/ req'[e.by].pc \in Working /\ req'[e.by].batch = e.batch
                        \/ Applied(e.batch)' /\ e \in batch'[e.batch].entries
    BY DEF EntriesOK
  <2>2. e \in Entry /\ e.by \in Requests /\ e.batch \in Requests
    BY <1>4 DEF TypeOK, Entry
  <2>3. CASE e = new
    BY <1>2, <2>1, <2>3 DEF Working
  <2>4. CASE e \in entries
    <3>1. \/ req[e.by].pc \in Working /\ req[e.by].batch = e.batch
          \/ Applied(e.batch) /\ e \in batch[e.batch].entries
      BY <1>1, <2>1, <2>4 DEF EntriesOK
    <3>2. CASE e.by = r
      BY <1>2, <1>5, <2>1, <2>2, <3>1, <3>2 DEF Working
    <3>3. CASE e.by # r
      BY <1>2, <1>5, <2>2, <3>1, <3>3
    <3> QED
      BY <3>2, <3>3
  <2> QED
    BY <2>3, <2>4
<1>13. ReferencesOK'
  BY SameReferences DEF ListsOK
<1> QED
  BY <1>4, <1>10, <1>11, <1>12, <1>13 DEF IInv

\* commitWacaiRow
LEMMA CommitRowInv == ASSUME IInv, NEW r \in Requests, CommitRow(r), Recorded PROVE IInv'
<1> DEFINE B == req[r].batch
           K == req[r].book
           new == [by |-> r, batch |-> B, book |-> K, row |-> req[r].row]
           q == NextRow(req[r])
<1>1. req[r].pc = "rows" /\ UNCHANGED <<batch, groups, accounts, categories, members>>
  BY DEF CommitRow
<1>2. /\ req[r] \in Request /\ B \in Requests /\ K \in Books /\ req[r].row \in Nat /\ req[r].row > 0
      /\ ImportableRows(B) = {i \in DOMAIN Rows(r) : Importable(Rows(r)[i])}
      /\ DOMAIN Rows(r) = 1..Len(Rows(r)) /\ DOMAIN Rows(r) \subseteq RowNumbers
      /\ ~PastRows(r) => req[r].row \in DOMAIN Rows(r)
      /\ PastRows(r) => \A i \in DOMAIN Rows(r) : i < req[r].row
  BY <1>1, RowsKnown DEF Working
<1>3. Created(r) = Imported(r, B, K, {i \in ImportableRows(B) : i < req[r].row})
  BY <1>1, Known DEF RequestOK, CreatedOK
<1>4. /\ q \in Request /\ q.pc = "rows" /\ q.batch = B /\ q.book = K /\ q.row = req[r].row + 1
  BY <1>1, <1>2, RowMoves DEF PCs
<1> HIDE DEF q
<1>5. ASSUME ~PastRows(r), ~Importable(Row(r)), Continue(r, q), UNCHANGED <<entries, disturbed>>
      PROVE  IInv'
  <2>1. {i \in ImportableRows(B) : i < req[r].row + 1} = {i \in ImportableRows(B) : i < req[r].row}
    BY <1>2, <1>5 DEF Row
  <2>2. {i \in ImportableRows(q.batch) : i < q.row} = {i \in ImportableRows(B) : i < req[r].row}
    BY <1>4, <2>1
  <2>3. Created(r) = Imported(r, q.batch, q.book, {i \in ImportableRows(q.batch) : i < q.row})
    BY <1>3, <1>4, <2>2, Zenon
  <2>4. q.row > 0
    BY <1>2, <1>4
  <2> QED
    BY <1>1, <1>4, <1>5, <2>3, <2>4, RowsWork
<1>6. ASSUME ~PastRows(r), Importable(Row(r)), entries' = entries \cup {new}, AfterWrite(r, q)
      PROVE  IInv'
  <2>1. new \in Entry /\ new.by = r /\ new.batch = B /\ new.book = K /\ new.row = req[r].row
    BY <1>2, <1>6 DEF Entry
  <2> HIDE DEF new
  <2>2. CASE Continue(r, q) /\ UNCHANGED disturbed
    BY <1>1, <1>4, <1>6, <2>1, <2>2, EntryAdded
  <2>3. CASE Abort(r)
    <3> DEFINE w == [New EXCEPT !.pc = "refused", !.batch = B, !.answer = {}]
    <3>1. w \in Request /\ w.pc = "refused" /\ w.row = 1
      BY <1>2, Ended
    <3>2. Continue(r, w)
      BY <2>3 DEF Abort, Refuse, Answer
    <3>3. disturbed' = disturbed \cup {B}
      BY <1>6, <2>1, <2>3 DEF Abort
    <3> HIDE DEF w
    <3> QED
      BY <1>1, <1>6, <2>1, <3>1, <3>2, <3>3, EntryAdded
  <2> QED
    BY <1>6, <2>2, <2>3 DEF AfterWrite
<1>7. ASSUME PastRows(r), UNCHANGED <<entries, disturbed>>,
             IF Created(r) = {} THEN Refuse(r) ELSE At(r, "mark")
      PROVE  IInv'
  <2>1. CASE Created(r) = {}
    BY <1>1, <1>7, <2>1, RefusedReading DEF ledger
  <2>2. CASE At(r, "mark")
    <3> DEFINE w == [req[r] EXCEPT !.pc = "mark"]
    <3>1. /\ w \in Request /\ w.pc = "mark" /\ w.batch = B /\ w.book = K /\ w.row = req[r].row
          /\ Continue(r, w)
      BY <1>2, <2>2 DEF At, Request, PCs
    <3> HIDE DEF w
    <3>2. {i \in ImportableRows(B) : i < req[r].row} = ImportableRows(B)
      BY <1>2, <1>7
    <3>3. Created(r) = Imported(r, w.batch, w.book, ImportableRows(w.batch)) /\ w.row > 0
      BY <1>2, <1>3, <3>1, <3>2
    <3> QED
      BY <1>1, <1>7, <3>1, <3>3, RowsWork
  <2> QED
    BY <1>7, <2>1, <2>2
<1> QED
  BY <1>5, <1>6, <1>7 DEF CommitRow, q

\* MarkApplied: an apply that nothing disturbed finds the batch not applied.
LEMMA MarkAppliedInv == ASSUME IInv, NEW r \in Requests, MarkApplied(r), Recorded PROVE IInv'
<1> DEFINE B == req[r].batch
<1>1. /\ req[r].pc = "mark" /\ UNCHANGED <<batch, ledger, disturbed>>
      /\ UNCHANGED <<groups, accounts, categories, members, entries>>
  BY DEF MarkApplied, ledger
<1>2. /\ req[r] \in Request /\ RequestOK(r) /\ ReferencesTyped /\ disturbed \subseteq Requests
      /\ B \in Requests /\ req[r].row > 0 /\ batch[B] # NoBatch
  BY <1>1, Known, RowsKnown DEF Working, RequestOK, PlaceOK
<1>3. CASE At(r, "markSave")
  <2> DEFINE q == [req[r] EXCEPT !.pc = "markSave"]
  <2>1. /\ q \in Request /\ q.pc = "markSave" /\ q.batch = B /\ q.book = req[r].book
        /\ q.row = req[r].row /\ Continue(r, q)
    BY <1>2, <1>3 DEF At, Request, PCs
  <2> HIDE DEF q
  <2>2. Created(r) = Imported(r, q.batch, q.book, ImportableRows(q.batch)) /\ q.row > 0
    BY <1>1, <1>2, <2>1 DEF RequestOK, CreatedOK
  <2> QED
    BY <1>1, <2>1, <2>2, RowsWork
<1>4. ASSUME batch[B].status # "preview" PROVE B \in disturbed
  <2>1. batch[B].status = "applied"
    BY <1>2, <1>4 DEF IInv, TypeOK, Batch
  <2> QED
    BY <1>1, <1>2, <2>1 DEF RequestOK, AloneOK, Applied, Working
<1>5. CASE Refuse(r) /\ batch[B].status # "preview"
  BY <1>1, <1>4, <1>5, RefusedReading
<1>6. CASE Answer(r, "done", Created(r)) /\ batch[B].status # "preview"
  <2> DEFINE q == [New EXCEPT !.pc = "done", !.batch = B, !.answer = Created(r)]
  <2>1. Created(r) \in SUBSET Entry /\ Continue(r, q)
    BY <1>6 DEF IInv, TypeOK, Created, Answer
  <2>2. q \in Request /\ q.pc = "done" /\ q.row = 1 /\ q.batch = B
    <3>1. req[r] \in Request /\ Created(r) \in SUBSET Entry
      BY <1>2, <2>1
    <3> QED
      BY <3>1, Ended
  <2> HIDE DEF q
  <2>3. ReferencesOK' /\ ReferencesTyped'
    BY <1>1, <1>2, <2>1, <2>2, SameReferences DEF ListsOK, ReferencesTyped
  <2>4. ASSUME req'[r] = q PROVE RequestOK(r)'
    BY <1>1, <1>4, <1>6, <2>2, <2>4 DEF RequestOK, PlaceOK, CreatedOK, AloneOK, AnswerOK, Working
  <2> QED
    BY <1>1, <1>2, <1>4, <1>6, <2>1, <2>2, <2>3, <2>4, QuietStep
<1> QED
  BY <1>3, <1>5, <1>6 DEF MarkApplied

\* The whole record is saved, with everything that this apply created.
LEMMA SaveBatchInv == ASSUME IInv, NEW r \in Requests, SaveBatch(r), Recorded PROVE IInv'
<1> DEFINE B == req[r].batch
           made == Created(r)
           new == [file |-> batch[B].file, status |-> "applied", book |-> req[r].book, entries |-> made]
<1>1. /\ req[r].pc = "markSave" /\ batch' = [batch EXCEPT ![B] = new]
      /\ UNCHANGED <<groups, accounts, categories, members, entries>>
      /\ \/ Answer(r, "done", made) /\ UNCHANGED disturbed
         \/ Abort(r)
  BY DEF SaveBatch, ledger
<1>2. /\ TypeOK /\ FilesDiffer /\ AppliedOK /\ EntriesOK /\ RequestOK(r)
  BY DEF IInv
<1>3. /\ req[r] \in Request /\ B \in Requests /\ batch[B] # NoBatch /\ batch[B] \in Batch
      /\ req[r].book \in Books /\ batch[B].file \in Files /\ made \subseteq entries
      /\ made = Imported(r, B, req[r].book, ImportableRows(B)) /\ made \in SUBSET Entry
      /\ batch[r] = NoBatch
  <2>1. /\ req[r] \in Request /\ B \in Requests /\ batch[B] # NoBatch /\ req[r].book \in Books
        /\ batch[r] = NoBatch
    BY <1>1, <1>2, Known DEF RequestOK, PlaceOK, Working
  <2>2. batch[B] \in Batch /\ batch[B].file \in Files
    BY <1>2, <2>1 DEF TypeOK, Batch
  <2>3. made \subseteq entries /\ made \in SUBSET Entry
    BY <1>2 DEF TypeOK, Created
  <2>4. made = Imported(r, B, req[r].book, ImportableRows(B))
    BY <1>1, <1>2 DEF RequestOK, CreatedOK
  <2> QED
    BY <2>1, <2>2, <2>3, <2>4
<1>4. /\ new \in Batch /\ new # NoBatch /\ new.file = batch[B].file /\ new.status = "applied"
      /\ new.book = req[r].book /\ new.entries = made
  <2> HIDE DEF made
  <2>1. /\ new \in Batch /\ new.file = batch[B].file /\ new.status = "applied"
        /\ new.book = req[r].book /\ new.entries = made
    BY <1>3 DEF Batch
  <2> QED
    BY <2>1, NoBatchAssumption
<1> HIDE DEF new
<1>5. /\ batch' \in [Requests -> Batch \cup {NoBatch}] /\ batch'[B] = new
      /\ \A b \in Requests \ {B} : batch'[b] = batch[b]
  BY <1>1, <1>2, <1>3, <1>4 DEF TypeOK
<1>6. PICK q \in Request :
         /\ Continue(r, q) /\ q.row = 1 /\ q.batch = B
         /\ \/ q.pc = "done" /\ q.answer = made /\ UNCHANGED disturbed
            \/ /\ q.pc = "refused"
               /\ disturbed' = disturbed \cup {B} \/ (made = {} /\ UNCHANGED disturbed)
  <2>1. CASE Answer(r, "done", made) /\ UNCHANGED disturbed
    <3> DEFINE w == [New EXCEPT !.pc = "done", !.batch = B, !.answer = made]
    <3>1. Continue(r, w)
      BY <2>1 DEF Answer
    <3> HIDE DEF made
    <3>2. w \in Request /\ w.pc = "done" /\ w.row = 1 /\ w.batch = B /\ w.answer = made
      <4>1. req[r] \in Request /\ made \in SUBSET Entry
        BY <1>3
      <4> QED
        BY <4>1, Ended
    <3> HIDE DEF w
    <3> QED
      BY <2>1, <3>1, <3>2
  <2>2. CASE Abort(r)
    <3> DEFINE w == [New EXCEPT !.pc = "refused", !.batch = B, !.answer = {}]
    <3>1. w \in Request /\ w.pc = "refused" /\ w.row = 1 /\ w.batch = B
      <4>1. req[r] \in Request /\ {} \in SUBSET Entry
        BY <1>3
      <4> QED
        BY <4>1, Ended
    <3>2. Continue(r, w)
      BY <2>2 DEF Abort, Refuse, Answer
    <3>3. disturbed' = disturbed \cup {B} \/ (made = {} /\ UNCHANGED disturbed)
      BY <1>1, <2>2 DEF Abort, Created
    <3> HIDE DEF w
    <3> QED
      BY <3>1, <3>2, <3>3
  <2> QED
    BY <1>1, <2>1, <2>2
<1>7. /\ req' \in [Requests -> Request] /\ req'[r] = q
      /\ \A s \in Requests \ {r} : req'[s] = req[s]
  BY <1>2, <1>6, Continued
<1>8. disturbed \subseteq disturbed' /\ disturbed' \subseteq Requests
  BY <1>2, <1>3, <1>6 DEF TypeOK
<1>9. B \notin disturbed => ~Applied(B)
  BY <1>1, <1>2 DEF RequestOK, AloneOK, Working
<1>10. /\ batch'[B] # NoBatch /\ batch'[B].status = "applied"
       /\ \A b \in Requests \ {B} : Applied(b)' <=> Applied(b)
  BY <1>3, <1>4, <1>5 DEF Applied
<1>11. Framed(r)
  BY <1>1, <1>3, <1>4, <1>5, <1>7, <1>8, <1>9, <1>10 DEF Framed, Applied, Working
<1>12. RequestOK(r)'
  <2>1. PlaceOK(r)' /\ CreatedOK(r)' /\ AloneOK(r)'
    BY <1>6, <1>7 DEF PlaceOK, CreatedOK, AloneOK, Working
  <2>2. AnswerOK(r)'
    BY <1>4, <1>5, <1>6, <1>7, <1>10 DEF AnswerOK, Applied
  <2> QED
    BY <2>1, <2>2 DEF RequestOK
<1>13. \A s \in Requests : RequestOK(s)'
  BY <1>11, <1>12, OthersHold DEF RequestOK
<1>14. TypeOK'
  BY <1>1, <1>2, <1>5, <1>7, <1>8, RecordedOverlaps DEF TypeOK
<1>15. FilesDiffer'
  BY <1>2, <1>3, <1>4, <1>5 DEF FilesDiffer
<1>16. AppliedOK'
  <2>1. \A b \in Requests : ImportableRows(b)' = ImportableRows(b) \/ batch[b] = NoBatch
    BY <1>3, <1>4, <1>5 DEF ImportableRows
  <2>2. SUFFICES ASSUME NEW b \in Requests, Applied(b)'
                 PROVE  /\ batch'[b].book \in Books /\ batch'[b].entries \subseteq entries
                        /\ \E s \in Requests :
                              batch'[b].entries = Imported(s, b, batch'[b].book, ImportableRows(b)')
    BY <1>1 DEF AppliedOK, Imported
  <2>3. CASE b = B
    BY <1>3, <1>4, <1>5, <2>1, <2>3
  <2>4. CASE b # B
    <3>1. Applied(b) /\ batch'[b] = batch[b] /\ ImportableRows(b)' = ImportableRows(b)
      BY <1>5, <1>10, <2>1, <2>2, <2>4 DEF Applied
    <3> QED
      BY <1>2, <3>1 DEF AppliedOK
  <2> QED
    BY <2>3, <2>4
<1>17. EntriesOK'
  <2>1. SUFFICES ASSUME NEW e \in entries, e.batch \notin disturbed'
                 PROVE  \/ req'[e.by].pc \in Working /\ req'[e.by].batch = e.batch
                        \/ Applied(e.batch)' /\ e \in batch'[e.batch].entries
    BY <1>1 DEF EntriesOK
  <2>2. e \in Entry /\ e.by \in Requests /\ e.batch \in Requests
    BY <1>2 DEF TypeOK, Entry
  <2>3. \/ req[e.by].pc \in Working /\ req[e.by].batch = e.batch
        \/ Applied(e.batch) /\ e \in batch[e.batch].entries
    BY <1>2, <1>8, <2>1 DEF EntriesOK
  <2>4. CASE e.by = r
    <3>1. e \in made /\ e.batch = B
      BY <1>3, <2>4 DEF Created, Imported
    <3> QED
      BY <1>4, <1>5, <1>10, <3>1 DEF Applied
  <2>5. CASE e.by # r
    <3>1. e.batch = B => B \notin disturbed
      BY <1>8, <2>1
    <3>2. e.batch = B => ~(req[e.by].pc \in Working /\ req[e.by].batch = e.batch)
      BY <1>1, <1>2, <2>2, <2>5, <3>1 DEF RequestOK, AloneOK, Working
    <3> QED
      BY <1>5, <1>7, <1>9, <1>10, <2>2, <2>3, <2>5, <3>1, <3>2
  <2> QED
    BY <2>4, <2>5
<1>18. ReferencesOK'
  BY <1>1, <1>6, SameReferences DEF ListsOK
<1> QED
  BY <1>13, <1>14, <1>15, <1>16, <1>17, <1>18 DEF IInv

\* Any call may fail before it has changed anything.
LEMMA FailInv == ASSUME IInv, NEW r \in Requests, Fail(r), Recorded PROVE IInv'
<1>1. /\ Running(r) /\ Abort(r)
      /\ UNCHANGED <<batch, groups, accounts, categories, members, entries>>
  BY DEF Fail, ledger
<1>2. ReferencesTyped'
  BY <1>1, Known DEF ReferencesTyped
<1>3. ReferencesOK'
  BY <1>1, AbortedReferences
<1> QED
  BY <1>1, <1>2, <1>3, AbortedStep

-----------------------------------------------------------------------------
(* The theorems.                                                           *)

\* Nothing is stored and nobody is at work in the beginning.
LEMMA InitInv == Init => IInv
<1> SUFFICES ASSUME Init PROVE IInv
  OBVIOUS
<1>1. \A r \in Requests : batch[r] = NoBatch /\ req[r] = New
  BY DEF Init
<1>2. New \in Request /\ New.pc = "new" /\ New.row = 1
  BY DEF New, Request, PCs
<1>3. TypeOK
  BY <1>2 DEF Init, TypeOK
<1>4. FilesDiffer /\ AppliedOK /\ EntriesOK
  BY <1>1 DEF FilesDiffer, AppliedOK, EntriesOK, Applied, Init
<1>5. ReferencesOK
  BY <1>1, <1>2 DEF ReferencesOK, ListsOK, Working, Init
<1>6. ASSUME NEW r \in Requests PROVE RequestOK(r)
  <2>1. Created(r) = {}
    BY DEF Created, Init
  <2> QED
    BY <1>1, <1>2, <2>1 DEF RequestOK, PlaceOK, CreatedOK, AloneOK, AnswerOK, Working
<1> QED
  BY <1>3, <1>4, <1>5, <1>6 DEF IInv

\* A step that changes nothing.
LEMMA StutterInv == IInv /\ UNCHANGED vars => IInv'
<1> SUFFICES ASSUME IInv, UNCHANGED vars PROVE IInv'
  OBVIOUS
<1>1. UNCHANGED <<batch, groups, accounts, categories, members, entries, req, disturbed, overlapped>>
  BY DEF vars
<1>2. TypeOK' /\ FilesDiffer'
  BY <1>1 DEF IInv, TypeOK, FilesDiffer
<1>3. AppliedOK' /\ EntriesOK'
  BY <1>1 DEF IInv, AppliedOK, EntriesOK, Applied, ImportableRows, Imported
<1>4. ReferencesOK'
  BY <1>1 DEF IInv, ReferencesOK, ListsOK
<1>5. ASSUME NEW r \in Requests PROVE RequestOK(r)'
  <2>1. RequestOK(r)
    BY DEF IInv
  <2> QED
    BY <1>1, <2>1 DEF RequestOK, PlaceOK, CreatedOK, Created, AloneOK, AnswerOK, Applied,
                      ImportableRows, Imported
<1> QED
  BY <1>2, <1>3, <1>4, <1>5 DEF IInv

\* Every step keeps the invariant.
LEMMA NextInv == IInv /\ [Next]_vars => IInv'
<1> SUFFICES ASSUME IInv, Next PROVE IInv'
  BY StutterInv
<1>1. PICK r \in Requests : /\ ReceivePreview(r) \/ ReceiveApply(r) \/ Step(r) \/ Fail(r)
                            /\ Recorded
  BY DEF Next
<1>2. CASE ReceivePreview(r) \/ ReceiveApply(r)
  BY <1>1, <1>2, RequestsArrive
<1>3. CASE Fail(r)
  BY <1>1, <1>3, FailInv
<1>4. CASE Step(r)
  <2>1. CASE BatchByHash(r) \/ SaveBatchIfAbsent(r)
    BY <1>1, <2>1, BatchByHashInv, SaveBatchIfAbsentInv
  <2>2. CASE LoadBatch(r) \/ Replay(r) \/ ResolveMember(r)
    BY <1>1, <2>2, LoadBatchInv, ReplayInv, ResolveMemberInv
  <2>3. CASE ListAccounts(r) \/ ListAccountGroups(r) \/ ListCategories(r)
    BY <1>1, <2>3, ListsInv
  <2>4. CASE CreateAccountGroup(r) \/ CreateAccount(r) \/ CreateCategory(r) \/ ReferencesReady(r)
    BY <1>1, <2>4, CreateAccountGroupInv, CreateAccountInv, CreateCategoryInv, ReferencesReadyInv
  <2>5. CASE CommitRow(r) \/ MarkApplied(r) \/ SaveBatch(r)
    BY <1>1, <2>5, CommitRowInv, MarkAppliedInv, SaveBatchInv
  <2> QED
    BY <1>4, <2>1, <2>2, <2>3, <2>4, <2>5 DEF Step
<1> QED
  BY <1>1, <1>2, <1>3, <1>4

\* Whatever previews and applies overlap, fail or are cut off, what a request
\* has created is known from the row it is at, and what nothing disturbed is
\* consistent.
THEOREM ImportInvariant == Spec => []IInv
  BY InitInv, NextInv, PTL DEF Spec

\* A set that holds the same element twice at most holds one.
LEMMA AtMostOne ==
    ASSUME NEW S, \A x, y \in S : x = y
    PROVE  Cardinality(S) <= 1 /\ (S # {} => Cardinality(S) = 1)
<1>1. CASE S = {}
  BY <1>1, FS_EmptySet
<1>2. CASE S # {}
  <2>1. PICK x \in S : S = {x}
    BY <1>2
  <2>2. Cardinality(S) = 1
    BY <2>1, FS_Singleton
  <2> QED
    BY <1>2, <2>2
<1> QED
  BY <1>1, <1>2

\* Uploads of one file that race between the lookup by hash and the save end
\* in one batch: SaveBatchIfAbsent looks again under the lock.
THEOREM FilesHaveOneBatch == Spec => []OneBatchPerFile
<1>1. IInv => OneBatchPerFile
  <2> SUFFICES ASSUME IInv PROVE OneBatchPerFile
    OBVIOUS
  <2>1. ASSUME NEW f \in Files PROVE Cardinality(BatchesOf(f)) <= 1
    <3>1. \A b, c \in BatchesOf(f) : b = c
      BY DEF IInv, FilesDiffer, BatchesOf
    <3> QED
      BY <3>1, AtMostOne
  <2> QED
    BY <2>1 DEF OneBatchPerFile, IInv
<1> QED
  BY <1>1, ImportInvariant, PTL

\* The entries that one apply made of a row: the one entry it has to be.
LEMMA OneEntryOfRow ==
    ASSUME NEW r \in Requests, NEW b \in Requests, NEW book \in Books, NEW rows,
           rows \subseteq RowNumbers, NEW i \in rows
    PROVE  Cardinality({e \in Imported(r, b, book, rows) : e.batch = b /\ e.row = i}) = 1
<1> DEFINE S == {e \in Imported(r, b, book, rows) : e.batch = b /\ e.row = i}
           x == [by |-> r, batch |-> b, book |-> book, row |-> i]
<1>1. x \in S
  BY DEF Imported, Entry
<1>2. ASSUME NEW e \in S, NEW d \in S PROVE e = d
  BY SameEntry DEF Imported
<1> HIDE DEF S
<1>3. Cardinality(S) = 1
  BY <1>1, <1>2, AtMostOne
<1> QED
  BY <1>3 DEF S

\* The rows that are importable are rows.
LEMMA ImportableAreRows ==
    ASSUME IInv, NEW b \in Requests, batch[b] # NoBatch PROVE ImportableRows(b) \subseteq RowNumbers
<1>1. batch[b].file \in Files
  BY DEF IInv, TypeOK, Batch
<1> QED
  BY <1>1 DEF ImportableRows, RowNumbers

\* The summary stored with an applied batch is a complete import made by one
\* apply, whatever applies overlap, fail or overwrite each other's summary.
THEOREM SummariesAreComplete == Spec => []AppliedIsComplete
<1>1. IInv => AppliedIsComplete
  <2> SUFFICES ASSUME IInv, NEW b \in Requests, Applied(b)
               PROVE  /\ batch[b].entries \subseteq entries
                      /\ \A i \in ImportableRows(b) :
                            Cardinality(batch[b].entries \cap EntriesOf(b, i)) = 1
                      /\ \A e, d \in batch[b].entries : e.by = d.by /\ e.book = batch[b].book
    BY DEF AppliedIsComplete
  <2>1. batch[b].book \in Books /\ batch[b].entries \subseteq entries
    BY DEF IInv, AppliedOK
  <2>2. PICK r \in Requests :
           batch[b].entries = Imported(r, b, batch[b].book, ImportableRows(b))
    BY DEF IInv, AppliedOK
  <2>3. ImportableRows(b) \subseteq RowNumbers
    BY ImportableAreRows DEF Applied
  <2>4. ASSUME NEW i \in ImportableRows(b)
        PROVE  Cardinality(batch[b].entries \cap EntriesOf(b, i)) = 1
    <3>1. batch[b].entries \cap EntriesOf(b, i)
             = {e \in Imported(r, b, batch[b].book, ImportableRows(b)) : e.batch = b /\ e.row = i}
      BY <2>1, <2>2 DEF EntriesOf
    <3> QED
      BY <2>1, <2>2, <2>3, <3>1, OneEntryOfRow
  <2>5. \A e, d \in batch[b].entries : e.by = d.by /\ e.book = batch[b].book
    BY <2>2 DEF Imported
  <2> QED
    BY <2>1, <2>4, <2>5
<1> QED
  BY <1>1, ImportInvariant, PTL

\* Every importable row of an applied batch is in the ledger exactly once
\* however often the batch is applied, and every apply of it is answered with
\* the same entries, unless two applies worked on the batch at the same time
\* or one gave up half-way.
THEOREM RowsAreImportedOnce == Spec => []ImportedOnce
<1>1. IInv => ImportedOnce
  <2> SUFFICES ASSUME IInv, NEW b \in Requests \ disturbed
               PROVE  /\ Applied(b) => \A i \in ImportableRows(b) : Cardinality(EntriesOf(b, i)) = 1
                      /\ \A r, s \in {q \in Requests : req[q].pc = "done" /\ req[q].batch = b} :
                            req[r].answer = req[s].answer
    BY DEF ImportedOnce
  <2>1. ASSUME Applied(b), NEW i \in ImportableRows(b) PROVE Cardinality(EntriesOf(b, i)) = 1
    <3>1. batch[b].book \in Books /\ batch[b].entries \subseteq entries
      BY <2>1 DEF IInv, AppliedOK
    <3>2. PICK r \in Requests :
             batch[b].entries = Imported(r, b, batch[b].book, ImportableRows(b))
      BY <2>1 DEF IInv, AppliedOK
    <3>3. ImportableRows(b) \subseteq RowNumbers
      BY <2>1, ImportableAreRows DEF Applied
    <3>4. ASSUME NEW e \in EntriesOf(b, i) PROVE e \in batch[b].entries
      <4>1. e \in entries /\ e.batch = b /\ e.by \in Requests
        BY DEF EntriesOf, IInv, TypeOK, Entry
      <4>2. ~(req[e.by].pc \in Working /\ req[e.by].batch = b)
        BY <2>1, <4>1 DEF IInv, RequestOK, AloneOK
      <4> QED
        BY <4>1, <4>2 DEF IInv, EntriesOK
    <3>5. EntriesOf(b, i)
             = {e \in Imported(r, b, batch[b].book, ImportableRows(b)) : e.batch = b /\ e.row = i}
      BY <3>1, <3>2, <3>4 DEF EntriesOf
    <3> QED
      BY <2>1, <3>1, <3>2, <3>3, <3>5, OneEntryOfRow
  <2>2. \A r \in {q \in Requests : req[q].pc = "done" /\ req[q].batch = b} :
           req[r].answer = batch[b].entries
    BY DEF IInv, RequestOK, AnswerOK
  <2> QED
    BY <2>1, <2>2
<1> QED
  BY <1>1, ImportInvariant, PTL

\* Applies that follow one another, failed ones included, create no account,
\* category or import group that an earlier one created.
THEOREM ReferencesAreCreatedOnce == Spec => []NoDuplicateReferences
<1>1. IInv => NoDuplicateReferences
  <2> SUFFICES ASSUME IInv, ~overlapped
               PROVE  /\ Cardinality(groups) <= 1
                      /\ \A a, b \in accounts : a.name = b.name => a = b
                      /\ \A c, d \in categories : c.name = d.name /\ c.book = d.book => c = d
    BY DEF NoDuplicateReferences
  <2>1. \A g, h \in groups : g = h
    BY DEF IInv, ReferencesOK
  <2>2. Cardinality(groups) <= 1
    BY <2>1, AtMostOne
  <2> QED
    BY <2>2 DEF IInv, ReferencesOK
<1> QED
  BY <1>1, ImportInvariant, PTL

=============================================================================
