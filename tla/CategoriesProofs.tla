-------------------------- MODULE CategoriesProofs --------------------------
(***************************************************************************)
(* Proofs about Categories, for any number of categories and handlers, and *)
(* about PageScan, by which the import reads them (and accounts, groups    *)
(* and entries), for lists of any length and any size of a page.           *)
(***************************************************************************)
EXTENDS Categories, PageScan, FiniteSetTheorems, SequenceTheorems, TLAPS

ParentMaps == [Cats -> Cats \cup {Root}]

\* What a handler's position says: an update names a category, and a record about to be written has a stored
\* parent or none.
ControlOf(q) == /\ q.pc = "read" => q.id \in Cats
                /\ q.pc = "write" /\ q.copy.parent # Root => Exists(q.copy.parent)
ControlInv == \A r \in Reqs : ControlOf(req[r])

\* Until a write with an overtaken check, the tree has no cycle, nobody is
\* caught in the loop, and a check that was not overtaken still holds.
TreeInv ==
    ~raced => /\ Acyclic
              /\ \A r \in Reqs : /\ req[r].pc # "walking"
                                 /\ req[r].pc = "write" /\ r \notin stale
                                       /\ req[r].copy.parent # Root
                                    => CycleFree(req[r])

IInv == TypeOK /\ ParentsExist /\ ControlInv /\ TreeInv

-----------------------------------------------------------------------------
\* The ancestors of p hold p and, with a category, its parent.
LEMMA AncestorsClosed ==
    ASSUME NEW parents \in ParentMaps, NEW p \in Cats
    PROVE  p \in Ancestors(parents, p) /\ Closed(parents, Ancestors(parents, p))
<1>1. p \in Ancestors(parents, p)
  BY DEF Ancestors
<1>2. ASSUME NEW x \in Ancestors(parents, p), parents[x] # Root
      PROVE  parents[x] \in Ancestors(parents, p)
  <2>1. x \in Cats /\ parents[x] \in Cats
    BY <1>2 DEF Ancestors, ParentMaps
  <2>2. \A S \in SUBSET Cats : p \in S /\ Closed(parents, S) => parents[x] \in S
    BY <1>2 DEF Ancestors, Closed
  <2> QED
    BY <2>1, <2>2 DEF Ancestors
<1> QED
  BY <1>1, <1>2 DEF Closed

\* In a tree without cycles the ancestor loop ends.
LEMMA WalkEndsInTree ==
    ASSUME NEW parents \in ParentMaps, NEW p \in Cats, AcyclicParents(parents)
    PROVE  WalkEnds(parents, p)
<1> DEFINE A == Ancestors(parents, p)
<1>1. p \in A /\ Closed(parents, A)
  BY AncestorsClosed
<1>2. A \in SUBSET Cats
  BY DEF Ancestors
<1>3. PICK x \in A : parents[x] \notin A
  BY <1>1, <1>2 DEF AcyclicParents
<1> QED
  BY <1>1, <1>3 DEF Closed, WalkEnds

\* Giving c a parent of which it is no ancestor, or none, keeps the tree
\* without cycles.
LEMMA ReparentKeepsTree ==
    ASSUME NEW parents \in ParentMaps, AcyclicParents(parents), NEW c \in Cats,
           NEW p \in Cats \cup {Root}, p # Root => c \notin Ancestors(parents, p)
    PROVE  AcyclicParents([parents EXCEPT ![c] = p])
<1> DEFINE new == [parents EXCEPT ![c] = p]
<1> SUFFICES ASSUME NEW S \in SUBSET Cats, S # {}, \A x \in S : new[x] \in S
             PROVE  FALSE
  BY DEF AcyclicParents
<1>1. \A x \in Cats : new[x] = IF x = c THEN p ELSE parents[x]
  BY DEF ParentMaps
<1>2. CASE c \notin S
  BY <1>1, <1>2 DEF AcyclicParents
<1>3. CASE c \in S
  <2> DEFINE T == S \cap Ancestors(parents, p)
  <2>1. p \in S /\ p \in Cats /\ p # Root
    BY <1>1, <1>3, MarkersAssumption
  <2>2. p \in Ancestors(parents, p) /\ Closed(parents, Ancestors(parents, p))
    BY <2>1, AncestorsClosed
  <2>3. T \in SUBSET Cats /\ T # {}
    BY <2>1, <2>2
  <2>4. \A x \in T : parents[x] \in T
    BY <1>1, <2>1, <2>2, MarkersAssumption DEF Closed
  <2> QED
    BY <2>3, <2>4 DEF AcyclicParents
<1> QED
  BY <1>2, <1>3

\* The stored parents form a map of categories to categories.
LEMMA ParentsTyped ==
    ASSUME TypeOK
    PROVE  CategoryParents \in ParentMaps
  BY DEF TypeOK, CategoryParents, ParentMaps, Exists, Category

\* A category nobody stored is nobody's ancestor.
LEMMA UnstoredIsNoAncestor ==
    ASSUME TypeOK, ParentsExist, NEW c \in Cats, ~Exists(c), NEW p \in Cats, Exists(p)
    PROVE  c \notin Ancestors(CategoryParents, p)
<1> DEFINE S == {x \in Cats : Exists(x)}
<1>1. Closed(CategoryParents, S)
  <2>1. CategoryParents \in ParentMaps
    BY ParentsTyped
  <2> QED
    BY <2>1 DEF Closed, ParentsExist, ParentMaps
<1>2. S \in SUBSET Cats /\ p \in S /\ c \notin S
  OBVIOUS
<1> QED
  BY <1>1, <1>2 DEF Ancestors

-----------------------------------------------------------------------------
\* The records that handlers build have the types they are declared with.
LEMMA RecordTypes ==
    /\ AnyCategory \in Category
    /\ Idle \in Request
    /\ \A pc \in PCs, id \in Cats \cup {Root}, parent \in Cats \cup {Root, Unchanged},
          direction \in Directions \cup {Unchanged}, copy \in Category :
          Arrival(pc, id, parent, direction, copy) \in Request
    /\ \A q \in Request, pc \in PCs, copy \in Category : At(q, pc, copy) \in Request
<1>1. AnyCategory \in Category
  BY DEF AnyCategory, Category, Directions
<1>2. \A pc \in PCs, id \in Cats \cup {Root}, parent \in Cats \cup {Root, Unchanged},
         direction \in Directions \cup {Unchanged}, copy \in Category :
         Arrival(pc, id, parent, direction, copy) \in Request
  BY DEF Arrival, Request
<1>3. \A q \in Request, pc \in PCs, copy \in Category : At(q, pc, copy) \in Request
  BY DEF At, Arrival, Request
<1>4. Idle \in Request
  BY <1>1 DEF Idle, Arrival, Request, PCs
<1> QED
  BY <1>1, <1>2, <1>3, <1>4

\* The steps that leave the tree alone and take handler r to a request that is
\* not about to write, or about to write what was just checked.
LEMMA QuietStep ==
    ASSUME IInv, NEW r \in Reqs, NEW q \in Request, req' = [req EXCEPT ![r] = q],
           UNCHANGED <<category, raced>>, stale' \in {stale, stale \ {r}}, ControlOf(q),
           ~raced => q.pc # "walking" /\ (q.pc = "write" /\ q.copy.parent # Root => CycleFree(q))
    PROVE  IInv'
<1> USE DEF IInv
<1>1. TypeOK'
  BY DEF TypeOK
<1>2. CategoryParents' = CategoryParents
  BY DEF CategoryParents, Exists
<1>3. ParentsExist' /\ (Acyclic => Acyclic')
  BY <1>2 DEF ParentsExist, Exists, Acyclic
<1>4. \A s \in Reqs : req'[s] = IF s = r THEN q ELSE req[s]
  BY DEF TypeOK
<1>5. ControlInv'
  BY <1>4 DEF ControlInv, ControlOf, Exists
<1>6. ASSUME ~raced, NEW s \in Reqs
      PROVE  /\ req'[s].pc # "walking"
             /\ req'[s].pc = "write" /\ s \notin stale' /\ req'[s].copy.parent # Root
                   => req'[s].id \notin Ancestors(CategoryParents, req'[s].copy.parent)
  <2>1. CASE s = r
    BY <1>4, <1>6, <2>1 DEF CycleFree
  <2>2. CASE s # r
    BY <1>4, <1>6, <2>2 DEF TreeInv, CycleFree
  <2> QED
    BY <2>1, <2>2
<1>7. TreeInv'
  <2> SUFFICES ASSUME ~raced'
               PROVE  /\ Acyclic'
                      /\ \A s \in Reqs : /\ req'[s].pc # "walking"
                                         /\ req'[s].pc = "write" /\ s \notin stale'
                                               /\ req'[s].copy.parent # Root
                                            => CycleFree(req[s])'
    BY DEF TreeInv
  <2>1. ~raced /\ Acyclic'
    BY <1>3 DEF TreeInv
  <2> QED
    BY <1>2, <1>6, <2>1 DEF CycleFree
<1> QED
  BY <1>1, <1>3, <1>5, <1>7

\* The two writes: the record of handler r goes to category c.
LEMMA WriteStep ==
    ASSUME IInv, NEW r \in Reqs, NEW c \in Cats, req[r].pc = "write",
           category' = [category EXCEPT ![c] = req[r].copy], Finish(r), NoteWrite(r),
           ~Exists(c) \/ c = req[r].id
    PROVE  IInv'
<1> DEFINE q == req[r]
           p == q.copy.parent
<1> USE DEF IInv
<1>1. q \in Request /\ q.copy \in Category /\ p \in Cats \cup {Root}
  BY DEF TypeOK, Request, Category
<1>2. req' = [req EXCEPT ![r] = Idle]
  BY DEF Finish, Continue
<1>3. TypeOK'
  BY <1>1, <1>2, RecordTypes DEF TypeOK, NoteWrite
<1>4. CategoryParents' = [CategoryParents EXCEPT ![c] = p]
  <2>1. \A x \in Cats : category'[x] = IF x = c THEN q.copy ELSE category[x]
    BY DEF TypeOK
  <2>2. q.copy # NoCategory
    BY <1>1, MarkersAssumption
  <2>3. CategoryParents' = [x \in Cats |-> IF category'[x] # NoCategory THEN category'[x].parent ELSE Root]
    BY DEF CategoryParents, Exists
  <2> DEFINE old == CategoryParents
             new == [x \in Cats |-> IF category'[x] # NoCategory THEN category'[x].parent ELSE Root]
  <2>4. \A x \in Cats : new[x] = IF x = c THEN p ELSE old[x]
    BY <2>1, <2>2 DEF CategoryParents, Exists
  <2>5. old = [x \in Cats |-> old[x]]
    BY DEF CategoryParents
  <2>6. new = [old EXCEPT ![c] = p]
    <3> HIDE DEF old
    <3>1. [old EXCEPT ![c] = p] = [x \in Cats |-> IF x = c THEN p ELSE old[x]]
      BY <2>5
    <3>2. new = [x \in Cats |-> new[x]]
      OBVIOUS
    <3> HIDE DEF new
    <3> QED
      BY <2>4, <3>1, <3>2
  <2> QED
    BY <2>3, <2>6
<1>5. \A x \in Cats : Exists(x) => category'[x] # NoCategory
  BY <1>1, MarkersAssumption DEF Exists, TypeOK
<1>6. p # Root => Exists(p)
  BY DEF ControlInv, ControlOf
<1>7. ParentsExist'
  <2>1. CategoryParents \in ParentMaps
    BY ParentsTyped
  <2>2. \A x \in Cats : CategoryParents'[x] = IF x = c THEN p ELSE CategoryParents[x]
    BY <1>4, <2>1 DEF ParentMaps
  <2>3. \A x \in Cats : CategoryParents'[x] \in Cats \cup {Root}
    BY <1>1, <2>1, <2>2 DEF ParentMaps
  <2>4. ASSUME NEW x \in Cats, CategoryParents'[x] # Root
        PROVE  category'[CategoryParents'[x]] # NoCategory
    BY <1>5, <1>6, <2>2, <2>3, <2>4 DEF ParentsExist
  <2> QED
    BY <2>4 DEF ParentsExist, Exists
<1>8. \A s \in Reqs : req'[s] = IF s = r THEN Idle ELSE req[s]
  BY <1>2 DEF TypeOK
<1>9. Idle.pc = "idle"
  BY DEF Idle, Arrival
<1>10. ControlInv'
  <2>1. ASSUME NEW s \in Reqs, req'[s].pc = "write", req'[s].copy.parent # Root
        PROVE  category'[req'[s].copy.parent] # NoCategory
    <3>1. s # r /\ req'[s] = req[s]
      BY <1>8, <1>9, <2>1
    <3>2. req[s].copy.parent \in Cats
      BY <2>1, <3>1 DEF TypeOK, Request, Category
    <3> QED
      BY <1>5, <2>1, <3>1, <3>2 DEF ControlInv, ControlOf
  <2>2. \A s \in Reqs : req'[s].pc = "read" => req'[s].id \in Cats
    BY <1>8, <1>9 DEF ControlInv, ControlOf
  <2> QED
    BY <2>1, <2>2 DEF ControlInv, ControlOf, Exists
<1>11. TreeInv'
  <2> SUFFICES ASSUME ~raced'
               PROVE  Acyclic' /\ \A s \in Reqs : /\ req'[s].pc # "walking"
                                                  /\ req'[s].pc = "write" => s \in stale'
    BY DEF TreeInv
  <2>1. ~raced /\ (p # Root => r \notin stale)
    BY DEF NoteWrite
  <2>2. p # Root => c \notin Ancestors(CategoryParents, p)
    <3>1. CASE ~Exists(c)
      BY <1>1, <1>6, <3>1, UnstoredIsNoAncestor
    <3>2. CASE c = q.id
      BY <2>1, <3>2 DEF TreeInv, CycleFree
    <3> QED
      BY <3>1, <3>2
  <2>3. Acyclic'
    <3>1. CategoryParents \in ParentMaps /\ AcyclicParents(CategoryParents)
      BY <2>1, ParentsTyped DEF TreeInv, Acyclic
    <3>2. AcyclicParents([CategoryParents EXCEPT ![c] = p])
      BY <1>1, <2>2, <3>1, ReparentKeepsTree
    <3> QED
      BY <1>4, <3>2 DEF Acyclic
  <2>4. \A s \in Reqs : req'[s].pc # "walking" /\ (req'[s].pc = "write" => s \in stale')
    BY <1>8, <1>9, <2>1 DEF TreeInv, NoteWrite
  <2> QED
    BY <2>3, <2>4
<1> QED
  BY <1>3, <1>7, <1>10, <1>11

-----------------------------------------------------------------------------
\* A step of a handler preserves the invariant.
LEMMA InductiveStep ==
    ASSUME IInv, [Next]_vars
    PROVE  IInv'
<1>1. Idle \in Request /\ ControlOf(Idle) /\ Idle.pc = "idle"
  BY RecordTypes DEF ControlOf, Idle, Arrival
<1>2. ASSUME NEW r \in Reqs, ReceiveCreate(r)
      PROVE  IInv'
  <2>1. PICK p \in Cats \cup {Root}, d \in Directions :
           Receive(r, Arrival("validate", Root, p, d, [parent |-> p, direction |-> d]))
    BY <1>2 DEF ReceiveCreate
  <2> DEFINE q == Arrival("validate", Root, p, d, [parent |-> p, direction |-> d])
  <2>2. [parent |-> p, direction |-> d] \in Category
    BY DEF Category
  <2>3. q \in Request
    BY <2>2, RecordTypes DEF PCs
  <2>4. q.pc = "validate" /\ ControlOf(q)
    BY DEF Arrival, ControlOf
  <2>5. req' = [req EXCEPT ![r] = q] /\ UNCHANGED <<category, stale, raced>>
    BY <2>1 DEF Receive, Continue
  <2> QED
    BY <2>3, <2>4, <2>5, QuietStep
<1>3. ASSUME NEW r \in Reqs, ReceiveUpdate(r)
      PROVE  IInv'
  <2>1. PICK c \in Cats, p \in Cats \cup {Root, Unchanged}, d \in Directions \cup {Unchanged} :
           Receive(r, Arrival("read", c, p, d, AnyCategory))
    BY <1>3 DEF ReceiveUpdate
  <2> DEFINE q == Arrival("read", c, p, d, AnyCategory)
  <2>2. q \in Request
    BY RecordTypes DEF PCs
  <2>3. q.pc = "read" /\ ControlOf(q)
    BY DEF Arrival, ControlOf
  <2>4. req' = [req EXCEPT ![r] = q] /\ UNCHANGED <<category, stale, raced>>
    BY <2>1 DEF Receive, Continue
  <2> QED
    BY <2>2, <2>3, <2>4, QuietStep
<1>4. ASSUME NEW r \in Reqs, ReadCategory(r)
      PROVE  IInv'
  <2> DEFINE q == req[r]
             n == At(q, "validate", Patch(category[q.id], q))
  <2>1. q \in Request /\ UNCHANGED <<category, stale, raced>>
    BY <1>4 DEF IInv, TypeOK, ReadCategory
  <2>2. CASE req' = [req EXCEPT ![r] = Idle]
    BY <1>1, <2>1, <2>2, QuietStep
  <2>3. CASE Exists(q.id) /\ req' = [req EXCEPT ![r] = n]
    <3>0. q.id \in Cats
      BY <1>4 DEF IInv, ControlInv, ControlOf, ReadCategory
    <3>1. category[q.id] \in Category
      BY <2>3, <3>0 DEF IInv, TypeOK, Exists
    <3>2. Patch(category[q.id], q) \in Category
      BY <2>1, <3>1 DEF Patch, Category, Request
    <3>3. n \in Request
      BY <2>1, <3>2, RecordTypes DEF PCs
    <3>4. n.pc = "validate" /\ ControlOf(n)
      BY DEF At, Arrival, ControlOf
    <3> QED
      BY <2>1, <2>3, <3>3, <3>4, QuietStep
  <2> QED
    BY <1>4, <2>2, <2>3 DEF ReadCategory, Continue, Finish
<1>5. ASSUME NEW r \in Reqs, Validate(r)
      PROVE  IInv'
  <2> DEFINE q == req[r]
             p == q.copy.parent
             Checked(pc) == At(q, pc, q.copy)
  <2>1. /\ q \in Request /\ q.copy \in Category /\ p \in Cats \cup {Root}
        /\ UNCHANGED <<category, raced>> /\ stale' = stale \ {r}
    BY <1>5 DEF IInv, TypeOK, Request, Category, Validate
  <2>2. \A pc : /\ Checked(pc).pc = pc /\ Checked(pc).copy = q.copy /\ Checked(pc).id = q.id
    BY DEF At, Arrival
  <2>3. Checked("write") \in Request /\ Checked("walking") \in Request
    BY <2>1, RecordTypes DEF PCs
  <2>4. CASE req' = [req EXCEPT ![r] = Idle]
    BY <1>1, <2>1, <2>4, QuietStep
  <2>5. CASE p = Root /\ req' = [req EXCEPT ![r] = Checked("write")]
    <3>1. ControlOf(Checked("write"))
      BY <2>2, <2>5 DEF ControlOf
    <3> QED
      BY <2>1, <2>2, <2>3, <2>5, <3>1, QuietStep
  <2>6. CASE /\ p # Root /\ ParentAccepted(q) /\ CycleFree(q)
             /\ req' = [req EXCEPT ![r] =
                   At(q, IF WalkEnds(CategoryParents, p) THEN "write" ELSE "walking", q.copy)]
    <3>1. Exists(p) /\ p \in Cats
      BY <2>1, <2>6 DEF ParentAccepted
    <3>2. CASE WalkEnds(CategoryParents, p)
      <4>1. ControlOf(Checked("write"))
        BY <2>2, <3>1 DEF ControlOf
      <4>2. CycleFree(Checked("write"))
        BY <2>2, <2>6 DEF CycleFree
      <4> QED
        BY <2>1, <2>2, <2>3, <2>6, <3>2, <4>1, <4>2, QuietStep
    <3>3. CASE ~WalkEnds(CategoryParents, p)
      <4>1. CategoryParents \in ParentMaps
        BY ParentsTyped DEF IInv
      <4>2. raced
        BY <3>1, <3>3, <4>1, WalkEndsInTree DEF IInv, TreeInv, Acyclic
      <4>3. ControlOf(Checked("walking"))
        BY <2>2 DEF ControlOf
      <4> QED
        BY <2>1, <2>2, <2>3, <2>6, <3>3, <4>2, <4>3, QuietStep
    <3> QED
      BY <3>2, <3>3
  <2> QED
    BY <1>5, <2>4, <2>5, <2>6 DEF Validate, Continue, Finish
<1>6. ASSUME NEW r \in Reqs, NEW c \in Cats, CreateCategory(r, c)
      PROVE  IInv'
  BY <1>6, WriteStep DEF CreateCategory
<1>7. ASSUME NEW r \in Reqs, UpdateCategory(r)
      PROVE  IInv'
  <2>1. req[r].id \in Cats
    BY <1>7 DEF UpdateCategory, IInv, TypeOK, Request
  <2> QED
    BY <1>7, <2>1, WriteStep DEF UpdateCategory
<1>8. ASSUME NEW r \in Reqs, StoreError(r)
      PROVE  IInv'
  BY <1>1, <1>8, QuietStep DEF StoreError, Finish, Continue
<1>10. ASSUME NEW r \in Reqs, OutOfIds(r)
      PROVE  IInv'
  BY <1>1, <1>10, QuietStep DEF OutOfIds, Finish, Continue
<1>9. CASE UNCHANGED vars
  BY <1>9 DEF vars, IInv, TypeOK, ParentsExist, ControlInv, ControlOf, TreeInv, Acyclic,
     CycleFree, CategoryParents, Exists
<1> QED
  BY <1>2, <1>3, <1>4, <1>5, <1>6, <1>7, <1>8, <1>9, <1>10 DEF Next, Step, Walk

\* Rows and handlers keep their types, a stored parent id always names a
\* stored category, and without an overtaken check there is no cycle and no
\* endless ancestor loop: for any number of categories and handlers
\* (CreateCategory, UpdateCategory, validateCategoryFields).
THEOREM CategoryTreeInvariant == Spec => []IInv
<1>1. Init => IInv
  <2> SUFFICES ASSUME Init
               PROVE  IInv
    OBVIOUS
  <2>1. TypeOK
    BY RecordTypes DEF Init, TypeOK
  <2>2. \A r \in Reqs : req[r].pc = "idle"
    BY DEF Init, Idle, Arrival
  <2>3. \A c \in Cats : CategoryParents[c] = Root
    BY DEF Init, CategoryParents, Exists
  <2>4. Acyclic
    BY <2>3, MarkersAssumption DEF Acyclic, AcyclicParents
  <2> QED
    BY <2>1, <2>2, <2>3, <2>4 DEF IInv, ParentsExist, ControlInv, ControlOf, TreeInv
<1>2. IInv /\ [Next]_vars => IInv'
  BY InductiveStep
<1> QED
  BY <1>1, <1>2, PTL DEF Spec

\* A cycle, and with it a request that never returns, needs a parent written
\* on the strength of a check that another write has overtaken.
THEOREM CyclesNeedRace == Spec => []CycleOnlyByRace
<1>1. IInv => CycleOnlyByRace
  BY DEF IInv, TreeInv, CycleOnlyByRace
<1> QED
  BY <1>1, CategoryTreeInvariant, PTL

\* No interleaving of creations and updates leaves a category below a parent
\* that is not stored.
THEOREM ParentsAlwaysExist == Spec => []ParentsExist
<1>1. IInv => ParentsExist
  BY DEF IInv
<1> QED
  BY <1>1, CategoryTreeInvariant, PTL

\* One request at a time, no sequence of creations and updates ever makes a
\* category its own ancestor (the cycle check of validateCategoryFields).
THEOREM SequentialUpdatesStayAcyclic ==
    ASSUME \A r, s \in Reqs : r = s
    PROVE  Spec => []Acyclic
<1> DEFINE Unraced == stale = {} /\ raced = FALSE
<1>1. Init => Unraced
  BY DEF Init
<1>2. Unraced /\ [Next]_vars => Unraced'
  <2> SUFFICES ASSUME Unraced, [Next]_vars
               PROVE  Unraced'
    OBVIOUS
  <2>1. ASSUME NEW r \in Reqs, NoteWrite(r)
        PROVE  Unraced'
    BY <2>1 DEF NoteWrite
  <2> QED
    BY <2>1 DEF Next, Step, ReceiveCreate, ReceiveUpdate, Receive, ReadCategory, Validate,
       CreateCategory, UpdateCategory, StoreError, OutOfIds, Walk, vars
<1>3. IInv /\ Unraced => Acyclic
  BY DEF IInv, TreeInv
<1> QED
  BY <1>1, <1>2, <1>3, CategoryTreeInvariant, PTL DEF Spec

-----------------------------------------------------------------------------
(* Arithmetic, and the paginators.                                         *)

\* A larger factor makes a product larger by the other one at least.
LEMMA Products ==
    ASSUME NEW n \in Nat, NEW a \in Int, NEW b \in Int, a < b
    PROVE  a * n \in Int /\ b * n \in Int /\ a * n + n <= b * n
<1> DEFINE d == b - a - 1
<1>1. d \in Nat /\ b = a + d + 1
  OBVIOUS
<1> HIDE DEF d
<1>2. b * n = a * n + d * n + n
  BY <1>1
<1>3. d * n \in Nat /\ a * n \in Int
  BY <1>1
<1> QED
  BY <1>2, <1>3

\* What a quotient says of its dividend.
LEMMA Quotients ==
    ASSUME NEW n \in Nat \ {0}, NEW a \in Nat, NEW q \in Nat
    PROVE  (a \div n = q) <=> (q * n <= a /\ a < q * n + n)
<1> DEFINE d == a \div n
           r == a % n
<1>1. d \in Nat /\ r \in Nat /\ r < n /\ a = n * d + r
  OBVIOUS
<1> HIDE DEF d, r
<1>2. d * n = n * d /\ d * n \in Nat /\ q * n \in Nat
  BY <1>1
<1>3. CASE d < q
  <2>1. d * n + n <= q * n
    BY <1>1, <1>3, Products
  <2> QED
    BY <1>1, <1>2, <1>3, <2>1 DEF d
<1>4. CASE q < d
  <2>1. q * n + n <= d * n
    BY <1>1, <1>4, Products
  <2> QED
    BY <1>1, <1>2, <1>4, <2>1 DEF d
<1>5. CASE q = d
  BY <1>1, <1>2, <1>5 DEF d
<1> QED
  BY <1>1, <1>3, <1>4, <1>5

\* The numbers an int holds.
LEMMA IntRange ==
    /\ MaxInt \in Nat /\ MinInt = -(MaxInt + 1) /\ Modulus = 2 * (MaxInt + 1)
    /\ MaxPageSize \in Nat \ {0} /\ 2 * MaxPageSize <= MaxInt
<1> DEFINE h == Modulus \div 2
<1>1. Modulus \in Nat /\ Modulus % 2 = 0 /\ MaxPageSize \in Nat /\ MaxPageSize >= 1 /\ 4 * MaxPageSize < Modulus
  BY PageSizesAssumption
<1>2. h \in Nat /\ Modulus = 2 * h
  BY <1>1
<1>3. MaxInt = h - 1 /\ MinInt = -h
  BY DEF MaxInt, MinInt
<1> HIDE DEF h
<1> QED
  BY <1>1, <1>2, <1>3

\* A number that fits is what it was.
LEMMA NoWrap ==
    ASSUME NEW x \in Int, MinInt <= x, x <= MaxInt
    PROVE  Wrap(x) = x
<1> DEFINE h == MaxInt + 1
           y == x + h
<1>1. h \in Nat /\ h > 0 /\ MinInt = -h /\ Modulus = 2 * h
  BY IntRange
<1>2. y \in Nat /\ y < 2 * h
  <2>1. MaxInt \in Nat /\ -h <= x /\ x < h
    BY <1>1, IntRange
  <2> HIDE DEF h
  <2> QED
    BY <1>1, <2>1
<1>3. Wrap(x) = (y % (2 * h)) - h
  BY <1>1 DEF Wrap
<1> HIDE DEF h
<1>4. y % (2 * h) = y
  <2> DEFINE m == 2 * h
  <2>1. m \in Nat \ {0} /\ y < m
    BY <1>1, <1>2
  <2> HIDE DEF m, y
  <2>2. y % m = y
    BY <1>2, <2>1
  <2> QED
    BY <2>2 DEF m
<1> QED
  BY <1>1, <1>3, <1>4

\* The offset of a page that an int can hold.
LEMMA FittingOffset ==
    ASSUME NEW p \in Int, p >= 1, NEW n \in 1..MaxPageSize, (p - 1) * n <= MaxInt
    PROVE  (p - 1) * n \in Nat /\ Offset(p, n) = (p - 1) * n
<1> DEFINE k == (p - 1) * n
<1>1. n \in Nat /\ p - 1 \in Nat
  BY IntRange
<1>2. k \in Nat
  BY <1>1
<1>3. Offset(p, n) = Wrap(k)
  BY DEF Offset
<1>4. k <= MaxInt
  OBVIOUS
<1> HIDE DEF k
<1>5. MinInt <= k
  BY <1>2, IntRange
<1> QED
  BY <1>2, <1>3, <1>4, <1>5, NoWrap DEF k

\* A piece of the list is what lies between two offsets.
LEMMA PieceBounds ==
    ASSUME NEW total \in Nat, NEW p \in Int, p >= 1, NEW n \in Nat \ {0}
    PROVE  Piece(total, p, n) = {i \in 1..total : (p - 1) * n < i /\ i <= (p - 1) * n + n}
<1>1. p - 1 \in Nat
  OBVIOUS
<1>2. \A i \in 1..total : ((i - 1) \div n = p - 1) <=> ((p - 1) * n < i /\ i <= (p - 1) * n + n)
  <2>1. SUFFICES ASSUME NEW i \in 1..total
                 PROVE  ((i - 1) \div n = p - 1) <=> ((p - 1) * n < i /\ i <= (p - 1) * n + n)
    OBVIOUS
  <2> DEFINE k == (p - 1) * n
             a == i - 1
  <2>2. a \in Nat /\ k \in Nat /\ i \in Nat
    BY <1>1, <2>1
  <2>3. (a \div n = p - 1) <=> (k <= a /\ a < k + n)
    BY <1>1, <2>2, Quotients
  <2> HIDE DEF k
  <2>4. (k <= a /\ a < k + n) <=> (k < i /\ i <= k + n)
    BY <2>2
  <2> QED
    BY <2>3, <2>4 DEF k
<1> QED
  BY <1>2 DEF Piece

\* items[start:end] of the paginators, when start is a position of the list.
LEMMA Cut ==
    ASSUME NEW total \in Nat, total + MaxPageSize <= MaxInt,
           NEW start \in 0..total, NEW n \in 1..MaxPageSize
    PROVE  LET end == Smaller(Wrap(start + n), total)
               cut == Slice(start, end, total) IN
           /\ cut = {i \in 1..total : start < i /\ i <= start + n}
           /\ cut # Panic
           /\ end = IF start + n < total THEN start + n ELSE total
           /\ cut = (start + 1)..end
<1> DEFINE end == Smaller(Wrap(start + n), total)
           cut == Slice(start, end, total)
<1>1. start \in Nat /\ start <= total /\ n \in Nat /\ n >= 1 /\ n <= MaxPageSize /\ MaxPageSize \in Nat
  BY IntRange
<1>2. start + n \in Int /\ MinInt <= start + n /\ start + n <= MaxInt
  BY <1>1, IntRange
<1>3. Wrap(start + n) = start + n
  BY <1>2, NoWrap
<1>4. end = IF start + n < total THEN start + n ELSE total
  BY <1>3 DEF Smaller
<1> HIDE DEF end
<1>5. end \in Nat /\ start <= end /\ end <= total
  BY <1>1, <1>4
<1>6. cut = (start + 1)..end
  BY <1>1, <1>5 DEF Slice
<1> HIDE DEF cut
<1>7. (start + 1)..end = {i \in 1..total : start < i /\ i <= start + n}
  BY <1>1, <1>4, <1>5
<1>8. cut # Panic
  <2>1. start + 1 \in 0..Modulus /\ end \in 0..Modulus
    BY <1>1, <1>5, IntRange
  <2> QED
    BY <1>6, <2>1, PageSizesAssumption
<1> QED
  BY <1>4, <1>6, <1>7, <1>8 DEF end, cut

\* paginate and ListEntries return pieces of the list.
LEMMA PageIsPiece ==
    ASSUME NEW total \in Nat, total + MaxPageSize <= MaxInt, NEW p \in Int, NEW s \in Int,
           Fits(NormalPage(p), NormalSize(s))
    PROVE  PageOf(total, p, s) = Piece(total, NormalPage(p), NormalSize(s))
<1> DEFINE q == NormalPage(p)
           n == NormalSize(s)
           k == (q - 1) * n
<1>1. q \in Int /\ q >= 1
  BY DEF NormalPage
<1>2. n \in 1..MaxPageSize /\ n \in Nat \ {0}
  BY PageSizesAssumption DEF NormalSize
<1>3. (q - 1) * n <= MaxInt
  BY DEF Fits
<1>4. PageOf(total, p, s) =
         IF Offset(q, n) >= total THEN {}
         ELSE Slice(Offset(q, n), Smaller(Wrap(Offset(q, n) + n), total), total)
  BY DEF PageOf
<1> HIDE DEF q, n
<1>5. k \in Nat /\ Offset(q, n) = k
  BY <1>1, <1>2, <1>3, FittingOffset
<1>6. Piece(total, q, n) = {i \in 1..total : k < i /\ i <= k + n}
  BY <1>1, <1>2, PieceBounds
<1> HIDE DEF k
<1>7. CASE k >= total
  BY <1>4, <1>5, <1>6, <1>7 DEF q, n
<1>8. CASE ~(k >= total)
  <2>1. k \in 0..total
    BY <1>5, <1>8
  <2>2. Slice(k, Smaller(Wrap(k + n), total), total)
           = {i \in 1..total : k < i /\ i <= k + n}
    BY <1>2, <2>1, Cut
  <2>3. PageOf(total, p, s) = Piece(total, q, n)
    BY <1>4, <1>5, <1>6, <1>8, <2>2
  <2> QED
    BY <2>3 DEF q, n
<1> QED
  BY <1>7, <1>8

\* So does paginateEvents, which never slices out of range.
LEMMA EventPageIsPiece ==
    ASSUME NEW total \in Nat, total + MaxPageSize <= MaxInt, NEW asked \in Int, NEW s \in Int,
           NEW p, p = AuditNumber(asked, 1), NEW n, n = AuditNumber(s, DefaultPageSize)
    PROVE  /\ PageOfEvents(total, asked, s) # Panic
           /\ p >= 1 /\ n \in 1..MaxPageSize /\ Fits(p, n)
                 => PageOfEvents(total, asked, s) = Piece(total, p, n)
<1> DEFINE start == Clamp(Offset(p, n), total)
           cut == Slice(start, Smaller(Wrap(start + n), total), total)
<1>1. p \in Int /\ n \in Int
  BY PageSizesAssumption DEF AuditNumber
<1>2. PageOfEvents(total, asked, s) = IF p < 1 \/ n < 1 \/ n > MaxPageSize THEN Rejected ELSE cut
  BY DEF PageOfEvents
<1>3. Offset(p, n) \in Int
  BY <1>1, IntRange DEF Offset, Wrap
<1>4. start \in 0..total
  BY <1>3 DEF Clamp
<1>5. CASE p < 1 \/ n < 1 \/ n > MaxPageSize
  BY <1>1, <1>2, <1>5, PageSizesAssumption
<1>6. CASE ~(p < 1 \/ n < 1 \/ n > MaxPageSize)
  <2>1. p >= 1 /\ n \in 1..MaxPageSize /\ n \in Nat \ {0} /\ PageOfEvents(total, asked, s) = cut
    BY <1>1, <1>2, <1>6, IntRange
  <2>2. cut # Panic /\ cut = {i \in 1..total : start < i /\ i <= start + n}
    BY <1>4, <2>1, Cut
  <2>3. ASSUME Fits(p, n) PROVE cut = Piece(total, p, n)
    <3> DEFINE k == (p - 1) * n
    <3>1. k \in Nat /\ Offset(p, n) = k
      BY <1>1, <2>1, <2>3, FittingOffset DEF Fits
    <3>2. Piece(total, p, n) = {i \in 1..total : k < i /\ i <= k + n}
      BY <1>1, <2>1, PieceBounds
    <3> HIDE DEF k
    <3>3. start = IF k > total THEN total ELSE k
      BY <3>1 DEF Clamp
    <3> HIDE DEF start, cut
    <3> QED
      BY <2>1, <2>2, <3>1, <3>2, <3>3
  <2> QED
    BY <2>1, <2>2, <2>3
<1> QED
  BY <1>5, <1>6

-----------------------------------------------------------------------------
(* Lists.                                                                  *)

\* A list without an item.
LEMMA ItemRemoved ==
    ASSUME NEW S, NEW s \in Seq(S), NEW k \in DOMAIN s, IsInjective(s)
    PROVE  LET r == RemoveAt(s, k) IN
           /\ r \in Seq(S) /\ IsInjective(r) /\ Len(r) = Len(s) - 1
           /\ Range(r) = Range(s) \ {s[k]}
<1> DEFINE a == SubSeq(s, 1, k - 1)
           b == SubSeq(s, k + 1, Len(s))
           r == RemoveAt(s, k)
<1>1. Len(s) \in Nat /\ DOMAIN s = 1..Len(s) /\ k \in Nat /\ k >= 1 /\ k <= Len(s) /\ \A i \in 1..Len(s) : s[i] \in S
  BY LenProperties, ElementOfSeq
<1>2. a \in Seq(S) /\ Len(a) = k - 1 /\ \A i \in 1..(k - 1) : a[i] = s[i]
  <2>1. \A i \in 1..(k - 1) : s[i] \in S
    BY <1>1
  <2>2. k - 1 \in Int /\ 1 \in Int
    BY <1>1
  <2>3. /\ a \in Seq(S) /\ Len(a) = (IF 1 <= k - 1 THEN (k - 1) - 1 + 1 ELSE 0)
        /\ \A i \in 1..((k - 1) - 1 + 1) : a[i] = s[1 + i - 1]
    BY <2>1, <2>2, SubSeqProperties
  <2> HIDE DEF a
  <2> QED
    BY <1>1, <2>3
<1>3. b \in Seq(S) /\ Len(b) = Len(s) - k /\ \A i \in 1..(Len(s) - k) : b[i] = s[k + i]
  <2>1. \A i \in (k + 1)..Len(s) : s[i] \in S
    BY <1>1
  <2>2. /\ b \in Seq(S) /\ Len(b) = (IF k + 1 <= Len(s) THEN Len(s) - (k + 1) + 1 ELSE 0)
        /\ \A i \in 1..(Len(s) - (k + 1) + 1) : b[i] = s[(k + 1) + i - 1]
    BY <1>1, <2>1, SubSeqProperties
  <2> HIDE DEF b
  <2>3. Len(b) = Len(s) - k
    BY <1>1, <2>2
  <2>4. \A i \in 1..(Len(s) - k) : i \in 1..(Len(s) - (k + 1) + 1) /\ (k + 1) + i - 1 = k + i
    BY <1>1
  <2> QED
    BY <2>2, <2>3, <2>4
<1>4. r = a \o b
  BY DEF RemoveAt
<1> HIDE DEF a, b, r
<1>5. /\ r \in Seq(S) /\ Len(r) = Len(s) - 1 /\ DOMAIN r = 1..(Len(s) - 1)
      /\ \A i \in 1..(Len(s) - 1) : r[i] = IF i < k THEN s[i] ELSE s[i + 1]
  <2>1. /\ r \in Seq(S) /\ Len(r) = Len(a) + Len(b)
        /\ \A i \in 1..(Len(a) + Len(b)) : r[i] = IF i <= Len(a) THEN a[i] ELSE b[i - Len(a)]
    BY <1>2, <1>3, <1>4, ConcatProperties
  <2>2. Len(a) + Len(b) = Len(s) - 1
    BY <1>1, <1>2, <1>3
  <2>3. \A i \in 1..(Len(s) - 1) : r[i] = IF i < k THEN s[i] ELSE s[i + 1]
    <3>1. SUFFICES ASSUME NEW i \in 1..(Len(s) - 1) PROVE r[i] = IF i < k THEN s[i] ELSE s[i + 1]
      OBVIOUS
    <3>2. r[i] = IF i <= Len(a) THEN a[i] ELSE b[i - Len(a)]
      BY <2>1, <2>2, <3>1
    <3>3. CASE i < k
      BY <1>1, <1>2, <3>2, <3>3
    <3>4. CASE ~(i < k)
      <4>1. i - (k - 1) \in 1..(Len(s) - k) /\ k + (i - (k - 1)) = i + 1
        BY <1>1, <3>4
      <4>2. ~(i <= Len(a)) /\ i - Len(a) = i - (k - 1)
        BY <1>1, <1>2, <3>4
      <4>3. r[i] = b[i - (k - 1)]
        BY <3>2, <4>2
      <4>4. b[i - (k - 1)] = s[i + 1]
        BY <1>3, <4>1
      <4> QED
        BY <3>4, <4>3, <4>4
    <3> QED
      BY <3>3, <3>4
  <2> QED
    BY <2>1, <2>2, <2>3, LenProperties
<1>6. ASSUME NEW i \in 1..(Len(s) - 1), NEW j \in 1..(Len(s) - 1), r[i] = r[j]
      PROVE  i = j
  <2> DEFINE p == IF i < k THEN i ELSE i + 1
             q == IF j < k THEN j ELSE j + 1
  <2>1. p \in 1..Len(s) /\ q \in 1..Len(s) /\ (p = q => i = j)
    BY <1>1
  <2>2. r[i] = s[p] /\ r[j] = s[q]
    BY <1>5
  <2> HIDE DEF p, q
  <2> QED
    BY <1>1, <1>6, <2>1, <2>2 DEF IsInjective
<1>7. Range(r) = Range(s) \ {s[k]}
  <2>1. \A i \in 1..(Len(s) - 1) : \E j \in 1..Len(s) : j # k /\ r[i] = s[j]
    BY <1>1, <1>5
  <2>2. \A j \in 1..Len(s) : j # k => \E i \in 1..(Len(s) - 1) : r[i] = s[j]
    <3>1. SUFFICES ASSUME NEW j \in 1..Len(s), j # k PROVE \E i \in 1..(Len(s) - 1) : r[i] = s[j]
      OBVIOUS
    <3>2. CASE j < k
      BY <1>1, <1>5, <3>1, <3>2
    <3>3. CASE j > k
      <4>1. j - 1 \in 1..(Len(s) - 1) /\ ~(j - 1 < k) /\ (j - 1) + 1 = j
        BY <1>1, <3>1, <3>3
      <4> QED
        BY <1>5, <4>1
    <3> QED
      BY <1>1, <3>1, <3>2, <3>3
  <2>3. \A i, j \in 1..Len(s) : s[i] = s[j] => i = j
    BY <1>1 DEF IsInjective
  <2>4. \A y : y \in Range(r) <=> \E i \in 1..(Len(s) - 1) : y = r[i]
    BY <1>5 DEF Range
  <2>5. \A y : y \in Range(s) <=> \E j \in 1..Len(s) : y = s[j]
    BY <1>1 DEF Range
  <2>6. ASSUME NEW y \in Range(r) PROVE y \in Range(s) \ {s[k]}
    BY <2>1, <2>3, <2>4, <2>5, <2>6
  <2>7. ASSUME NEW y \in Range(s) \ {s[k]} PROVE y \in Range(r)
    BY <2>2, <2>4, <2>5, <2>7
  <2> QED
    BY <2>6, <2>7
<1>8. IsInjective(r)
  BY <1>5, <1>6 DEF IsInjective
<1> QED
  BY <1>5, <1>7, <1>8 DEF r

\* A list with one more item.
LEMMA ItemInserted ==
    ASSUME NEW S, NEW s \in Seq(S), IsInjective(s), NEW k \in 1..(Len(s) + 1),
           NEW x \in S, x \notin Range(s)
    PROVE  LET r == InsertAt(s, k, x) IN
           /\ r \in Seq(S) /\ IsInjective(r) /\ Len(r) = Len(s) + 1
           /\ Range(r) = Range(s) \cup {x}
           /\ \A i \in 1..(Len(s) + 1) : r[i] = IF i < k THEN s[i] ELSE IF i = k THEN x ELSE s[i - 1]
<1> DEFINE a == SubSeq(s, 1, k - 1)
           b == SubSeq(s, k, Len(s))
           r == InsertAt(s, k, x)
<1>1. /\ Len(s) \in Nat /\ DOMAIN s = 1..Len(s) /\ \A i \in 1..Len(s) : s[i] \in S
      /\ k \in Nat /\ k >= 1 /\ k <= Len(s) + 1
  BY LenProperties, ElementOfSeq
<1>2. a \in Seq(S) /\ Len(a) = k - 1 /\ \A i \in 1..(k - 1) : a[i] = s[i]
  <2>1. \A i \in 1..(k - 1) : s[i] \in S
    BY <1>1
  <2>2. k - 1 \in Int /\ 1 \in Int
    BY <1>1
  <2>3. /\ a \in Seq(S) /\ Len(a) = (IF 1 <= k - 1 THEN (k - 1) - 1 + 1 ELSE 0)
        /\ \A i \in 1..((k - 1) - 1 + 1) : a[i] = s[1 + i - 1]
    BY <2>1, <2>2, SubSeqProperties
  <2> HIDE DEF a
  <2> QED
    BY <1>1, <2>3
<1>3. b \in Seq(S) /\ Len(b) = Len(s) - k + 1 /\ \A i \in 1..(Len(s) - k + 1) : b[i] = s[k + i - 1]
  <2>1. \A i \in k..Len(s) : s[i] \in S
    BY <1>1
  <2>2. /\ b \in Seq(S) /\ Len(b) = (IF k <= Len(s) THEN Len(s) - k + 1 ELSE 0)
        /\ \A i \in 1..(Len(s) - k + 1) : b[i] = s[k + i - 1]
    BY <1>1, <2>1, SubSeqProperties
  <2> HIDE DEF b
  <2> QED
    BY <1>1, <2>2
<1>4. r = (a \o <<x>>) \o b
  BY DEF InsertAt
<1> HIDE DEF a, b, r
<1>5. /\ r \in Seq(S) /\ Len(r) = Len(s) + 1 /\ DOMAIN r = 1..(Len(s) + 1)
      /\ \A i \in 1..(Len(s) + 1) : r[i] = IF i < k THEN s[i] ELSE IF i = k THEN x ELSE s[i - 1]
  <2> DEFINE c == a \o <<x>>
  <2>1. <<x>> \in Seq(S) /\ Len(<<x>>) = 1 /\ <<x>>[1] = x
    OBVIOUS
  <2>2. /\ c \in Seq(S) /\ Len(c) = Len(a) + Len(<<x>>)
        /\ \A i \in 1..(Len(a) + Len(<<x>>)) : c[i] = IF i <= Len(a) THEN a[i] ELSE <<x>>[i - Len(a)]
    BY <1>2, <2>1, ConcatProperties
  <2>3. c \in Seq(S) /\ Len(c) = k /\ \A i \in 1..k : c[i] = IF i < k THEN s[i] ELSE x
    <3> HIDE DEF c
    <3> QED
      BY <1>1, <1>2, <2>1, <2>2
  <2> HIDE DEF c
  <2>4. /\ r \in Seq(S) /\ Len(r) = Len(c) + Len(b)
        /\ \A i \in 1..(Len(c) + Len(b)) : r[i] = IF i <= Len(c) THEN c[i] ELSE b[i - Len(c)]
    <3>1. r = c \o b
      BY <1>4 DEF c
    <3> QED
      BY <1>3, <2>3, <3>1, ConcatProperties
  <2>5. Len(c) + Len(b) = Len(s) + 1
    BY <1>1, <1>3, <2>3
  <2>6. \A i \in 1..(Len(s) + 1) : r[i] = IF i < k THEN s[i] ELSE IF i = k THEN x ELSE s[i - 1]
    <3>1. SUFFICES ASSUME NEW i \in 1..(Len(s) + 1)
                   PROVE  r[i] = IF i < k THEN s[i] ELSE IF i = k THEN x ELSE s[i - 1]
      OBVIOUS
    <3>2. r[i] = IF i <= k THEN c[i] ELSE b[i - k]
      BY <2>3, <2>4, <2>5, <3>1
    <3>3. CASE i <= k
      BY <1>1, <2>3, <3>2, <3>3
    <3>4. CASE i > k
      <4>1. i - k \in 1..(Len(s) - k + 1) /\ k + (i - k) - 1 = i - 1
        BY <1>1, <3>4
      <4> QED
        BY <1>1, <1>3, <3>2, <3>4, <4>1
    <3> QED
      BY <1>1, <3>3, <3>4
  <2> QED
    BY <2>4, <2>5, <2>6, LenProperties
<1>6. \A i, j \in 1..Len(s) : s[i] = s[j] => i = j
  BY <1>1 DEF IsInjective
<1>7. \A i \in 1..Len(s) : s[i] # x
  BY <1>1 DEF Range
<1>8. ASSUME NEW i \in 1..(Len(s) + 1), NEW j \in 1..(Len(s) + 1), r[i] = r[j]
      PROVE  i = j
  <2> DEFINE p == IF i < k THEN i ELSE i - 1
             q == IF j < k THEN j ELSE j - 1
  <2>1. /\ i # k => p \in 1..Len(s) /\ r[i] = s[p]
        /\ j # k => q \in 1..Len(s) /\ r[j] = s[q]
        /\ i # k /\ j # k /\ p = q => i = j
    BY <1>1, <1>5
  <2>2. (i = k => r[i] = x) /\ (j = k => r[j] = x)
    BY <1>1, <1>5
  <2> HIDE DEF p, q
  <2> QED
    BY <1>6, <1>7, <1>8, <2>1, <2>2
<1>9. Range(r) = Range(s) \cup {x}
  <2>1. ASSUME NEW i \in 1..(Len(s) + 1), r[i] # x PROVE \E j \in 1..Len(s) : r[i] = s[j]
    <3>1. i # k
      BY <1>1, <1>5, <2>1
    <3>2. CASE i < k
      BY <1>1, <1>5, <2>1, <3>2
    <3>3. CASE i > k
      <4>1. i - 1 \in 1..Len(s) /\ ~(i < k) /\ r[i] = s[i - 1]
        BY <1>1, <1>5, <2>1, <3>3
      <4> QED
        BY <4>1
    <3> QED
      BY <1>1, <3>1, <3>2, <3>3
  <2>2. \A j \in 1..Len(s) : \E i \in 1..(Len(s) + 1) : r[i] = s[j]
    <3>1. SUFFICES ASSUME NEW j \in 1..Len(s) PROVE \E i \in 1..(Len(s) + 1) : r[i] = s[j]
      OBVIOUS
    <3>2. CASE j < k
      BY <1>1, <1>5, <3>1, <3>2
    <3>3. CASE ~(j < k)
      <4>1. j + 1 \in 1..(Len(s) + 1) /\ ~(j + 1 < k) /\ j + 1 # k /\ (j + 1) - 1 = j
        BY <1>1, <3>1, <3>3
      <4> QED
        BY <1>5, <4>1
    <3> QED
      BY <3>2, <3>3
  <2>3. k \in 1..(Len(s) + 1) /\ r[k] = x
    BY <1>1, <1>5
  <2>4. \A y : y \in Range(r) <=> \E i \in 1..(Len(s) + 1) : y = r[i]
    BY <1>5 DEF Range
  <2>5. \A y : y \in Range(s) <=> \E j \in 1..Len(s) : y = s[j]
    BY <1>1 DEF Range
  <2>6. ASSUME NEW y \in Range(r) PROVE y \in Range(s) \cup {x}
    BY <2>1, <2>4, <2>5, <2>6
  <2>7. ASSUME NEW y \in Range(s) \cup {x} PROVE y \in Range(r)
    BY <2>2, <2>3, <2>4, <2>5, <2>7
  <2> QED
    BY <2>6, <2>7
<1>10. IsInjective(r)
  BY <1>5, <1>8 DEF IsInjective
<1> QED
  BY <1>5, <1>9, <1>10 DEF r

\* One more page of what has been collected.
LEMMA PageCollected ==
    ASSUME NEW k \in Nat, NEW c \in Nat, list \in Seq(Items), got \in Seq(Items), got' \in Seq(Items),
           Len(got') = Len(got) + c,
           \A i \in 1..(Len(got) + c) : got'[i] = IF i <= Len(got) THEN got[i] ELSE list[k + (i - Len(got))]
    PROVE  /\ Range(got) \subseteq Range(got')
           /\ \A j \in 1..Len(list) : k < j /\ j <= k + c => list[j] \in Range(got')
           /\ Len(got) = k /\ (\A i \in 1..k : got[i] = list[i]) => \A i \in 1..(k + c) : got'[i] = list[i]
<1>1. Len(list) \in Nat /\ Len(got) \in Nat /\ DOMAIN got = 1..Len(got)
  BY LenProperties
<1>2. \A i \in 1..(Len(got) + c) : got'[i] = IF i <= Len(got) THEN got[i] ELSE list[k + (i - Len(got))]
  OBVIOUS
<1>3. DOMAIN got' = 1..(Len(got) + c)
  BY LenProperties
<1>4. \A y : y \in Range(got') <=> \E i \in 1..(Len(got) + c) : y = got'[i]
  BY <1>3 DEF Range
<1>5. Range(got) \subseteq Range(got')
  <2>1. ASSUME NEW i \in 1..Len(got) PROVE got[i] \in Range(got')
    <3>1. i \in 1..(Len(got) + c) /\ i <= Len(got)
      BY <1>1, <2>1
    <3> QED
      BY <1>2, <1>4, <3>1
  <2> QED
    BY <1>1, <2>1 DEF Range
<1>6. ASSUME NEW j \in 1..Len(list), k < j, j <= k + c PROVE list[j] \in Range(got')
  <2>1. j - k \in 1..c /\ k + (j - k) = j
    BY <1>1, <1>6
  <2> DEFINE i == Len(got) + (j - k)
  <2>2. i \in 1..(Len(got) + c) /\ ~(i <= Len(got)) /\ i - Len(got) = j - k
    BY <1>1, <2>1
  <2> HIDE DEF i
  <2>3. got'[i] = list[j]
    BY <1>2, <2>1, <2>2
  <2> QED
    BY <1>4, <2>2, <2>3
<1>7. ASSUME Len(got) = k, \A i \in 1..k : got[i] = list[i], NEW i \in 1..(k + c) PROVE got'[i] = list[i]
  <2>1. CASE i <= k
    BY <1>2, <1>7, <2>1
  <2>2. CASE ~(i <= k)
    <3>1. i - k \in 1..c /\ k + (i - k) = i
      BY <1>7, <2>2
    <3> QED
      BY <1>2, <1>7, <2>2, <3>1
  <2> QED
    BY <2>1, <2>2
<1> QED
  BY <1>5, <1>6, <1>7

-----------------------------------------------------------------------------
(* The scan.                                                               *)

ListOK ==
    /\ list \in Seq(Items) /\ IsInjective(list)
    /\ fresh \subseteq Items \ Range(list) /\ kept \subseteq Range(list)

\* How much of the list the scan is past.
Past == (page - 1) * ScanSize

\* Unless something was removed or moved, an item that was there all the time
\* is behind the scan only when it has been collected; and as long as nothing
\* was inserted either, the scan has collected just what it is past.
ReadOK ==
    page > 0 =>
       /\ Past <= Cardinality(Items)
       /\ ~disturbed =>
             /\ Past <= Len(list)
             /\ \A i \in 1..Len(list) : i <= Past /\ list[i] \in kept => list[i] \in Range(got)
             /\ kept = Range(list) => Len(got) = Past /\ \A i \in 1..Past : got[i] = list[i]

DoneOK ==
    ended => /\ page = 0
             /\ ~disturbed => /\ kept \subseteq Range(got)
                              /\ kept = Range(list) => got = list

ScanInv ==
    /\ ListOK /\ ReadOK /\ DoneOK
    /\ page \in Nat /\ got \in Seq(Items) /\ disturbed \in BOOLEAN /\ ended \in BOOLEAN

\* An int can count the list, and the page after it.
LEMMA ListFits ==
    ASSUME ListOK
    PROVE  /\ Len(list) \in Nat /\ DOMAIN list = 1..Len(list) /\ Cardinality(Items) \in Nat
           /\ Len(list) <= Cardinality(Items) /\ Cardinality(Items) + MaxPageSize <= MaxInt
           /\ Len(list) + MaxPageSize <= MaxInt
           /\ ScanSize \in 1..MaxPageSize /\ ScanSize \in Nat /\ ScanSize >= 1
<1>1. IsFiniteSet(Items) /\ Cardinality(Items) = Cardinality(Items)
  BY ScanAssumption
<1>2. Cardinality(Items) \in Nat
  BY <1>1, FS_CardinalityType
<1>3. Len(list) \in Nat /\ DOMAIN list = 1..Len(list) /\ list \in [1..Len(list) -> Items]
  BY LenProperties DEF ListOK
<1>4. list \in Injection(1..Len(list), Items)
  BY <1>3 DEF ListOK, IsInjective, Injection, IsInjective
<1>5. Cardinality(1..Len(list)) <= Cardinality(Items)
  BY <1>1, <1>4, FS_Injection
<1>6. Cardinality(1..Len(list)) = Len(list)
  BY <1>3, FS_Interval
<1>7. Cardinality(Items) + MaxPageSize <= MaxInt /\ ScanSize \in 1..MaxPageSize
  BY ScanAssumption
<1>8. Len(list) <= Cardinality(Items)
  BY <1>1, <1>5, <1>6
<1> QED
  BY <1>1, <1>2, <1>3, <1>7, <1>8, IntRange

\* What one list call returns to the scan.
LEMMA PageRead ==
    ASSUME ScanInv, page > 0
    PROVE  LET found == PageOf(Len(list), page, ScanSize) IN
           /\ Past \in Nat /\ page * ScanSize = Past + ScanSize /\ Offset(page, ScanSize) = Past
           /\ Cardinality(found) = IF Past >= Len(list) THEN 0
                                         ELSE IF Past + ScanSize < Len(list) THEN ScanSize ELSE Len(list) - Past
<1> DEFINE total == Len(list)
           found == PageOf(total, page, ScanSize)
           end == Smaller(Wrap(Past + ScanSize), total)
<1>1. page \in Int /\ page >= 1 /\ Past <= Cardinality(Items) /\ ListOK
  BY DEF ScanInv, ReadOK
<1>2. total \in Nat /\ total + MaxPageSize <= MaxInt /\ ScanSize \in 1..MaxPageSize /\ ScanSize \in Nat /\ ScanSize >= 1
  BY <1>1, ListFits
<1>3. Past \in Int
  BY <1>1, <1>2 DEF Past
<1>4. Past <= MaxInt
  BY <1>1, <1>3, ListFits, IntRange
<1>5. Past \in Nat /\ Offset(page, ScanSize) = Past
  BY <1>1, <1>2, <1>4, FittingOffset DEF Past
<1>6. page * ScanSize = Past + ScanSize
  BY <1>1, <1>2 DEF Past
<1>7. NormalPage(page) = page /\ NormalSize(ScanSize) = ScanSize
  BY <1>1, <1>2, IntRange DEF NormalPage, NormalSize
<1>8. found = IF Past >= total THEN {} ELSE Slice(Past, end, total)
  BY <1>5, <1>7 DEF PageOf
<1> HIDE DEF found, end, total
<1>9. \A T : Cardinality(T) = Cardinality(T)
  BY DEF Cardinality, Cardinality
<1>10. CASE Past >= total
  BY <1>5, <1>6, <1>8, <1>9, <1>10, FS_EmptySet DEF found, total
<1>11. CASE ~(Past >= total)
  <2>1. Past \in 0..total
    BY <1>2, <1>5, <1>11
  <2>2. /\ Slice(Past, end, total) = (Past + 1)..end
        /\ end = IF Past + ScanSize < total THEN Past + ScanSize ELSE total
    BY <1>2, <2>1, Cut DEF end
  <2>3. end \in Int /\ end >= Past + 1
    BY <1>2, <1>5, <1>11, <2>2
  <2>4. Cardinality((Past + 1)..end) = end - (Past + 1) + 1
    BY <1>5, <2>3, FS_Interval
  <2>5. Cardinality(found) = end - Past
    BY <1>5, <1>8, <1>9, <1>11, <2>2, <2>3, <2>4
  <2>6. Cardinality(found) = IF Past + ScanSize < total THEN ScanSize ELSE total - Past
    BY <1>2, <1>5, <2>2, <2>5
  <2> QED
    BY <1>5, <1>6, <1>11, <2>6 DEF found, total
<1> QED
  BY <1>10, <1>11

\* A scan begins with nothing behind it.
LEMMA ScanStarts ==
    ASSUME ScanInv, Scan
    PROVE  ScanInv'
<1>1. /\ page' = 1 /\ got' = <<>> /\ kept' = Range(list) /\ disturbed' = FALSE /\ ended' = FALSE
      /\ list' = list /\ fresh' = fresh
  BY DEF Scan
<1>2. ListOK' /\ DoneOK' /\ got' \in Seq(Items)
  BY <1>1 DEF ScanInv, ListOK, DoneOK, Range, IsInjective
<1>3. ListOK
  BY DEF ScanInv
<1>4. Past' = 0
  <2>1. (1 - 1) * ScanSize = 0
    BY <1>3, ListFits
  <2> QED
    BY <1>1, <2>1 DEF Past
<1>5. Len(got') = 0
  BY <1>1
<1>6. 0 <= Len(list) /\ 0 <= Cardinality(Items) /\ \A i \in 1..Len(list) : ~(i <= 0)
  BY <1>3, ListFits
<1>7. ReadOK'
  BY <1>1, <1>4, <1>5, <1>6 DEF ReadOK, Range, Cardinality
<1> QED
  BY <1>1, <1>2, <1>7 DEF ScanInv

\* A page of the scan.
LEMMA PageKeeps ==
    ASSUME ScanInv, ReadPage
    PROVE  ScanInv'
<1> DEFINE k == Past
           total == Len(list)
           c == Cardinality(PageOf(total, page, ScanSize))
           n == Cardinality(Items)
<1>1. /\ page > 0 /\ page \in Nat /\ got \in Seq(Items) /\ ListOK /\ list \in Seq(Items)
      /\ list' = list /\ fresh' = fresh /\ kept' = kept /\ disturbed' = disturbed
      /\ k <= n /\ disturbed \in BOOLEAN
  BY DEF ReadPage, ScanInv, ListOK, ReadOK
<1>2. /\ k \in Nat /\ page * ScanSize = k + ScanSize /\ Offset(page, ScanSize) = k
      /\ c = IF k >= total THEN 0 ELSE IF k + ScanSize < total THEN ScanSize ELSE total - k
  BY <1>1, PageRead
<1>3. /\ total \in Nat /\ DOMAIN list = 1..total /\ total <= n /\ n \in Nat
      /\ ScanSize \in Nat /\ ScanSize >= 1
  BY <1>1, ListFits
<1>4. /\ got' = got \o [i \in 1..c |-> list[k + i]]
      /\ ended' = (k + ScanSize >= total)
      /\ page' = IF k + ScanSize >= total THEN 0 ELSE page + 1
  BY <1>2 DEF ReadPage, LastPage
<1>5. /\ ~disturbed => k <= total
      /\ ~disturbed => \A i \in 1..total : i <= k /\ list[i] \in kept => list[i] \in Range(got)
      /\ ~disturbed /\ kept = Range(list) => Len(got) = k /\ \A i \in 1..k : got[i] = list[i]
  BY <1>1 DEF ScanInv, ReadOK
<1>6. /\ ended' => page' = 0
      /\ page' > 0 => page' = page + 1 /\ k + ScanSize < total /\ Past' = k + ScanSize
  <2>1. ended' => page' = 0
    BY <1>4
  <2>2. ASSUME page' > 0 PROVE page' = page + 1 /\ k + ScanSize < total
    BY <1>2, <1>3, <1>4, <2>2
  <2>3. page' = page + 1 => Past' = k + ScanSize
    <3>1. (page + 1) - 1 = page
      BY <1>1
    <3>2. page' = page + 1 => Past' = page * ScanSize
      BY <3>1 DEF Past
    <3> QED
      BY <1>2, <3>2
  <2> QED
    BY <2>1, <2>2, <2>3
<1> HIDE DEF k, total, c, n
<1>7. c \in Nat /\ (c = 0 \/ k + c <= total)
  BY <1>2, <1>3
<1>8. /\ got' \in Seq(Items) /\ Range(got) \subseteq Range(got')
      /\ \A j \in 1..total : k < j /\ j <= k + c => list[j] \in Range(got')
      /\ Len(got) = k /\ (\A i \in 1..k : got[i] = list[i])
            => Len(got') = k + c /\ \A i \in 1..(k + c) : got'[i] = list[i]
  <2>1. list \in Seq(Items) /\ got \in Seq(Items) /\ k \in Nat /\ c \in Nat /\ (c = 0 \/ k + c <= Len(list))
    BY <1>1, <1>2, <1>7 DEF total
  <2>2. got' = got \o [i \in 1..c |-> list[k + i]]
    BY <1>4
  <2>3. /\ got' \in Seq(Items) /\ Range(got) \subseteq Range(got')
        /\ \A j \in 1..Len(list) : k < j /\ j <= k + c => list[j] \in Range(got')
        /\ Len(got) = k /\ (\A i \in 1..k : got[i] = list[i])
              => Len(got') = k + c /\ \A i \in 1..(k + c) : got'[i] = list[i]
    <3> DEFINE u == [i \in 1..c |-> list[k + i]]
    <3>1. \A i \in 1..c : list[k + i] \in Items
      <4>1. Len(list) \in Nat /\ \A i \in 1..Len(list) : list[i] \in Items
        BY <2>1, LenProperties, ElementOfSeq
      <4>2. \A i \in 1..c : k + i \in 1..Len(list)
        BY <2>1, <4>1
      <4> QED
        BY <4>1, <4>2
    <3>2. u \in Seq(Items) /\ Len(u) = c /\ \A i \in 1..c : u[i] = list[k + i]
      BY <2>1, <3>1
    <3>3. got' = got \o u
      BY <2>2
    <3> HIDE DEF u
    <3>4. /\ got' \in Seq(Items) /\ Len(got') = Len(got) + Len(u)
          /\ \A i \in 1..(Len(got) + Len(u)) : got'[i] = IF i <= Len(got) THEN got[i] ELSE u[i - Len(got)]
      BY <2>1, <3>2, <3>3, ConcatProperties
    <3>5. /\ Len(got) \in Nat /\ Len(got') = Len(got) + c
          /\ \A i \in 1..(Len(got) + c) : got'[i] = IF i <= Len(got) THEN got[i] ELSE list[k + (i - Len(got))]
      <4>1. Len(got) \in Nat
        BY <2>1, LenProperties
      <4>2. ASSUME NEW i \in 1..(Len(got) + c)
            PROVE  got'[i] = IF i <= Len(got) THEN got[i] ELSE list[k + (i - Len(got))]
        <5>1. ~(i <= Len(got)) => i - Len(got) \in 1..c
          BY <2>1, <4>1, <4>2
        <5> QED
          BY <3>2, <3>4, <4>2, <5>1
      <4> QED
        BY <3>2, <3>4, <4>1, <4>2
    <3> HIDE DEF k, c
    <3>6. /\ Range(got) \subseteq Range(got')
          /\ \A j \in 1..Len(list) : k < j /\ j <= k + c => list[j] \in Range(got')
          /\ Len(got) = k /\ (\A i \in 1..k : got[i] = list[i]) => \A i \in 1..(k + c) : got'[i] = list[i]
      BY <2>1, <3>4, <3>5, PageCollected
    <3> QED
      BY <3>4, <3>5, <3>6
  <2> QED
    BY <2>3 DEF total
<1>9. ASSUME ~disturbed
      PROVE  /\ \A i \in 1..total : i <= k + c /\ list[i] \in kept => list[i] \in Range(got')
             /\ kept = Range(list) => Len(got') = k + c /\ \A i \in 1..(k + c) : got'[i] = list[i]
  <2>1. ASSUME NEW i \in 1..total, i <= k + c, list[i] \in kept PROVE list[i] \in Range(got')
    <3>1. CASE i <= k
      BY <1>5, <1>8, <1>9, <2>1, <3>1
    <3>2. CASE ~(i <= k)
      BY <1>2, <1>8, <2>1, <3>2
    <3> QED
      BY <3>1, <3>2
  <2> QED
    BY <1>5, <1>8, <1>9, <2>1
<1>10. ListOK'
  BY <1>1 DEF ListOK, Range, IsInjective
<1>11. DoneOK'
  <2>1. SUFFICES ASSUME ended', ~disturbed
                 PROVE  kept \subseteq Range(got') /\ (kept = Range(list) => got' = list)
    BY <1>1, <1>6 DEF DoneOK, Range
  <2>2. k + c = total
    <3>1. k + ScanSize >= total
      BY <1>4, <2>1
    <3>2. k <= total
      BY <1>5, <2>1
    <3> QED
      BY <1>2, <1>3, <3>1, <3>2
  <2>3. \A i \in 1..total : i <= k + c
    BY <1>3, <2>2
  <2>4. kept \subseteq Range(list) /\ \A y \in Range(list) : \E i \in 1..total : y = list[i]
    BY <1>1, <1>3 DEF ListOK, Range
  <2>5. kept \subseteq Range(got')
    BY <1>9, <2>1, <2>3, <2>4
  <2>6. ASSUME kept = Range(list) PROVE got' = list
    <3>1. Len(got') = Len(list) /\ \A i \in 1..Len(got') : got'[i] = list[i]
      BY <1>9, <2>1, <2>2, <2>6 DEF total
    <3> QED
      BY <1>1, <1>8, <3>1, SeqEqual
  <2> QED
    BY <2>5, <2>6
<1>12. ReadOK'
  <2>1. SUFFICES ASSUME page' > 0 PROVE ReadOK'
    BY DEF ReadOK
  <2>2. k + ScanSize < total /\ Past' = k + c /\ c = ScanSize /\ k + c <= total /\ k + c <= n
    BY <1>2, <1>3, <1>6, <2>1
  <2> QED
    BY <1>1, <1>9, <2>1, <2>2 DEF ReadOK, Range, total, n, Cardinality
<1>13. page' \in Nat /\ ended' \in BOOLEAN
  BY <1>1, <1>4
<1> QED
  BY <1>1, <1>8, <1>10, <1>11, <1>12, <1>13 DEF ScanInv

\* A new item, wherever it sorts, moves nothing towards the front.
LEMMA InsertionKeeps ==
    ASSUME ScanInv, NEW x \in Items, Insert(x)
    PROVE  ScanInv'
<1>1. /\ ListOK /\ list \in Seq(Items) /\ IsInjective(list) /\ x \in fresh /\ fresh' = fresh \ {x}
      /\ x \notin Range(list) /\ kept \subseteq Range(list) /\ fresh \subseteq Items \ Range(list)
      /\ page' = page /\ got' = got /\ kept' = kept /\ disturbed' = disturbed /\ ended' = FALSE
      /\ page \in Nat /\ got \in Seq(Items) /\ disturbed \in BOOLEAN
  BY DEF Insert, ScanInv, ListOK
<1>2. PICK k \in 1..(Len(list) + 1) : list' = InsertAt(list, k, x)
  BY DEF Insert
<1>3. /\ list' \in Seq(Items) /\ IsInjective(list') /\ Len(list') = Len(list) + 1
      /\ Range(list') = Range(list) \cup {x}
      /\ \A i \in 1..(Len(list) + 1) : list'[i] = IF i < k THEN list[i] ELSE IF i = k THEN x ELSE list[i - 1]
  BY <1>1, <1>2, ItemInserted
<1>4. ListOK'
  <2>1. fresh' \subseteq Items \ Range(list') /\ kept' \subseteq Range(list')
    BY <1>1, <1>3
  <2> QED
    BY <1>3, <2>1 DEF ListOK, Range, IsInjective
<1>5. DoneOK'
  BY <1>1 DEF DoneOK
<1>6. ReadOK'
  <2>1. SUFFICES ASSUME page > 0 PROVE ReadOK'
    BY <1>1 DEF ReadOK
  <2>2. Past' = Past /\ Past \in Nat /\ Len(list) \in Nat
    BY <1>1, <2>1, PageRead, ListFits DEF Past
  <2>3. Past <= Cardinality(Items)
    BY <2>1 DEF ScanInv, ReadOK
  <2>4. ASSUME ~disturbed
        PROVE  /\ Past <= Len(list')
               /\ kept # Range(list')
               /\ \A i \in 1..Len(list') : i <= Past /\ list'[i] \in kept => list'[i] \in Range(got)
    <3>1. /\ Past <= Len(list)
          /\ \A i \in 1..Len(list) : i <= Past /\ list[i] \in kept => list[i] \in Range(got)
      BY <2>1, <2>4 DEF ScanInv, ReadOK
    <3>2. Past <= Len(list')
      BY <1>3, <2>2, <3>1
    <3>3. kept # Range(list')
      BY <1>1, <1>3
    <3>4. ASSUME NEW i \in 1..Len(list'), i <= Past, list'[i] \in kept PROVE list'[i] \in Range(got)
      <4>1. i \in 1..(Len(list) + 1) /\ i \in Nat /\ i >= 1 /\ k \in Nat /\ k >= 1
        BY <1>3, <2>2, <3>4
      <4>2. i # k
        BY <1>1, <1>3, <3>4, <4>1
      <4>3. CASE i < k
        <5>1. i \in 1..Len(list) /\ list'[i] = list[i]
          BY <1>2, <1>3, <2>2, <4>1, <4>3
        <5> QED
          BY <3>1, <3>4, <5>1
      <4>4. CASE i > k
        <5>1. i - 1 \in 1..Len(list) /\ list'[i] = list[i - 1] /\ i - 1 <= Past
          BY <1>2, <1>3, <2>2, <3>4, <4>1, <4>4
        <5> QED
          BY <3>1, <3>4, <5>1
      <4> QED
        BY <4>1, <4>2, <4>3, <4>4
    <3> QED
      BY <3>2, <3>3, <3>4
  <2> QED
    BY <1>1, <2>2, <2>3, <2>4 DEF ReadOK, Range, Cardinality
<1> QED
  BY <1>1, <1>4, <1>5, <1>6 DEF ScanInv

\* After a removal or a move the scan is only known to end.
LEMMA DisturbanceKeeps ==
    ASSUME ScanInv, ListOK', UNCHANGED <<page, got>>, disturbed' = TRUE, ended' = FALSE
    PROVE  ScanInv'
<1>1. ReadOK'
  BY DEF ScanInv, ReadOK, Past, Cardinality
<1>2. DoneOK'
  BY DEF DoneOK
<1> QED
  BY <1>1, <1>2 DEF ScanInv

\* DeleteEntry.
LEMMA DeletionKeeps ==
    ASSUME ScanInv, NEW k \in DOMAIN list, Delete(k)
    PROVE  ScanInv'
<1>1. /\ list \in Seq(Items) /\ IsInjective(list)
      /\ fresh \subseteq Items \ Range(list) /\ kept \subseteq Range(list)
      /\ list' = RemoveAt(list, k) /\ kept' = kept \ {list[k]} /\ fresh' = fresh
  BY DEF Delete, ScanInv, ListOK
<1>2. /\ list' \in Seq(Items) /\ IsInjective(list')
      /\ Range(list') = Range(list) \ {list[k]}
  BY <1>1, ItemRemoved
<1>3. fresh' \subseteq Items \ Range(list') /\ kept' \subseteq Range(list')
  BY <1>1, <1>2
<1>4. ListOK'
  BY <1>2, <1>3 DEF ListOK, Range, IsInjective
<1> QED
  BY <1>4, DisturbanceKeeps DEF Delete

\* UpdateEntry, UpdateAccountGroup and UpdateCategory keep the items.
LEMMA MoveKeeps ==
    ASSUME ScanInv, NEW k \in DOMAIN list, NEW l \in DOMAIN list, Move(k, l)
    PROVE  ScanInv'
<1> DEFINE r == RemoveAt(list, k)
<1>1. /\ list \in Seq(Items) /\ IsInjective(list) /\ Len(list) \in Nat /\ DOMAIN list = 1..Len(list)
      /\ fresh \subseteq Items \ Range(list) /\ kept \subseteq Range(list)
      /\ list' = InsertAt(r, l, list[k]) /\ kept' = kept /\ fresh' = fresh
  BY ListFits DEF Move, ScanInv, ListOK
<1>2. r \in Seq(Items) /\ IsInjective(r) /\ Len(r) = Len(list) - 1 /\ Range(r) = Range(list) \ {list[k]}
  BY <1>1, ItemRemoved
<1>3. list[k] \in Items /\ list[k] \in Range(list)
  BY <1>1, ElementOfSeq DEF Range
<1> HIDE DEF r
<1>4. l \in 1..(Len(r) + 1)
  BY <1>1, <1>2
<1>5. /\ list' \in Seq(Items) /\ IsInjective(list')
      /\ Range(list') = Range(r) \cup {list[k]}
  BY <1>1, <1>2, <1>3, <1>4, ItemInserted
<1>6. Range(list') = Range(list)
  BY <1>2, <1>3, <1>5
<1>7. ListOK'
  BY <1>1, <1>5, <1>6 DEF ListOK, Range, IsInjective
<1> QED
  BY <1>7, DisturbanceKeeps DEF Move

\* The invariant of a scan, whatever other requests do between its pages.
THEOREM ScanInvariant == ScanSpec => []ScanInv
<1>1. ASSUME ScanInit PROVE ScanInv
  <2>1. list = <<>> /\ page = 0 /\ got = <<>> /\ kept = {} /\ disturbed = FALSE /\ ended = FALSE /\ fresh = Items
    BY <1>1 DEF ScanInit
  <2>2. list \in Seq(Items) /\ got \in Seq(Items) /\ DOMAIN list = {}
    BY <2>1
  <2>3. ListOK
    BY <2>1, <2>2 DEF ListOK, IsInjective, Range
  <2>4. ReadOK /\ DoneOK /\ page \in Nat
    BY <2>1 DEF ReadOK, DoneOK
  <2>5. disturbed \in BOOLEAN /\ ended \in BOOLEAN
    BY <2>1
  <2> QED
    BY <2>2, <2>3, <2>4, <2>5 DEF ScanInv
<1>2. ASSUME ScanInv, [ScanNext]_scanVars PROVE ScanInv'
  <2>1. CASE UNCHANGED scanVars
    BY <1>2, <2>1 DEF scanVars, ScanInv, ListOK, ReadOK, DoneOK, Past, Range, IsInjective, Cardinality
  <2>2. CASE ScanNext
    BY <1>2, <2>2, ScanStarts, PageKeeps, InsertionKeeps, DeletionKeeps, MoveKeeps DEF ScanNext
  <2> QED
    BY <1>2, <2>1, <2>2
<1> QED
  BY <1>1, <1>2, PTL DEF ScanSpec

\* A scan collects every item that was there all the time, however many are
\* inserted between its pages and wherever they sort; and one that nothing
\* interferes with returns the list (listAllImport..., importEntriesByIDs).
THEOREM ScansMissNothing == ScanSpec => []InsertionsHideNothing
<1>1. ASSUME ScanInv PROVE InsertionsHideNothing
  <2>1. ListOK /\ DoneOK /\ page \in Nat /\ got \in Seq(Items) /\ disturbed \in BOOLEAN /\ ended \in BOOLEAN
    BY <1>1 DEF ScanInv
  <2>2. page \in 0..(Cardinality(Items) + 1)
    <3>1. Cardinality(Items) \in Nat /\ ScanSize \in Nat /\ ScanSize >= 1
      BY <2>1, ListFits
    <3>2. CASE page = 0
      BY <3>1, <3>2
    <3>3. CASE page > 0
      <4>1. page - 1 \in Nat /\ Past <= Cardinality(Items) /\ Past = (page - 1) * ScanSize
        BY <1>1, <2>1, <3>3 DEF ScanInv, ReadOK, Past
      <4> DEFINE a == page - 1
      <4>2. a * ScanSize \in Nat /\ a <= a * ScanSize
        <5> HIDE DEF a
        <5>1. a \in Nat
          BY <4>1 DEF a
        <5>2. CASE a = 0
          BY <3>1, <5>2
        <5>3. CASE a > 0
          <6>1. a * 1 <= a * ScanSize
            <7> DEFINE d == ScanSize - 1
            <7>1. d \in Nat /\ ScanSize = d + 1
              BY <3>1
            <7> HIDE DEF d
            <7>2. a * ScanSize = a * d + a /\ a * d \in Nat
              BY <5>1, <7>1
            <7> QED
              BY <5>1, <7>2
          <6> QED
            BY <3>1, <5>1, <6>1
        <5> QED
          BY <5>1, <5>2, <5>3
      <4> QED
        BY <2>1, <3>1, <4>1, <4>2
    <3> QED
      BY <2>1, <3>2, <3>3
  <2>3. Range(got) \subseteq Items
    BY <2>1, LenProperties DEF Range
  <2>4. ScanTypeOK
    BY <2>1, <2>2, <2>3 DEF ScanTypeOK, ListOK
  <2> QED
    BY <2>1, <2>4 DEF InsertionsHideNothing, DoneOK
<1> QED
  BY <1>1, ScanInvariant, PTL

\* The pages of a list are its pieces, for every page and size that a client
\* asks for whose offset an int can hold, and the audit list never slices out
\* of range (paginate, ListEntries, paginateEvents).
THEOREM PagesArePiecesOfTheList == ScanSpec => []PagesPartition
<1>1. ASSUME ScanInv PROVE PagesPartition
  <2> DEFINE total == Len(list)
  <2>1. total \in Nat /\ total + MaxPageSize <= MaxInt
    BY <1>1, ListFits DEF ScanInv
  <2> HIDE DEF total
  <2>2. Pages \subseteq Int /\ Sizes \subseteq Int
    BY IntRange DEF Pages, Sizes
  <2>3. PagesArePieces(total)
    BY <2>1, <2>2, PageIsPiece DEF PagesArePieces
  <2>4. EventPagesArePieces(total)
    BY <2>1, <2>2, EventPageIsPiece DEF EventPagesArePieces
  <2>5. \A p \in Pages, s \in Sizes : PageOfEvents(total, p, s) # Panic
    BY <2>1, <2>2, EventPageIsPiece
  <2> QED
    BY <2>3, <2>4, <2>5 DEF PagesPartition, total
<1> QED
  BY <1>1, ScanInvariant, PTL
=============================================================================
