----------------------------- MODULE Categories -----------------------------
(***************************************************************************)
(* The category tree of one book (ledger/accounts_categories.go) and the   *)
(* handlers that create, move and edit categories.  As in BookRequests a   *)
(* service call is a sequence of store calls with nothing held in between: *)
(* UpdateCategory reads the category, reads the tree again to validate the *)
(* patched parent, and only then replaces the whole record.                *)
(*                                                                         *)
(* A category is its parent and its direction; name, order, archive flag   *)
(* and raw source name only matter in that editing them rewrites the       *)
(* record, parent and direction included.                                  *)
(***************************************************************************)
CONSTANTS Cats,       \* category ids (uuid.NewString)
          Root,       \* the empty parent id of a top-level category
          Unchanged,  \* a nil field of UpdateCategoryRequest
          NoCategory, \* no row stored under the id
          Reqs        \* handler goroutines that may run at the same time

Directions == {"income", "expense"}
Category == [parent: Cats \cup {Root}, direction: Directions]

ASSUME MarkersAssumption == /\ Root \notin Cats
                            /\ Unchanged \notin Cats \cup {Root} \cup Directions
                            /\ NoCategory \notin Category

VARIABLES category,   \* Store.Categories: id -> record
          req,        \* what every handler is doing
          stale,      \* history: requests whose tree check another write has overtaken
          raced       \* history: such a request has written a parent

vars == <<category, req, stale, raced>>

Exists(c) == category[c] # NoCategory

\* A request: the category it updates (Root stands for "none": a creation),
\* the fields it sends, and the record it is about to write.
PCs == {"idle", "read", "validate", "walking", "write"}
Request == [pc: PCs, id: Cats \cup {Root},
            parent: Cats \cup {Root, Unchanged}, direction: Directions \cup {Unchanged},
            copy: Category]

AnyCategory == [parent |-> Root, direction |-> "income"]
Arrival(pc, id, parent, direction, copy) ==
    [pc |-> pc, id |-> id, parent |-> parent, direction |-> direction, copy |-> copy]
Idle == Arrival("idle", Root, Unchanged, Unchanged, AnyCategory)

\* The request's own fields are not needed once the record is patched.
At(q, pc, copy) == Arrival(pc, q.id, Unchanged, Unchanged, copy)

TypeOK == /\ category \in [Cats -> Category \cup {NoCategory}]
          /\ req \in [Reqs -> Request]
          /\ stale \subseteq Reqs
          /\ raced \in BOOLEAN

Init == /\ category = [c \in Cats |-> NoCategory]
        /\ req = [r \in Reqs |-> Idle]
        /\ stale = {}
        /\ raced = FALSE

Continue(r, q) == req' = [req EXCEPT ![r] = q]
Finish(r) == Continue(r, Idle)

-----------------------------------------------------------------------------
\* categoryParents: the parent of every id.  An id that is not stored has the
\* empty parent, as a missing key of the map does.
CategoryParents == [c \in Cats |-> IF Exists(c) THEN category[c].parent ELSE Root]

\* The ids the ancestor loop of validateCategoryFields visits from p on: the
\* least set that holds p and, with a category, its parent.
Closed(parents, S) == \A x \in S : parents[x] # Root => parents[x] \in S
Ancestors(parents, p) ==
    {x \in Cats : \A S \in SUBSET Cats : p \in S /\ Closed(parents, S) => x \in S}

\* The loop stops at an empty parent id.
WalkEnds(parents, p) == \E x \in Ancestors(parents, p) : parents[x] = Root

-----------------------------------------------------------------------------
\* A request arrives and Store.Member says its actor is an owner or an
\* administrator; one that is denied changes nothing and is left out.
Waiting(r) == req[r].pc = "idle"
Receive(r, q) ==
    /\ Continue(r, q)
    /\ UNCHANGED <<category, stale, raced>>

\* CreateCategory has nothing to read before validation.
ReceiveCreate(r) ==
    /\ Waiting(r)
    /\ \E p \in Cats \cup {Root}, d \in Directions :
          Receive(r, Arrival("validate", Root, p, d, [parent |-> p, direction |-> d]))

\* UpdateCategory may leave either field out, and sends some other field when
\* it leaves out both.
ReceiveUpdate(r) ==
    /\ Waiting(r)
    /\ \E c \in Cats, p \in Cats \cup {Root, Unchanged}, d \in Directions \cup {Unchanged} :
          Receive(r, Arrival("read", c, p, d, AnyCategory))

\* patchCategory
Patch(old, q) ==
    [parent |-> IF q.parent = Unchanged THEN old.parent ELSE q.parent,
     direction |-> IF q.direction = Unchanged THEN old.direction ELSE q.direction]

\* categoryByID, then the patch of the record read.
ReadCategory(r) ==
    LET q == req[r] IN
    /\ q.pc = "read"
    /\ IF Exists(q.id) THEN Continue(r, At(q, "validate", Patch(category[q.id], q)))
       ELSE Finish(r)
    /\ UNCHANGED <<category, stale, raced>>

\* The checks of validateCategoryFields on a non-empty parent that end before
\* the ancestor loop.
ParentAccepted(q) ==
    /\ q.copy.parent # q.id
    /\ Exists(q.copy.parent)
    /\ category[q.copy.parent].direction = q.copy.direction

NoCycleCheck(q) == TRUE
CycleFree(q) == q.id \notin Ancestors(CategoryParents, q.copy.parent)

\* validateCategoryFields: one read of the tree, and the loop over its copy.
\* When the copy has a cycle above the parent that misses the category, the
\* loop never ends.
Validate(r) ==
    LET q == req[r]
        p == q.copy.parent
    IN
    /\ q.pc = "validate"
    /\ \/ p = Root /\ Continue(r, At(q, "write", q.copy))
       \/ p # Root /\ ~ParentAccepted(q) /\ Finish(r)
       \/ p # Root /\ ParentAccepted(q) /\ ~CycleFree(q) /\ Finish(r)
       \/ /\ p # Root /\ ParentAccepted(q) /\ CycleFree(q)
          /\ Continue(r, At(q, IF WalkEnds(CategoryParents, p) THEN "write" ELSE "walking", q.copy))
    /\ stale' = stale \ {r}
    /\ UNCHANGED <<category, raced>>

\* The loop goes round once more; nothing it reads can change any more.
Walk(r) == req[r].pc = "walking" /\ UNCHANGED vars

\* History: writing overtakes the checks of the other handlers.
NoteWrite(r) ==
    /\ stale' = {s \in Reqs \ {r} : req[s].pc = "write"}
    /\ raced' = (raced \/ (r \in stale /\ req[r].copy.parent # Root))

\* Store.CreateCategory under a fresh id.
CreateCategory(r, c) ==
    /\ req[r].pc = "write" /\ req[r].id = Root
    /\ ~Exists(c)
    /\ category' = [category EXCEPT ![c] = req[r].copy]
    /\ Finish(r)
    /\ NoteWrite(r)

\* Store.UpdateCategory replaces the record.
UpdateCategory(r) ==
    /\ req[r].pc = "write" /\ req[r].id # Root
    /\ category' = [category EXCEPT ![req[r].id] = req[r].copy]
    /\ Finish(r)
    /\ NoteWrite(r)

\* The instance has no id left for a creation: it ends without a row.
OutOfIds(r) ==
    /\ req[r].pc = "write" /\ req[r].id = Root
    /\ \A c \in Cats : Exists(c)
    /\ Finish(r)
    /\ stale' = stale \ {r}
    /\ UNCHANGED <<category, raced>>

\* A store call fails without effect and the call returns its error.
StoreError(r) ==
    /\ req[r].pc \in {"read", "validate", "write"}
    /\ Finish(r)
    /\ stale' = stale \ {r}
    /\ UNCHANGED <<category, raced>>

Step(r) == \/ ReadCategory(r) \/ Validate(r) \/ UpdateCategory(r)
           \/ (\E c \in Cats : CreateCategory(r, c)) \/ OutOfIds(r)

Next == \E r \in Reqs : \/ ReceiveCreate(r) \/ ReceiveUpdate(r)
                        \/ Step(r) \/ Walk(r) \/ StoreError(r)

Spec == Init /\ [][Next]_vars

\* A handler goroutine is never descheduled for ever; requests need not come
\* and store calls need not fail.
FairSpec == Spec /\ \A r \in Reqs : WF_vars(Step(r))

-----------------------------------------------------------------------------
\* No category is its own ancestor: every set of categories has one whose
\* parent lies outside it.  UpdateCategory refuses a parent that "would create
\* a cycle".
AcyclicParents(parents) == \A S \in SUBSET Cats : S # {} => \E c \in S : parents[c] \notin S
Acyclic == AcyclicParents(CategoryParents)

\* A cycle appears only if a handler writes a parent that it checked against
\* a tree another handler has changed since; and only then can a request be
\* caught in the ancestor loop (validateCategoryFields, UpdateCategory).
CycleOnlyByRace == ~raced => Acyclic /\ \A r \in Reqs : req[r].pc # "walking"

\* A stored parent id always names a stored category of the book, whatever
\* the handlers interleave (categories are archived, never deleted).
ParentsExist == \A c \in Cats : CategoryParents[c] # Root => Exists(CategoryParents[c])

\* Every request that has started ends.  With several handlers it does not:
\* the ancestor loop can run for ever, and does not look at the context.
RequestsEnd == \A r \in Reqs : req[r].pc # "idle" ~> req[r].pc = "idle"

=============================================================================
