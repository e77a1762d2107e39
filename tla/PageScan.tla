------------------------------ MODULE PageScan ------------------------------
(***************************************************************************)
(* Reading a whole list page by page (listAllImportAccounts and its two    *)
(* siblings, importEntriesByIDs in httpserver/import_routes.go) while other*)
(* requests change it.  Every page is a list call of its own, so what the  *)
(* scan sees of one page and of the next are two states of the list.  The  *)
(* import creates whatever account, group or category the scan did not     *)
(* find.                                                                   *)
(*                                                                         *)
(* The list is in the order the store sorts it: entries by OccurredAt,     *)
(* groups and categories by SortOrder, accounts by their random id.        *)
(***************************************************************************)
EXTENDS Paging, Sequences, SequencesExt, FiniteSets

CONSTANTS Items,     \* ids
          ScanSize   \* the page size of a scan, 100

\* What is assumed of them: an int can count the items.
ASSUME ScanAssumption == /\ ScanSize \in 1..MaxPageSize
                         /\ IsFiniteSet(Items) /\ Cardinality(Items) + MaxPageSize <= MaxInt

VARIABLES list,      \* the items, in list order
          fresh,     \* ids not handed out yet
          page,      \* the page the scan reads next; 0 when there is no scan
          got,       \* the items it has collected, in order
          kept,      \* history: items listed ever since the scan began
          disturbed, \* history: an item was removed, or moved towards the front
          ended      \* history: the last step finished a scan

scanVars == <<list, fresh, page, got, kept, disturbed, ended>>

ScanTypeOK == /\ list \in Seq(Items) /\ IsInjective(list)
              /\ fresh \subseteq Items \ Range(list)
              /\ page \in 0..(Cardinality(Items) + 1)
              /\ Range(got) \subseteq Items
              /\ kept \subseteq Range(list)
              /\ disturbed \in BOOLEAN /\ ended \in BOOLEAN

ScanInit == /\ list = <<>> /\ fresh = Items
            /\ page = 0 /\ got = <<>>
            /\ kept = {} /\ disturbed = FALSE /\ ended = FALSE

-----------------------------------------------------------------------------
\* A scan starts on the first page.
Scan ==
    /\ page = 0
    /\ page' = 1 /\ got' = <<>>
    /\ kept' = Range(list) /\ disturbed' = FALSE /\ ended' = FALSE
    /\ UNCHANGED <<list, fresh>>

\* The loop leaves after the page on which the list it has just seen ends.
LastFullPage(p) == (p + 1) * ScanSize >= Len(list)
LastPage(p) == p * ScanSize >= Len(list)

\* One list call; a page's positions are consecutive.
ReadPage ==
    LET found == PageOf(Len(list), page, ScanSize)
        at == Offset(page, ScanSize)
    IN
    /\ page > 0
    /\ got' = got \o [i \in 1..Cardinality(found) |-> list[at + i]]
    /\ ended' = LastPage(page)
    /\ page' = IF LastPage(page) THEN 0 ELSE page + 1
    /\ UNCHANGED <<list, fresh, kept, disturbed>>

-----------------------------------------------------------------------------
\* Other requests.  A new item sorts anywhere.
Insert(x) ==
    /\ x \in fresh
    /\ fresh' = fresh \ {x}
    /\ \E k \in 1..(Len(list) + 1) : list' = InsertAt(list, k, x)
    /\ ended' = FALSE
    /\ UNCHANGED <<page, got, kept, disturbed>>

\* DeleteEntry; accounts, groups and categories are never removed.
Delete(k) ==
    /\ list' = RemoveAt(list, k)
    /\ kept' = kept \ {list[k]}
    /\ disturbed' = TRUE /\ ended' = FALSE
    /\ UNCHANGED <<fresh, page, got>>

\* UpdateEntry changes OccurredAt; UpdateAccountGroup and UpdateCategory change
\* SortOrder.  Moving k back brings those behind it forward.
Move(k, l) ==
    /\ k # l
    /\ list' = InsertAt(RemoveAt(list, k), l, list[k])
    /\ disturbed' = TRUE /\ ended' = FALSE
    /\ UNCHANGED <<fresh, page, got, kept>>

ScanNext == \/ Scan \/ ReadPage
            \/ \E x \in Items : Insert(x)
            \/ \E k \in DOMAIN list : Delete(k)
            \/ \E k, l \in DOMAIN list : Move(k, l)

ScanSpec == ScanInit /\ [][ScanNext]_scanVars

-----------------------------------------------------------------------------
\* However many items are inserted between two pages, and wherever they sort,
\* a scan collects every item that was there all the time; only a removal or
\* a move hides one.  A scan that nothing interferes with returns the list
\* itself, nothing twice and in order (the loops of listAllImport... and
\* importEntriesByIDs).
InsertionsHideNothing ==
    /\ ScanTypeOK
    /\ ended /\ ~disturbed => /\ kept \subseteq Range(got)
                              /\ kept = Range(list) => got = list

\* The list calls of other clients, looked at when a scan begins: once for
\* every list.
ScanBegins == page = 1 /\ got = <<>> /\ kept = Range(list)

\* As long as the offset fits an int, the pages of a list are its pieces: no
\* item is on two pages or on none (paginate, ListEntries, paginateEvents).
\* Whatever page is asked for, the audit list cuts a slice it has: an offset
\* that wrapped around is clamped (paginateEvents).
PagesPartition ==
    ScanBegins => /\ PagesArePieces(Len(list)) /\ EventPagesArePieces(Len(list))
                  /\ \A p \in Pages, size \in Sizes : PageOfEvents(Len(list), p, size) # Panic
=============================================================================
