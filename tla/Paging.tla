------------------------------- MODULE Paging -------------------------------
(***************************************************************************)
(* The paginators of the list endpoints.  ledger.paginate, auth.paginate   *)
(* and the inline copy in ledger.ListEntries are one algorithm, the audit  *)
(* service's List has its own.  All of them compute the offset of a page   *)
(* in Go's int, so arithmetic is modulo Modulus (2^64 in the program).     *)
(*                                                                         *)
(* A page is the set of 1-based positions of the list that it holds.       *)
(***************************************************************************)
EXTENDS Integers

CONSTANTS Modulus,          \* 2^64
          DefaultPageSize,  \* 50
          MaxPageSize,      \* 100
          Panic,            \* a slice expression out of range
          Rejected          \* ErrInvalidInput

ASSUME PageSizesAssumption ==
    /\ MaxPageSize \in Nat /\ DefaultPageSize \in 1..MaxPageSize
    /\ Modulus \in Nat /\ Modulus % 2 = 0 /\ 4 * MaxPageSize < Modulus
    /\ Panic # Rejected /\ \A i, j \in 0..Modulus : Panic # i..j

MaxInt == Modulus \div 2 - 1
MinInt == -(Modulus \div 2)
\* Two's complement: what an int holds after an operation that overflows.
Wrap(x) == ((x - MinInt) % Modulus) + MinInt

Smaller(x, y) == IF x < y THEN x ELSE y

\* items[start:end] of a list of the given length.
Slice(start, end, total) ==
    IF 0 <= start /\ start <= end /\ end <= total THEN (start + 1)..end ELSE Panic

\* normalizePage and normalizeEntryPage
NormalPage(page) == IF page < 1 THEN 1 ELSE page
NormalSize(size) ==
    CASE size < 1 -> DefaultPageSize
      [] size > MaxPageSize -> MaxPageSize
      [] OTHER -> size

OffsetOfNextPage(page, size) == Wrap(page * size)
Offset(page, size) == Wrap((page - 1) * size)

\* ledger.paginate, auth.paginate, ledger.ListEntries
PageOf(total, page, size) ==
    LET n == NormalSize(size)
        start == Offset(NormalPage(page), n)
    IN IF start >= total THEN {}
       ELSE Slice(start, Smaller(Wrap(start + n), total), total)

\* audit.List and ListAll: zero means the default, other values out of range
\* are refused, and paginateEvents clamps the offset.
AuditNumber(x, default) == IF x = 0 THEN default ELSE x
Clamp(start, total) == IF start < 0 \/ start > total THEN total ELSE start
PageOfEvents(total, page, size) ==
    LET p == AuditNumber(page, 1)
        n == AuditNumber(size, DefaultPageSize)
        start == Clamp(Offset(p, n), total)
    IN IF p < 1 \/ n < 1 \/ n > MaxPageSize THEN Rejected
       ELSE Slice(start, Smaller(Wrap(start + n), total), total)

-----------------------------------------------------------------------------
\* Every page number an int holds, and every size the paginators tell apart.
Pages == MinInt..MaxInt
Sizes == (-1)..(MaxPageSize + 1)

\* Reference: page p of the list cut into pieces of n, and the pages whose
\* offset an int can hold.
Piece(total, p, n) == {i \in 1..total : (i - 1) \div n = p - 1}
Fits(p, n) == (p - 1) * n <= MaxInt

PagesArePieces(total) ==
    \A page \in Pages, size \in Sizes :
       LET p == NormalPage(page)
           n == NormalSize(size)
       IN Fits(p, n) => PageOf(total, page, size) = Piece(total, p, n)
EventPagesArePieces(total) ==
    \A page \in Pages, size \in Sizes :
       LET p == AuditNumber(page, 1)
           n == AuditNumber(size, DefaultPageSize)
       IN p >= 1 /\ n \in 1..MaxPageSize /\ Fits(p, n)
          => PageOfEvents(total, page, size) = Piece(total, p, n)
=============================================================================
