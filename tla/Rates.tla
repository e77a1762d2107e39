-------------------------------- MODULE Rates --------------------------------
(***************************************************************************)
(* The table of exchange rates (ledger/rates.go) and the totals of a book  *)
(* that are computed with it (BookSummary of ledger/service.go).           *)
(*                                                                         *)
(* A rate table maps currencies to units per USD, counted in parts of      *)
(* 1/Precision (10^-8 in the code).  The feed of the European Central Bank *)
(* is a sequence of quotes per euro in parts of 1/Scale; a quote of 0      *)
(* stands for any text that is not a positive number.                      *)
(***************************************************************************)
EXTENDS Money, Sequences, FiniteSets, FiniteSetsExt

CONSTANTS Precision,     \* of the stored rates
          Scale,         \* of the quotes
          DefaultRates,  \* the bootstrap table
          DayLength      \* moments in a day

ASSUME RatesAssumption == /\ {Precision, Scale, DayLength} \subseteq Nat \ {0}
                          /\ DefaultRates \in [Currencies -> Nat \ {0}]

NoRates == [c \in {} |-> 0]

\* What ratesFromECBCubes collects: the last quote of every currency, and one
\* euro per euro.
Quoted(cubes) == {cubes[i].currency : i \in DOMAIN cubes} \cap Currencies
LastQuote(cubes, c) == cubes[Max({i \in DOMAIN cubes : cubes[i].currency = c})].rate
EuroRates(cubes) == [c \in Quoted(cubes) \cup {EUR} |->
                        IF c \in Quoted(cubes) THEN LastQuote(cubes, c) ELSE Scale]

\* ratesFromECBCubes returns no error: every quote of a supported currency is
\* positive, an overridden one too, and none is missing.
Usable(cubes) ==
    /\ \A i \in DOMAIN cubes : cubes[i].currency \in Currencies => cubes[i].rate > 0
    /\ USD \in Quoted(cubes)
    /\ Currencies \subseteq DOMAIN EuroRates(cubes)

\* The table it returns then.  FloatString rounds to the nearest decimal, and
\* a quotient below half of the precision to zero.
RatesFromECBCubes(cubes) ==
    LET euro == EuroRates(cubes) IN
    [c \in Currencies |-> IF c = USD THEN Precision
                          ELSE RoundHalf(euro[c] * Precision, euro[USD])]

\* exchangeRateIndex falls back on the bootstrap table when nothing is stored,
\* and rejects a table with a rate that is missing or not positive.
EffectiveRates(rates) == IF DOMAIN rates = {} THEN DefaultRates ELSE rates
Indexed(rates) == LET table == EffectiveRates(rates) IN
    \A c \in Currencies : c \in DOMAIN table /\ table[c] > 0

-----------------------------------------------------------------------------
(* BookSummary: an entry has a type, an amount, a currency, a rate text    *)
(* and a moment.                                                           *)

Inflows == {"income", "borrow", "refund", "reimbursement", "repayment"}
Outflows == {"expense", "lend"}
EntryTypes == Inflows \cup Outflows \cup {"transfer"}

\* normalizeDateRange and entryInRange: from the start of the first day to
\* the start of the day after the last; NoDay leaves a side open.
NoDay == -1
InRange(entry, first, last) ==
    /\ first # NoDay => entry.at >= first * DayLength
    /\ last # NoDay => entry.at < (last + 1) * DayLength

AsRatios(rates) == [c \in DOMAIN rates |-> [num |-> rates[c], den |-> Precision]]

\* entryAmountInCurrencyCents
EntryConverts(entry, target) ==
    Converts(entry.currency, target, entry.text, Currencies)
EntryCents(entry, target, rates) ==
    ConvertAmountCents(entry.cents, entry.currency, target, entry.text, AsRatios(EffectiveRates(rates)))

\* The loop over the entries; the sums are int64 as well.
Selected(book, first, last) == {i \in DOMAIN book.entries : InRange(book.entries[i], first, last)}
TotalOf(book, ids, types, rates) ==
    ToInt64(MapThenSumSet(LAMBDA i : EntryCents(book.entries[i], book.currency, rates),
                          {i \in ids : book.entries[i].type \in types}))
Summarizes(book, first, last) ==
    \A i \in Selected(book, first, last) : EntryConverts(book.entries[i], book.currency)
Summary(book, first, last, rates) ==
    LET ids == Selected(book, first, last)
        total(types) == TotalOf(book, ids, types, rates)
    IN [count |-> Cardinality(ids),
        income |-> total({"income", "borrow"}),
        expense |-> total(Outflows),
        refund |-> total({"refund", "reimbursement", "repayment"}),
        balance |-> ToInt64(total(Inflows) - total(Outflows)),
        transfers |-> Cardinality({i \in ids : book.entries[i].type = "transfer"})]
==============================================================================
