------------------------------ MODULE MCServer -------------------------------
\* TLC instance of Server: one client with and without a subject for the
\* limiter, or summaries next to the updater, with the file of a store that was
\* seeded without rates and with a new SQL store.
EXTENDS Server

CONSTANTS CNY, GBP, r1, c1, s1

MCDefaultRates == [c \in Currencies |-> IF c = USD THEN 20 ELSE IF c = EUR THEN 17 ELSE 144]

Only(kind, some) == [r \in Reqs |-> IF r \in some THEN kind ELSE {}]
MCStarts == {[driver |-> "memory", updater |-> "off", kinds |-> Only({"auth"}, Reqs), rates |-> DefaultRates],
             [driver |-> "memory", updater |-> "fetch", kinds |-> Only({"summary"}, {r1}), rates |-> NoRates],
             [driver |-> "sql", updater |-> "fetch", kinds |-> Only({"summary"}, {r1}), rates |-> DefaultRates]}

Quote(c, n) == [currency |-> c, rate |-> n]
\* A plain feed, one with a currency nobody asked for and a corrected quote,
\* one below the precision, and two that are refused.
MCFeeds == {<<Quote(USD, 11), Quote(CNY, 78)>>,
            <<Quote(GBP, 0), Quote(USD, 9), Quote(CNY, 70), Quote(USD, 12)>>,
            <<Quote(USD, 90), Quote(CNY, 1)>>,
            <<Quote(CNY, 78)>>,
            <<Quote(USD, 0), Quote(CNY, 78), Quote(USD, 11)>>}

Entry(type, cents, currency, text, at) ==
    [type |-> type, cents |-> cents, currency |-> currency, text |-> text, at |-> at]
Half == [from |-> EUR, to |-> USD, num |-> 3, den |-> 2]

\* A book with entries on both sides of midnight, one of which wraps around at
\* some of the rates, and one with rates of its own next to an entry whose text
\* has come to name the wrong currencies.
MCBooks == <<[currency |-> USD,
              entries |-> <<Entry("income", 110, EUR, NoText, 1), Entry("expense", 5, CNY, NoText, 1),
                            Entry("refund", 3, EUR, NoText, 2), Entry("transfer", 9, EUR, NoText, 1)>>],
             [currency |-> EUR,
              entries |-> <<Entry("lend", 5, USD, Half, 0), Entry("repayment", 9, CNY, NoText, 1),
                            Entry("borrow", 1, CNY, Half, 2)>>]>>
MCCallers == {<<c1, NoSubject>>, <<c1, s1>>}
MCQueries == {<<1, NoDay, NoDay>>, <<1, 0, 0>>, <<1, 1, NoDay>>, <<2, NoDay, 0>>, <<2, 1, NoDay>>}
==============================================================================
