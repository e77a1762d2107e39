------------------------------ MODULE MCEntries ------------------------------
\* TLC instance of Entries: an owner and a member, one account shared with two
\* books, one stored entry, bodies that touch different fields and currencies.
EXTENDS Entries, TLC

CONSTANTS ann, bob, home, trip, wallet, bank, food, e1, e2, main, extra, CNY

MCWords == STRING
MCRoles == [b \in Books |-> (ann :> "owner" @@ bob :> "member")]
MCAccounts == (wallet :> [user |-> ann, group |-> main, currency |-> USD, shared |-> Books]
               @@ bank :> Absent)
MCGroups == (main :> [user |-> ann, name |-> "old", order |-> 0] @@ extra :> Absent)

Body(type, acct, dest, cat, currency, text, note) ==
    [type |-> type, account |-> acct, dest |-> dest, category |-> cat, currency |-> currency,
     text |-> text, note |-> note]
MCEntries1 == (e1 :> (Body("expense", wallet, Absent, food, USD, NoText, "a")
                      @@ [creator |-> bob, reporting |-> USD])
               @@ e2 :> Absent)

Cny == [from |-> CNY, to |-> USD, num |-> 1, den |-> 7]
Garbled == [from |-> Unknown, to |-> Unknown, num |-> 1, den |-> 1]
MCDrafts == {Body("expense", wallet, Absent, food, Absent, NoText, "a"),
             Body("transfer", bank, wallet, Absent, CNY, Cny, "a")}
MCPatches == {[note |-> "b"], [text |-> Cny, currency |-> CNY], [type |-> "income"],
              [account |-> bank], [category |-> Absent, dest |-> bank], [text |-> Garbled],
              [type |-> "gift"]}
MCGroupPatches == {[name |-> "new"], [order |-> 1]}
MCAccountDrafts == {[group |-> main, currency |-> EUR, shared |-> {home}],
                    [group |-> Absent, currency |-> USD, shared |-> Books]}

Symmetric == Permutations(Reqs)
==============================================================================
