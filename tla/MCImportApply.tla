---------------------------- MODULE MCImportApply ----------------------------
\* TLC instances of ImportApply: a good and a faulty file of three rows, one of which is
\* skipped, with two accounts, one category and one mapped member.
EXTENDS ImportApply

CONSTANTS f1, f2, alice, wallet, bank, food

SourceRow(member, account, category, supported) ==
    [member |-> member, account |-> account, category |-> category, supported |-> supported]
ThreeRows == [f \in Files |-> <<SourceRow(Self, wallet, food, TRUE),
                                SourceRow(Self, NoName, food, FALSE),
                                SourceRow(alice, bank, food, TRUE)>>]
==============================================================================
