----------------------------- MODULE MCPageScan -----------------------------
\* TLC instances of PageScan: ids are interchangeable.
EXTENDS PageScan, TLC

Symmetric == Permutations(Items)
=============================================================================
