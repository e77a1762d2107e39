---------------------------- MODULE MCCategories ----------------------------
\* TLC instances of Categories: ids and handlers are interchangeable.
EXTENDS Categories, TLC

Symmetric == Permutations(Cats) \cup Permutations(Reqs)
=============================================================================
