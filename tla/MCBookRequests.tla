--------------------------- MODULE MCBookRequests ---------------------------
\* TLC instances of BookRequests: the handlers are interchangeable.
EXTENDS BookRequests, TLC

Handlers == Permutations(Reqs)
=============================================================================
