---------------------------- MODULE MCAuditChain ----------------------------
\* TLC instances of AuditChain: recorders and texts are interchangeable.
EXTENDS AuditChain, TLC

Symmetric == Permutations(Recorders) \cup Permutations(Texts)
=============================================================================
