-------------------------- MODULE MCSnapshotStore --------------------------
\* TLC instances of SnapshotStore.
EXTENDS SnapshotStore
=============================================================================
