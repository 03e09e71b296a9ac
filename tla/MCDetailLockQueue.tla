-------------------------- MODULE MCDetailLockQueue --------------------------
\* TLC's instance of the queue with a lock for each end.
EXTENDS DetailLockQueueRefinement, TLC

\* Nodes, pushers and poppers are interchangeable in the safety run.
Symmetry == Permutations(Nodes) \cup Permutations(Pushers) \cup Permutations(Poppers)
=============================================================================
