-------------------------- MODULE MCConsistentHash --------------------------
\* TLC's instance of consistent hashing.
EXTENDS ConsistentHash, TLC

\* The elements are interchangeable.
Symmetry == Permutations(Elts)
=============================================================================
