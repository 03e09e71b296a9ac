---------------------------- MODULE MCHashTable ----------------------------
\* TLC's instance of the hash table.
EXTENDS HashTable

\* All keys share one of the two buckets: what happens in different buckets has
\* nothing in common.
TwoBuckets   == {0, 1}
SharedBucket == [k \in Keys |-> 0]
=============================================================================
