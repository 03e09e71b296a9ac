------------------------------ MODULE MCCaches ------------------------------
\* TLC's instance of the caches.
EXTENDS Caches

\* A negative capacity, the smallest, and two larger ones, all below the number
\* of keys.
SmallCaps == {-1, 1, 2, 3}

\* The LFU cache also takes 0.
AllCaps == SmallCaps \cup {0}
=============================================================================
