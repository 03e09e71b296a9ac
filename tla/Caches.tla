------------------------------- MODULE Caches -------------------------------
(***************************************************************************)
(* The two caches against what a cache promises: a behaviour runs one of   *)
(* them.                                                                   *)
(***************************************************************************)
EXTENDS LRUCache, LFUCache

\* A key is an int.
ASSUME CachesAssumption == IsFiniteSet(Keys)

VARIABLE kind  \* the class of the cache

vars == <<kind, baseVars, lruVars, lfuVars>>

Init == \/ kind = "LRU" /\ LRUInit /\ LFUEmpty
        \/ kind = "LFU" /\ LFUInit /\ LRUEmpty

Next == \/ kind = "LRU" /\ LRUNext /\ UNCHANGED <<kind, lfuVars>>
        \/ kind = "LFU" /\ LFUNext /\ UNCHANGED <<kind, lruVars>>

Spec == Init /\ [][Next]_vars

-----------------------------------------------------------------------------
\* KeepsMostRecent says what the LRU cache holds.
LRUKeepsMostRecent == kind = "LRU" => KeepsMostRecent

\* A negative capacity is none for the LRU cache, and 0 for the LFU cache.
Promise == INSTANCE BoundedCache WITH
  limit  <- IF cap >= 0 THEN cap ELSE IF kind = "LRU" THEN Cardinality(Keys) ELSE 0,
  cached <- IF kind = "LRU" THEN DOMAIN keyToLst ELSE DOMAIN keyToValue,
  latest <- written,
  answer <- res

\* Through whatever its lists and maps go, either cache answers a get with the
\* last value put for a key it has kept, and -1 for any other; a put drops one
\* key, and only when the cache is full.
ImplementsCache == Promise!Spec
=============================================================================
