---------------------------- MODULE BoundedCache ----------------------------
(***************************************************************************)
(* What a cache promises: it remembers no more keys than its limit, a put  *)
(* makes room by forgetting one, and a get answers with the value put last *)
(* for a key it remembers.  Which key goes is up to the cache.             *)
(***************************************************************************)
EXTENDS Naturals, FiniteSets

CONSTANTS Keys, Values,
          Miss       \* the answer for a key that is not cached

VARIABLES limit,     \* how many keys there is room for
          cached,    \* the keys it remembers
          latest,    \* the value put last for each key, Miss if none
          answer     \* that of the last get

Init == /\ limit \in Nat
        /\ cached = {}
        /\ latest = [k \in Keys |-> Miss]
        /\ answer = Miss

Remember(k) == \/ k \in cached /\ UNCHANGED cached
               \/ Cardinality(cached) < limit /\ cached' = cached \cup {k}
               \/ /\ k \notin cached /\ Cardinality(cached) = limit
                  /\ \E victim \in cached : cached' = (cached \ {victim}) \cup {k}
               \/ limit = 0 /\ UNCHANGED cached

Put(k, v) == /\ latest' = [latest EXCEPT ![k] = v]
             /\ Remember(k)
             /\ UNCHANGED <<limit, answer>>

Get(k) == /\ answer' = IF k \in cached THEN latest[k] ELSE Miss
          /\ UNCHANGED <<limit, cached, latest>>

Next == \E k \in Keys : Get(k) \/ \E v \in Values : Put(k, v)

Spec == Init /\ [][Next]_<<limit, cached, latest, answer>>
=============================================================================
