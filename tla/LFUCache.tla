------------------------------ MODULE LFUCache ------------------------------
(***************************************************************************)
(* LFUCache: the value and the frequency of each key, the keys of each     *)
(* frequency in the order they reached it, and the lowest frequency.       *)
(* (algorithm/least_frequently_used/LFU.cpp)                               *)
(***************************************************************************)
EXTENDS CacheBase

CONSTANTS LFUCaps,  \* the capacities the constructor is called with
          MaxFreq   \* bounds the run: no key is used more often

ASSUME LFUAssumption == LFUCaps \subseteq Int /\ MaxFreq \in Nat \ {0}

VARIABLES minFreq,     \* _minFreq
          keyToValue,  \* _keyToValue
          keyToFreq,   \* _keyToFreq
          freqToKey,   \* _freqToKey
          uses         \* ghost: how often each key was used since it came in

lfuVars == <<minFreq, keyToValue, keyToFreq, freqToKey, uses>>

LFUEmpty == /\ minFreq = 0
            /\ keyToValue = <<>> /\ keyToFreq = <<>> /\ freqToKey = <<>>
            /\ uses = [k \in Keys |-> 0]

LFUInit == BaseInit(LFUCaps) /\ LFUEmpty

Known(k) == k \in DOMAIN keyToValue

\* unordered_map's operator[] makes an empty list for a new frequency.
KeysAt(lists, f)       == IF f \in DOMAIN lists THEN lists[f] ELSE <<>>
AppendAt(lists, f, k)  == With(lists, f, Append(KeysAt(lists, f), k))

\* The list of frequency f becomes l, or is erased when nothing is left of it.
Shrink(lists, f, l) == IF l = <<>> THEN Without(lists, f) ELSE With(lists, f, l)

IncreaseFreq_KeepsMin(k) ==
  LET cur == keyToFreq[k] IN
  /\ cur < MaxFreq
  /\ keyToFreq' = With(keyToFreq, k, cur + 1)
  /\ freqToKey' = AppendAt(Shrink(freqToKey, cur, RemoveFirst(freqToKey[cur], k)), cur + 1, k)
  /\ minFreq' = minFreq

IncreaseFreq_InFront(k) ==
  LET cur  == keyToFreq[k]
      left == RemoveFirst(freqToKey[cur], k) IN
  /\ cur < MaxFreq
  /\ keyToFreq' = With(keyToFreq, k, cur + 1)
  /\ freqToKey' = With(Shrink(freqToKey, cur, left), cur + 1, <<k>> \o KeysAt(freqToKey, cur + 1))
  /\ minFreq' = IF left = <<>> /\ minFreq = cur THEN cur + 1 ELSE minFreq

\* list::remove takes every element that is equal to k, and there is one
\* (FrequenciesMatch).
IncreaseFreq(k) ==
  LET cur  == keyToFreq[k]
      left == RemoveFirst(freqToKey[cur], k) IN
  /\ cur < MaxFreq
  /\ keyToFreq' = With(keyToFreq, k, cur + 1)
  /\ freqToKey' = AppendAt(Shrink(freqToKey, cur, left), cur + 1, k)
  /\ minFreq' = IF left = <<>> /\ minFreq = cur THEN cur + 1 ELSE minFreq

Uses(k, n) == uses' = [uses EXCEPT ![k] = n] /\ Use(k)

LFUGetHit(k) ==
  /\ Known(k)
  /\ IncreaseFreq(k)
  /\ res' = keyToValue[k]
  /\ Uses(k, uses[k] + 1)
  /\ UNCHANGED <<cap, keyToValue, written>>

LFUGetMiss(k) ==
  /\ ~Known(k)
  /\ res' = Miss
  /\ UNCHANGED <<cap, recent, written, lfuVars>>

\* put with no capacity returns at once.
PutIgnored(k, v) ==
  /\ cap <= 0
  /\ Written(k, v)
  /\ UNCHANGED <<cap, res, recent, lfuVars>>

PutKnown(k, v) ==
  /\ cap > 0 /\ Known(k)
  /\ keyToValue' = With(keyToValue, k, v)
  /\ IncreaseFreq(k)
  /\ Uses(k, uses[k] + 1) /\ Written(k, v)
  /\ UNCHANGED <<cap, res>>

\* The key comes in with frequency 1, given the maps an eviction left.
Enter(k, v, values, freqs, lists) ==
  /\ keyToValue' = With(values, k, v)
  /\ keyToFreq' = With(freqs, k, 1)
  /\ freqToKey' = AppendAt(lists, 1, k)
  /\ minFreq' = 1
  /\ Uses(k, 1) /\ Written(k, v)
  /\ UNCHANGED <<cap, res>>

PutRoom(k, v) ==
  /\ cap > 0 /\ ~Known(k)
  /\ Cardinality(DOMAIN keyToFreq) < cap
  /\ Enter(k, v, keyToValue, keyToFreq, freqToKey)

\* removeMinFreqKey: the oldest key of the lowest frequency goes.
PutEvict(k, v) ==
  LET minKey == Head(freqToKey[minFreq])
      lists  == Shrink(freqToKey, minFreq, Tail(freqToKey[minFreq])) IN
  /\ cap > 0 /\ ~Known(k)
  /\ Cardinality(DOMAIN keyToFreq) >= cap
  /\ Enter(k, v, Without(keyToValue, minKey), Without(keyToFreq, minKey), lists)

LFUPut(k, v) == PutIgnored(k, v) \/ PutKnown(k, v) \/ PutRoom(k, v) \/ PutEvict(k, v)

LFUNext == \E k \in Keys : LFUGetHit(k) \/ LFUGetMiss(k) \/ \E v \in Values : LFUPut(k, v)

-----------------------------------------------------------------------------
Cached == DOMAIN keyToValue

LFUTypeOK == /\ BaseTypeOK
             /\ minFreq \in Nat
             /\ Cached \subseteq Keys /\ \A k \in Cached : keyToValue[k] \in Values
             /\ Cardinality(Cached) <= (IF cap > 0 THEN cap ELSE 0)
             /\ \A k \in DOMAIN keyToFreq : keyToFreq[k] \in 1..MaxFreq
             /\ \A f \in DOMAIN freqToKey : f \in Nat /\ freqToKey[f] \in Seq(Keys)
             /\ uses \in [Keys -> Nat]

\* The lists by frequency split up the cached keys: each key is once in the
\* list of its own frequency and in no other, and no empty list is left behind.
\* _minFreq is the lowest frequency of a cached key after every sequence of
\* calls, although it is only ever set to 1 or counted up by one.
FrequenciesMatch ==
  /\ LFUTypeOK
  /\ DOMAIN keyToFreq = Cached
  /\ \A f \in DOMAIN freqToKey :
       /\ freqToKey[f] # <<>>
       /\ IsInjective(freqToKey[f])
       /\ ToSet(freqToKey[f]) = {k \in Cached : keyToFreq[k] = f}
  /\ Cached # {} => /\ minFreq \in DOMAIN freqToKey
                    /\ \A k \in Cached : minFreq <= keyToFreq[k]

\* Position in the order of use: the smaller, the more recent.
Age(k) == CHOOSE i \in DOMAIN recent : recent[i] = k

\* A key that goes was used the least since it came in, and of those used as
\* little it is the one whose last use is the oldest.
EvictsLeastUsed ==
  [][\A k \in Cached \ Cached' : \A j \in Cached \ {k} :
       uses[k] < uses[j] \/ (uses[k] = uses[j] /\ Age(k) > Age(j))]_lfuVars
=============================================================================
