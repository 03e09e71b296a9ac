------------------------------ MODULE LRUCache ------------------------------
(***************************************************************************)
(* LRUCache: a list of key/value pairs, most recently used first, and a    *)
(* map from each key to its list node.                                     *)
(* (algorithm/least_recently_used/LRU.cpp)                                 *)
(*                                                                         *)
(* List nodes have addresses: erasing a node invalidates the iterators to  *)
(* it, and a later push_front may reuse its address.                       *)
(***************************************************************************)
EXTENDS CacheBase

CONSTANTS Nodes,   \* addresses of list nodes
          LRUCaps  \* the capacities the constructor is called with

ASSUME LRUAssumption == LRUCaps \subseteq Int \ {0} /\ Miss \notin Values

VARIABLES lst,      \* _lst: the addresses of its nodes, in order
          pair,     \* the nodes that exist, and what they hold
          keyToLst  \* _keyToLst: its keys, and the nodes they lead to

lruVars == <<lst, pair, keyToLst>>

LRUEmpty == lst = <<>> /\ pair = <<>> /\ keyToLst = <<>>

LRUInit == BaseInit(LRUCaps) /\ LRUEmpty

InList(k) == k \in DOMAIN keyToLst

\* _lst.size() >= _cap compares unsigned numbers: a negative capacity is greater
\* than any size.  (A capacity of 0 would make put read the back of an empty
\* list.)
Full == 0 <= cap /\ cap <= Len(lst)

\* _lst.push_front(pair(k, v)); _keyToLst[k] = _lst.begin(), given what the
\* erase or the eviction before it left of the list, its nodes and the map.
PushFront(k, v, l, p, m) ==
  \E n \in Nodes \ DOMAIN p :
    /\ lst' = <<n>> \o l
    /\ pair' = With(p, n, [key |-> k, val |-> v])
    /\ keyToLst' = With(m, k, n)

LRUReplace_OldValue(k, v) ==
  /\ InList(k)
  /\ PushFront(k, pair[keyToLst[k]].val, RemoveFirst(lst, keyToLst[k]), Without(pair, keyToLst[k]), keyToLst)

\* _lst.erase(_keyToLst[k])
LRUReplace(k, v) ==
  /\ InList(k)
  /\ PushFront(k, v, RemoveFirst(lst, keyToLst[k]), Without(pair, keyToLst[k]), keyToLst)

LRUInsert(k, v) ==
  /\ ~InList(k)
  /\ ~Full
  /\ PushFront(k, v, lst, pair, keyToLst)

LRUEvict_KeepsIterator(k, v) ==
  /\ ~InList(k)
  /\ Full
  /\ PushFront(k, v, Front(lst), Without(pair, Last(lst)), keyToLst)

\* _keyToLst.erase(_lst.back().first); _lst.pop_back()
LRUEvict(k, v) ==
  /\ ~InList(k)
  /\ Full
  /\ PushFront(k, v, Front(lst), Without(pair, Last(lst)), Without(keyToLst, pair[Last(lst)].key))

LRUPut(k, v) ==
  /\ LRUReplace(k, v) \/ LRUInsert(k, v) \/ LRUEvict(k, v)
  /\ Use(k) /\ Written(k, v)
  /\ UNCHANGED <<cap, res>>

LRUGetHit_NoRefresh(k) ==
  /\ InList(k)
  /\ res' = pair[keyToLst[k]].val
  /\ Use(k)
  /\ UNCHANGED <<cap, written, lruVars>>

\* put(key, _keyToLst[key]->second), and the value is read from the new node.
LRUGetHit(k) ==
  /\ InList(k)
  /\ LRUReplace(k, pair[keyToLst[k]].val)
  /\ res' = pair'[keyToLst'[k]].val
  /\ Use(k)
  /\ UNCHANGED <<cap, written>>

LRUGetMiss(k) ==
  /\ ~InList(k)
  /\ res' = Miss
  /\ UNCHANGED <<cap, recent, written, lruVars>>

LRUNext == \E k \in Keys : LRUGetHit(k) \/ LRUGetMiss(k) \/ \E v \in Values : LRUPut(k, v)

-----------------------------------------------------------------------------
LRUTypeOK == /\ BaseTypeOK
             /\ lst \in Seq(Nodes) /\ (cap > 0 => Len(lst) <= cap)
             /\ DOMAIN pair \subseteq Nodes
             /\ \A n \in DOMAIN pair : pair[n] \in [key : Keys, val : Values]
             /\ DOMAIN keyToLst \subseteq Keys
             /\ \A k \in DOMAIN keyToLst : keyToLst[k] \in Nodes

\* The map and the list describe each other: every iterator in the map is valid
\* and leads to the node of its key, and no node is without an iterator.
IteratorsValid ==
  /\ LRUTypeOK
  /\ IsInjective(lst)
  /\ ToSet(lst) = DOMAIN pair
  /\ DOMAIN pair = {keyToLst[k] : k \in DOMAIN keyToLst}
  /\ \A k \in DOMAIN keyToLst : pair[keyToLst[k]].key = k

\* The keys used most recently, as many as the cache has room for.
MostRecent == IF cap > 0 /\ cap < Len(recent) THEN SubSeq(recent, 1, cap) ELSE recent

\* Whatever was put, read, replaced and evicted before, the cache holds the
\* keys used last, as many as its capacity, in the order of their use, and no
\* other key; a negative capacity is none.
KeepsMostRecent == [i \in DOMAIN lst |-> pair[lst[i]].key] = MostRecent
=============================================================================
