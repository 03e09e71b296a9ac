--------------------------- MODULE ConsistentHash ---------------------------
(***************************************************************************)
(* Consistent hashing: each member has NumberOfReplicas points on a circle *)
(* of hash values, and a name belongs to the owner of the first point      *)
(* after its own hash.  The repository has a version in Go and a smaller   *)
(* one in C++, ConsistHash.                                                *)
(* (algorithm/consisitent_hash/consistent.go and consistent.cpp)           *)
(*                                                                         *)
(* Every call holds a lock from beginning to end, Get of the Go version    *)
(* the read lock, so an action is a whole call.  Hash values are 0         *)
(* to MaxHash; the hash of each virtual node is chosen once, and two of    *)
(* them may collide: by their CRC, or because eltKey is the same string,   *)
(* as it is for element "a" with index 10 and "0a" with 1.                 *)
(***************************************************************************)
EXTENDS Integers, FiniteSets, SequencesExt

CONSTANTS Elts,          \* elements that may be added
          MaxHash,       \* the largest hash value
          ReplicaCounts, \* the arguments of the constructors
          MaxCount,      \* bounds the run: -MaxCount <= count <= MaxCount,
                         \* or so many puts of the C++ version
          Nobody,        \* what Add, Remove and put return
          ErrEmptyCircle

ASSUME HashAssumption == /\ MaxHash \in Nat
                         /\ ReplicaCounts \subseteq Nat
                         /\ {Nobody, ErrEmptyCircle} \cap Elts = {}
                         /\ MaxCount \in Nat

VARIABLES version,  \* "go" or "cxx"; there circle is _consistMap, members
                    \* a ghost (who was put), sortedHashKey is _sortedNode and
                    \* NumberOfReplicas _repl; there is no count
          circle, members, sortedHashKey, NumberOfReplicas, count,
          hash,  \* hashKey(eltKey(elt, idx)), for each elt and idx
          result    \* what the last call returned

hashVars == <<version, circle, members, sortedHashKey, NumberOfReplicas, count, hash, result>>

Points   == 0..MaxHash
Replicas == 0..(NumberOfReplicas - 1)

HashInit == /\ version \in {"go", "cxx"}
            /\ circle = <<>>
            /\ members = {}
            /\ sortedHashKey = <<>>
            /\ NumberOfReplicas \in ReplicaCounts
            /\ count = 0
            /\ hash \in [Elts -> [Replicas -> Points]]
            /\ result = Nobody

PointsOf(e) == {hash[e][i] : i \in Replicas}

\* The place of s[i] when s is sorted: so many are less, or equal and not after it.
Place(s, i) == Cardinality({j \in DOMAIN s : s[j] < s[i] \/ (s[j] = s[i] /\ j <= i)})

\* What sort.Sort and std::sort make of s.
InOrder(s) == [k \in DOMAIN s |-> s[CHOOSE i \in DOMAIN s : Place(s, i) = k]]

\* updateSortedHashes: the slice is emptied and filled again from the map; whether
\* its memory is kept is left out.
Sorted(points) == InOrder(SetToSeq(points))

\* updateSortedHashes divides by NumberOfReplicas * 4: with none it panics, after
\* the members and the circle have changed; the deferred Unlock still runs.
Panics == NumberOfReplicas = 0

Update(newCircle, step) ==
  /\ circle' = newCircle
  /\ sortedHashKey' = IF Panics THEN sortedHashKey ELSE Sorted(DOMAIN newCircle)
  /\ count' = IF Panics THEN count ELSE count + step
  /\ result' = Nobody
  /\ UNCHANGED <<version, NumberOfReplicas, hash>>

Taken(e) == [p \in DOMAIN circle \cup PointsOf(e) |-> IF p \in PointsOf(e) THEN e ELSE circle[p]]
Freed(e) == [p \in DOMAIN circle \ PointsOf(e) |-> circle[p]]

Add(e) ==
  /\ version = "go" /\ count < MaxCount
  /\ members' = members \cup {e}
  /\ Update(Taken(e), 1)

\* ConsistHash::put appends the points of every put, those it has included.
Put(e) ==
  /\ version = "cxx" /\ Len(sortedHashKey) <= (MaxCount - 1) * NumberOfReplicas
  /\ members' = members \cup {e}
  /\ circle' = Taken(e)
  /\ sortedHashKey' = InOrder(sortedHashKey \o [i \in 1..NumberOfReplicas |-> hash[e][i - 1]])
  /\ result' = Nobody
  /\ UNCHANGED <<version, NumberOfReplicas, count, hash>>

Remove_MissesFirst(e) ==
  /\ version = "go" /\ count > -MaxCount
  /\ members' = members \ {e}
  /\ Update([p \in DOMAIN circle \ {hash[e][i] : i \in Replicas \ {0}} |-> circle[p]], -1)

\* The points go whoever owns them now.
RemoveElt(e) ==
  /\ version = "go" /\ count > -MaxCount
  /\ members' = members \ {e}
  /\ Update(Freed(e), -1)

Search_OneTooFar(key) ==
  LET after == {i \in DOMAIN sortedHashKey : sortedHashKey[i] > key /\ i < Len(sortedHashKey)} IN
  IF after = {} THEN 1 ELSE 1 + CHOOSE i \in after : \A j \in after : i <= j

\* What the binary searches look for: sort.Search of the Go version a hash that
\* is greater than key, std::lower_bound one that is not less.
Greater(key) == {i \in DOMAIN sortedHashKey : sortedHashKey[i] > key}
NotLess(key) == {i \in DOMAIN sortedHashKey : sortedHashKey[i] >= key}

\* The first index found; past the last one the circle starts over.
Search(key) ==
  LET after == IF version = "go" THEN Greater(key) ELSE NotLess(key) IN
  IF after = {} THEN 1 ELSE Min(after)

Answer(key) ==
  IF circle = <<>> THEN ErrEmptyCircle ELSE circle[sortedHashKey[Search(key)]]

\* key is the hash of the name looked up.  ConsistHash::get must not be called
\* while the vector is empty, whose front it reads: before a put, or after puts with
\* 0 replicas only.
Get(key) ==
  /\ version = "cxx" => circle # <<>>
  /\ result' = Answer(key)
  /\ UNCHANGED <<version, circle, members, sortedHashKey, NumberOfReplicas, count, hash>>

HashNext == \/ \E e \in Elts : Add(e) \/ RemoveElt(e) \/ Put(e)
            \/ \E key \in Points : Get(key)

HashSpec == HashInit /\ [][HashNext]_hashVars

-----------------------------------------------------------------------------
(* Properties *)

TypeOK == /\ \A p \in DOMAIN circle : p \in Points /\ circle[p] \in Elts
          /\ members \subseteq Elts
          /\ sortedHashKey \in Seq(Points)
          /\ NumberOfReplicas \in ReplicaCounts
          /\ count \in -MaxCount..MaxCount
          /\ hash \in [Elts -> [Replicas -> Points]]
          /\ result \in Elts \cup {Nobody, ErrEmptyCircle}

\* No other element has a virtual node with this hash.
Uncontested(e, i) == \A o \in Elts \ {e} : hash[e][i] \notin PointsOf(o)

\* The variables have their types, and whatever collided, was added twice or was removed without being there, the
\* sorted hashes are those of the circle, so that every index a search returns
\* leads to an owner; only members own points, and a member owns every point it
\* shares with nobody.
MembersOwnTheirPoints ==
  /\ TypeOK
  /\ ToSet(sortedHashKey) = DOMAIN circle
  /\ \A i, j \in DOMAIN sortedHashKey : i < j => sortedHashKey[i] <= sortedHashKey[j]
  /\ version = "go" => IsInjective(sortedHashKey)
  /\ \A p \in DOMAIN circle : circle[p] \in members
  /\ \A e \in members, i \in Replicas :
       Uncontested(e, i) => hash[e][i] \in DOMAIN circle /\ circle[hash[e][i]] = e

\* How far p is from key, clockwise; for the Go version a point with the hash of
\* the key itself is a whole turn away.
Distance(key, p) == (p - key - IF version = "go" THEN 1 ELSE 0) % Cardinality(Points)

\* Get returns the owner of the nearest point after the key on the circle, and
\* ErrEmptyCircle only if there is none.
GetsNearest ==
  [][\A key \in Points : Get(key) =>
       IF circle = <<>> THEN result' = ErrEmptyCircle
       ELSE \E p \in DOMAIN circle :
              /\ result' = circle[p]
              /\ \A q \in DOMAIN circle : Distance(key, p) <= Distance(key, q)]_hashVars

\* What consistent hashing is for: a new member takes names over but moves none
\* between the others, and one that leaves gives up its own names only, if it
\* shares no point with another.
MovesFewNames ==
  [][\A e \in Elts, key \in Points : Answer(key)' # Answer(key) =>
       /\ Add(e) \/ Put(e) => Answer(key)' = e
       /\ RemoveElt(e) /\ (\A i \in Replicas : Uncontested(e, i)) => Answer(key) = e]_hashVars
=============================================================================
