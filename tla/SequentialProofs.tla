--------------------------- MODULE SequentialProofs ---------------------------
(***************************************************************************)
(* The classes that serve one call at a time, or under a lock from         *)
(* beginning to end.                                                       *)
(*                                                                         *)
(* Consistent hashing, for any elements, number of points and replicas:    *)
(* the sorted hashes are those of the circle, a search finds the nearest   *)
(* point, and few names move when a member comes or goes.                  *)
(*                                                                         *)
(* The two caches, for any keys, values and capacities: their maps and     *)
(* lists describe each other, the right key goes, and both implement       *)
(* BoundedCache.                                                           *)
(***************************************************************************)
EXTENDS ConsistentHash, Caches,
        FiniteSetTheorems, SequenceTheorems, WellFoundedInduction, TLAPS

-----------------------------------------------------------------------------
(* Sorting *)

\* An interval from 1 has as many members as its end.
LEMMA UptoSize == ASSUME NEW n \in Nat PROVE IsFiniteSet(1..n) /\ Cardinality(1..n) = n
<1>1. 1 \in Int /\ n \in Int /\ (IF 1 > n THEN 0 ELSE n - 1 + 1) = n
  OBVIOUS
<1> QED  BY <1>1, FS_Interval

\* A later place belongs to a greater number, or to an equal one further on.
LEMMA PlaceGrows ==
  ASSUME NEW s \in Seq(Int), NEW i \in 1..Len(s), NEW j \in 1..Len(s),
         s[i] < s[j] \/ (s[i] = s[j] /\ i < j)
  PROVE  Place(s, i) < Place(s, j)
<1> DEFINE Upto(m) == {p \in DOMAIN s : s[p] < s[m] \/ (s[p] = s[m] /\ p <= m)}
<1>1. Len(s) \in Nat /\ DOMAIN s = 1..Len(s) /\ \A p \in 1..Len(s) : s[p] \in Int
  OBVIOUS
<1>2. IsFiniteSet(1..Len(s))
  BY <1>1, UptoSize
<1>3. Upto(i) \subseteq Upto(j)
  BY <1>1
<1>4. j \in Upto(j) /\ j \notin Upto(i)
  BY <1>1
<1>5. Upto(j) \subseteq 1..Len(s)
  BY <1>1
<1> HIDE DEF Upto
<1>6. IsFiniteSet(Upto(j))
  BY <1>2, <1>5, FS_Subset
<1>7. /\ Cardinality(Upto(i)) <= Cardinality(Upto(j))
      /\ Cardinality(Upto(i)) # Cardinality(Upto(j))
      /\ IsFiniteSet(Upto(i))
  BY <1>3, <1>4, <1>6, FS_Subset
<1>8. Cardinality(Upto(i)) \in Nat /\ Cardinality(Upto(j)) \in Nat
  BY <1>6, <1>7, FS_CardinalityType
<1>9. Cardinality(Upto(i)) < Cardinality(Upto(j))
  BY <1>7, <1>8
<1> QED  BY <1>9 DEF Place, Upto

\* Every place is one in the sequence.
LEMMA PlaceInRange ==
  ASSUME NEW s \in Seq(Int), NEW i \in 1..Len(s)
  PROVE  Place(s, i) \in 1..Len(s)
<1> DEFINE U == {p \in DOMAIN s : s[p] < s[i] \/ (s[p] = s[i] /\ p <= i)}
<1>1. Len(s) \in Nat /\ DOMAIN s = 1..Len(s) /\ \A p \in 1..Len(s) : s[p] \in Int
  OBVIOUS
<1>2. IsFiniteSet(1..Len(s)) /\ Cardinality(1..Len(s)) = Len(s)
  BY <1>1, UptoSize
<1>3. U \subseteq 1..Len(s) /\ i \in U
  BY <1>1
<1> HIDE DEF U
<1>4. IsFiniteSet(U) /\ Cardinality(U) <= Len(s)
  BY <1>2, <1>3, FS_Subset
<1>5. Cardinality(U) \in Nat /\ Cardinality(U) # 0
  BY <1>3, <1>4, FS_CardinalityType, FS_EmptySet
<1>6. Cardinality(U) \in 1..Len(s)
  BY <1>1, <1>4, <1>5
<1> QED  BY <1>6 DEF Place, U

\* Every place is that of some element.
LEMMA PlaceTaken ==
  ASSUME NEW s \in Seq(Int), NEW k \in 1..Len(s)
  PROVE  \E i \in 1..Len(s) : Place(s, i) = k
<1> DEFINE f == [i \in 1..Len(s) |-> Place(s, i)]
<1>1. Len(s) \in Nat /\ \A p \in 1..Len(s) : s[p] \in Int
  OBVIOUS
<1>2. f \in [1..Len(s) -> 1..Len(s)]
  BY PlaceInRange
<1>3. ASSUME NEW i \in 1..Len(s), NEW j \in 1..Len(s), i # j
      PROVE  f[i] # f[j]
  <2>1. \/ s[i] < s[j] \/ (s[i] = s[j] /\ i < j)
        \/ s[j] < s[i] \/ (s[j] = s[i] /\ j < i)
    BY <1>1, <1>3
  <2>2. Place(s, i) < Place(s, j) \/ Place(s, j) < Place(s, i)
    BY <2>1, PlaceGrows
  <2>3. Place(s, i) \in Int /\ Place(s, j) \in Int
    BY PlaceInRange
  <2> QED  BY <2>2, <2>3
<1> HIDE DEF f
<1>4. f \in Injection(1..Len(s), 1..Len(s))
  BY <1>2, <1>3 DEF Injection, IsInjective
<1>5. f \in Surjection(1..Len(s), 1..Len(s))
  BY <1>1, <1>4, FS_Injection, UptoSize
<1>6. PICK i \in 1..Len(s) : f[i] = k
  BY <1>5 DEF Surjection
<1> QED  BY <1>6 DEF f

\* InOrder sorts: it keeps the elements, and how often each occurs.
LEMMA InOrderSorts ==
  ASSUME NEW s \in Seq(Int), NEW r, r = InOrder(s)
  PROVE  /\ r \in Seq(Int) /\ Len(r) = Len(s) /\ ToSet(r) = ToSet(s)
         /\ \A k, m \in DOMAIN r : k < m => r[k] <= r[m]
         /\ IsInjective(s) => IsInjective(r)
<1> DEFINE at(k) == CHOOSE i \in DOMAIN s : Place(s, i) = k
<1>1. Len(s) \in Nat /\ DOMAIN s = 1..Len(s) /\ \A p \in 1..Len(s) : s[p] \in Int
  OBVIOUS
<1>2. \A k \in 1..Len(s) : at(k) \in 1..Len(s) /\ Place(s, at(k)) = k
  BY <1>1, PlaceTaken
<1>3. r = [k \in 1..Len(s) |-> s[at(k)]]
  BY <1>1 DEF InOrder
<1> HIDE DEF at
<1>4. r \in Seq(Int) /\ Len(r) = Len(s) /\ DOMAIN r = 1..Len(s)
  BY <1>1, <1>2, <1>3
<1>5. ASSUME NEW k \in 1..Len(s), NEW m \in 1..Len(s), k < m
      PROVE  r[k] <= r[m]
  <2>1. ~(s[at(m)] < s[at(k)])
    <3>1. SUFFICES ASSUME s[at(m)] < s[at(k)] PROVE FALSE
      OBVIOUS
    <3>2. at(m) \in 1..Len(s) /\ at(k) \in 1..Len(s)
      BY <1>2
    <3>3. Place(s, at(m)) < Place(s, at(k))
      BY <3>1, <3>2, PlaceGrows
    <3> QED  BY <1>2, <1>5, <3>3
  <2> QED  BY <1>1, <1>2, <1>3, <2>1
<1>6. \A k, m \in 1..Len(s) : at(k) = at(m) => k = m
  BY <1>2
<1>7. IsInjective(s) => IsInjective(r)
  BY <1>1, <1>2, <1>3, <1>4, <1>6 DEF IsInjective
<1>8. ToSet(r) = ToSet(s)
  <2>1. ASSUME NEW i \in 1..Len(s) PROVE \E k \in 1..Len(s) : r[k] = s[i]
    <3> DEFINE k == Place(s, i)
    <3>1. k \in 1..Len(s)
      BY PlaceInRange
    <3>2. at(k) = i
      <4>1. SUFFICES ASSUME at(k) # i PROVE FALSE
        OBVIOUS
      <4>2. at(k) \in 1..Len(s) /\ Place(s, at(k)) = k
        BY <1>2, <3>1
      <4> DEFINE a == at(k)
      <4>3. \/ s[i] < s[a] \/ (s[i] = s[a] /\ i < a)
            \/ s[a] < s[i] \/ (s[a] = s[i] /\ a < i)
        BY <1>1, <4>1, <4>2
      <4>4. a \in 1..Len(s) /\ Place(s, a) = Place(s, i)
        BY <4>2
      <4> HIDE DEF a
      <4>5. Place(s, i) < Place(s, a) \/ Place(s, a) < Place(s, i)
        BY <4>3, <4>4, PlaceGrows
      <4> QED  BY <3>1, <4>4, <4>5
    <3> QED  BY <1>3, <3>1, <3>2
  <2>2. ASSUME NEW k \in 1..Len(s) PROVE \E i \in 1..Len(s) : s[i] = r[k]
    BY <1>2, <1>3
  <2>3. ToSet(r) \subseteq ToSet(s)
    BY <1>1, <1>4, <2>2 DEF ToSet
  <2>4. ToSet(s) \subseteq ToSet(r)
    BY <1>1, <1>4, <2>1 DEF ToSet
  <2> QED  BY <2>3, <2>4
<1> QED  BY <1>1, <1>4, <1>5, <1>7, <1>8

\* A sequence over a set is one over a greater set.
LEMMA WiderSeq ==
  ASSUME NEW A, NEW B, A \subseteq B, NEW w \in Seq(A)
  PROVE  w \in Seq(B)
<1>1. w \in [1..Len(w) -> B] /\ Len(w) \in Nat
  OBVIOUS
<1> QED  BY <1>1

\* SetToSeq lists a finite set, each element once.
LEMMA SetListed ==
  ASSUME NEW S, IsFiniteSet(S), NEW w, w = SetToSeq(S)
  PROVE  w \in Seq(S) /\ ToSet(w) = S /\ IsInjective(w)
<1> DEFINE n == Cardinality(S)
<1>1. n \in Nat
  BY FS_CardinalityType
<1>2. PICK f : f \in Bijection(1..n, S)
  BY FS_CardinalityType DEF ExistsBijection
<1>3. f \in [1..n -> S] /\ IsInjective(f)
  BY <1>2 DEF Bijection, Injection
<1>4. w \in [1..n -> S] /\ IsInjective(w)
  BY <1>3 DEF SetToSeq
<1>5. w \in Injection(1..n, S)
  BY <1>4 DEF Injection
<1>6. w \in Surjection(1..n, S)
  BY <1>1, <1>5, FS_Injection, UptoSize
<1> HIDE DEF n
<1>7. w \in Seq(S) /\ DOMAIN w = 1..n
  BY <1>1, <1>4
<1>8. ToSet(w) = S
  BY <1>6, <1>7 DEF Surjection, ToSet
<1> QED  BY <1>4, <1>7, <1>8

-----------------------------------------------------------------------------
(* The inductive invariant *)

\* A point on the circle is one of its owner's.
InvOwners == \A p \in DOMAIN circle : p \in PointsOf(circle[p])

InvFunction == circle = [p \in DOMAIN circle |-> circle[p]]

HashInv == MembersOwnTheirPoints /\ InvOwners /\ InvFunction

\* A virtual node has a point.
LEMMA PointsOfType ==
  ASSUME TypeOK, NEW e \in Elts
  PROVE  /\ PointsOf(e) \subseteq Points
         /\ \A i \in Replicas : hash[e][i] \in PointsOf(e) /\ hash[e][i] \in Points
<1>1. \A i \in Replicas : hash[e][i] \in Points
  BY DEF TypeOK
<1> QED  BY <1>1 DEF PointsOf

\* Any set of points is finite.
LEMMA PointsFinite == ASSUME NEW S \in SUBSET Points PROVE IsFiniteSet(S) /\ S \subseteq Int
<1>1. 0 \in Int /\ MaxHash \in Int
  BY HashAssumption
<1>2. IsFiniteSet(Points)
  BY <1>1, FS_Interval DEF Points
<1>3. S \subseteq Int
  BY <1>1 DEF Points
<1> QED  BY <1>2, <1>3, FS_Subset

\* A sequence of points whose set is known.
LEMMA SeqOfPoints ==
  ASSUME NEW w \in Seq(Int), ToSet(w) \subseteq Points
  PROVE  w \in Seq(Points)
<1>1. \A i \in 1..Len(w) : w[i] \in Points
  BY DEF ToSet
<1>2. w \in [1..Len(w) -> Points] /\ Len(w) \in Nat
  BY <1>1
<1> QED  BY <1>2

\* updateSortedHashes leaves the points of the circle, sorted, each once.
LEMMA SortedIs ==
  ASSUME NEW S \in SUBSET Points, NEW w, w = Sorted(S)
  PROVE  /\ w \in Seq(Points) /\ ToSet(w) = S /\ IsInjective(w)
         /\ \A i, j \in DOMAIN w : i < j => w[i] <= w[j]
<1>1. IsFiniteSet(S) /\ S \subseteq Int
  BY PointsFinite
<1> DEFINE l == SetToSeq(S)
<1>2. l \in Seq(S) /\ ToSet(l) = S /\ IsInjective(l)
  BY <1>1, SetListed
<1> HIDE DEF l
<1>3. l \in Seq(Int)
  <2>1. l \in Seq(S) /\ S \subseteq Int
    BY <1>1, <1>2
  <2> QED  BY <2>1, WiderSeq
<1>4. w = InOrder(l)
  BY DEF Sorted, l
<1>5. /\ w \in Seq(Int) /\ ToSet(w) = S /\ IsInjective(w)
      /\ \A i, j \in DOMAIN w : i < j => w[i] <= w[j]
  BY <1>2, <1>3, <1>4, InOrderSorts
<1>6. w \in Seq(Points)
  BY <1>5, SeqOfPoints
<1> QED  BY <1>5, <1>6

\* add and remove leave the sorted hashes of the new circle, also when
\* updateSortedHashes panics: the circle is empty then.
LEMMA UpdateSorts ==
  ASSUME HashInv, NEW new, NEW step, Update(new, step), DOMAIN new \subseteq Points,
         Panics => DOMAIN new = {}
  PROVE  /\ sortedHashKey' \in Seq(Points) /\ ToSet(sortedHashKey') = DOMAIN new
         /\ \A i, j \in DOMAIN sortedHashKey' : i < j => sortedHashKey'[i] <= sortedHashKey'[j]
         /\ version = "go" => IsInjective(sortedHashKey')
<1>1. CASE Panics
  <2>1. \A e : PointsOf(e) = {}
    BY <1>1 DEF Panics, PointsOf, Replicas
  <2>2. DOMAIN circle = {}
    BY <2>1 DEF HashInv, InvOwners
  <2>3. sortedHashKey' = sortedHashKey /\ DOMAIN new = DOMAIN circle
    BY <1>1, <2>2 DEF Update
  <2> QED  BY <2>3 DEF HashInv, MembersOwnTheirPoints, TypeOK
<1>2. CASE ~Panics
  <2>1. sortedHashKey' = Sorted(DOMAIN new)
    BY <1>2 DEF Update
  <2> QED  BY <2>1, SortedIs
<1> QED  BY <1>1, <1>2

\* The virtual nodes stay where they are.
LEMMA SamePoints ==
  ASSUME UNCHANGED <<NumberOfReplicas, hash>>
  PROVE  /\ Replicas' = Replicas
         /\ \A e : PointsOf(e)' = PointsOf(e)
         /\ \A e, i : Uncontested(e, i)' <=> Uncontested(e, i)
BY DEF Replicas, PointsOf, Uncontested

\* What a call that changes the circle has to leave behind.
LEMMA CircleInv ==
  ASSUME HashInv, UNCHANGED <<version, NumberOfReplicas, hash>>,
         count' \in -MaxCount..MaxCount, result' \in Elts \cup {Nobody, ErrEmptyCircle},
         members' \subseteq Elts, InvFunction', sortedHashKey' \in Seq(Points),
         ToSet(sortedHashKey') = DOMAIN circle',
         \A i, j \in DOMAIN sortedHashKey' : i < j => sortedHashKey'[i] <= sortedHashKey'[j],
         version = "go" => IsInjective(sortedHashKey'),
         \A p \in DOMAIN circle' : circle'[p] \in members' /\ p \in PointsOf(circle'[p]),
         \A e \in members', i \in Replicas :
           Uncontested(e, i) => hash[e][i] \in DOMAIN circle' /\ circle'[hash[e][i]] = e
  PROVE  HashInv'
<1>0. TypeOK
  BY DEF HashInv, MembersOwnTheirPoints
<1>1. /\ Replicas' = Replicas
      /\ \A e : PointsOf(e)' = PointsOf(e)
      /\ \A e, i : Uncontested(e, i)' <=> Uncontested(e, i)
  BY SamePoints
<1>2. \A p \in DOMAIN circle' : p \in Points /\ circle'[p] \in Elts
  BY <1>0, PointsOfType
<1>3. hash' \in [Elts -> [Replicas' -> Points]] /\ NumberOfReplicas' \in ReplicaCounts
  BY <1>0, <1>1 DEF TypeOK
<1>4. TypeOK'
  BY <1>2, <1>3 DEF TypeOK
<1>5. InvOwners'
  BY <1>1 DEF InvOwners
<1>6. MembersOwnTheirPoints'
  BY <1>1, <1>4 DEF MembersOwnTheirPoints
<1> QED  BY <1>5, <1>6 DEF HashInv

\* Taken gives e its points and takes nothing else.
LEMMA TakenIs ==
  ASSUME HashInv, NEW e \in Elts, NEW c, c = Taken(e)
  PROVE  /\ DOMAIN c = DOMAIN circle \cup PointsOf(e)
         /\ DOMAIN c \subseteq Points
         /\ c = [p \in DOMAIN c |-> c[p]]
         /\ \A p \in DOMAIN c : c[p] = IF p \in PointsOf(e) THEN e ELSE circle[p]
         /\ \A p \in DOMAIN c : c[p] \in members \cup {e} /\ p \in PointsOf(c[p])
         /\ \A o \in members \cup {e}, i \in Replicas :
              Uncontested(o, i) => hash[o][i] \in DOMAIN c /\ c[hash[o][i]] = o
<1>0. TypeOK /\ members \subseteq Elts /\ \A p \in DOMAIN circle : p \in Points
  BY DEF HashInv, MembersOwnTheirPoints, TypeOK
<1>1. /\ DOMAIN c = DOMAIN circle \cup PointsOf(e)
      /\ c = [p \in DOMAIN c |-> c[p]]
      /\ \A p \in DOMAIN c : c[p] = IF p \in PointsOf(e) THEN e ELSE circle[p]
  BY DEF Taken
<1>2. DOMAIN c \subseteq Points
  BY <1>0, <1>1, PointsOfType
<1>3. ASSUME NEW p \in DOMAIN c PROVE c[p] \in members \cup {e} /\ p \in PointsOf(c[p])
  BY <1>1 DEF HashInv, InvOwners, MembersOwnTheirPoints
<1>4. ASSUME NEW o \in members \cup {e}, NEW i \in Replicas, Uncontested(o, i)
      PROVE  hash[o][i] \in DOMAIN c /\ c[hash[o][i]] = o
  <2>1. CASE o = e
    BY <1>0, <1>1, <2>1, PointsOfType
  <2>2. CASE o # e
    <3>1. hash[o][i] \notin PointsOf(e)
      BY <1>4, <2>2 DEF Uncontested
    <3>2. hash[o][i] \in DOMAIN circle /\ circle[hash[o][i]] = o
      BY <1>4, <2>2 DEF HashInv, MembersOwnTheirPoints
    <3> QED  BY <1>1, <3>1, <3>2
  <2> QED  BY <2>1, <2>2
<1> QED  BY <1>1, <1>2, <1>3, <1>4

\* Add keeps the invariant, also of an element that is there already.
LEMMA AddInv ==
  ASSUME HashInv, NEW e \in Elts, Add(e)
  PROVE  HashInv'
<1> DEFINE c == Taken(e)
<1>1. /\ version = "go" /\ count < MaxCount /\ members' = members \cup {e}
      /\ Update(c, 1)
  BY DEF Add
<1>2. /\ DOMAIN c = DOMAIN circle \cup PointsOf(e)
      /\ DOMAIN c \subseteq Points
      /\ c = [p \in DOMAIN c |-> c[p]]
      /\ \A p \in DOMAIN c : c[p] \in members \cup {e} /\ p \in PointsOf(c[p])
      /\ \A o \in members \cup {e}, i \in Replicas :
              Uncontested(o, i) => hash[o][i] \in DOMAIN c /\ c[hash[o][i]] = o
  BY TakenIs
<1> HIDE DEF c
<1>3. Panics => DOMAIN c = {}
  <2> SUFFICES ASSUME Panics PROVE DOMAIN c = {}
    OBVIOUS
  <2>1. \A o : PointsOf(o) = {}
    BY DEF Panics, PointsOf, Replicas
  <2> QED  BY <1>2, <2>1
<1>4. /\ circle' = c /\ result' = Nobody /\ UNCHANGED <<version, NumberOfReplicas, hash>>
      /\ count' = IF Panics THEN count ELSE count + 1
  BY <1>1 DEF Update
<1>5. count' \in -MaxCount..MaxCount /\ members' \subseteq Elts
  <2>1. count \in -MaxCount..MaxCount /\ members \subseteq Elts /\ MaxCount \in Nat
    BY HashAssumption DEF HashInv, MembersOwnTheirPoints, TypeOK
  <2> QED  BY <1>1, <1>4, <2>1
<1>6. /\ sortedHashKey' \in Seq(Points) /\ ToSet(sortedHashKey') = DOMAIN c
      /\ \A i, j \in DOMAIN sortedHashKey' : i < j => sortedHashKey'[i] <= sortedHashKey'[j]
      /\ version = "go" => IsInjective(sortedHashKey')
  BY <1>1, <1>2, <1>3, UpdateSorts
<1>7. InvFunction'
  BY <1>2, <1>4 DEF InvFunction
<1> QED  BY <1>1, <1>2, <1>4, <1>5, <1>6, <1>7, CircleInv

\* The elements of two sequences joined are those of both.
LEMMA ConcatSet ==
  ASSUME NEW S, NEW s \in Seq(S), NEW t \in Seq(S)
  PROVE  s \o t \in Seq(S) /\ ToSet(s \o t) = ToSet(s) \cup ToSet(t)
<1> DEFINE w == s \o t
<1>1. /\ w \in Seq(S) /\ Len(w) = Len(s) + Len(t)
      /\ \A i \in 1 .. Len(s) + Len(t) : w[i] = IF i <= Len(s) THEN s[i] ELSE t[i - Len(s)]
  BY ConcatProperties, Zenon
<1> HIDE DEF w
<1>2. /\ Len(s) \in Nat /\ DOMAIN s = 1..Len(s)
      /\ Len(t) \in Nat /\ DOMAIN t = 1..Len(t)
      /\ DOMAIN w = 1 .. Len(s) + Len(t)
  BY <1>1
<1>3. ASSUME NEW i \in 1 .. Len(s) + Len(t) PROVE w[i] \in ToSet(s) \cup ToSet(t)
  <2>1. CASE i <= Len(s)
    <3>1. i \in DOMAIN s /\ w[i] = s[i]
      BY <1>1, <1>2, <2>1
    <3> QED  BY <3>1 DEF ToSet
  <2>2. CASE ~(i <= Len(s))
    <3>1. i - Len(s) \in DOMAIN t /\ w[i] = t[i - Len(s)]
      BY <1>1, <1>2, <2>2
    <3> QED  BY <3>1 DEF ToSet
  <2> QED  BY <2>1, <2>2
<1>4. ASSUME NEW i \in DOMAIN s PROVE s[i] \in ToSet(w)
  <2>1. i \in DOMAIN w /\ w[i] = s[i]
    BY <1>1, <1>2
  <2> QED  BY <2>1 DEF ToSet
<1>5. ASSUME NEW i \in DOMAIN t PROVE t[i] \in ToSet(w)
  <2>1. Len(s) + i \in 1 .. Len(s) + Len(t) /\ ~(Len(s) + i <= Len(s)) /\ (Len(s) + i) - Len(s) = i
    BY <1>2
  <2>2. Len(s) + i \in DOMAIN w /\ w[Len(s) + i] = t[i]
    BY <1>1, <1>2, <2>1
  <2> QED  BY <2>2 DEF ToSet
<1>6. ToSet(w) \subseteq ToSet(s) \cup ToSet(t)
  BY <1>2, <1>3 DEF ToSet
<1>7. ToSet(s) \subseteq ToSet(w) /\ ToSet(t) \subseteq ToSet(w)
  BY <1>4, <1>5 DEF ToSet
<1> QED  BY <1>1, <1>6, <1>7 DEF w

\* Appending the points of e adds them to the set.
LEMMA AppendedIs ==
  ASSUME TypeOK, NEW e \in Elts,
         NEW w, w = sortedHashKey \o [i \in 1..NumberOfReplicas |-> hash[e][i - 1]]
  PROVE  w \in Seq(Points) /\ ToSet(w) = ToSet(sortedHashKey) \cup PointsOf(e)
<1> DEFINE s == sortedHashKey
           t == [i \in 1..NumberOfReplicas |-> hash[e][i - 1]]
<1>1. NumberOfReplicas \in Nat /\ s \in Seq(Points)
  BY HashAssumption DEF TypeOK
<1>2. \A i \in Replicas : hash[e][i] \in Points
  BY PointsOfType
<1>3. \A i \in 1..NumberOfReplicas : i - 1 \in Replicas
  BY <1>1 DEF Replicas
<1>4. t \in Seq(Points) /\ Len(t) = NumberOfReplicas /\ DOMAIN t = 1..NumberOfReplicas
  BY <1>1, <1>2, <1>3
<1>5. ToSet(t) = PointsOf(e)
  <2>1. \A i \in Replicas : i + 1 \in 1..NumberOfReplicas /\ (i + 1) - 1 = i
    BY <1>1 DEF Replicas
  <2>2. \A i \in Replicas : t[i + 1] = hash[e][i]
    BY <2>1
  <2>3. \A i \in 1..NumberOfReplicas : t[i] = hash[e][i - 1]
    OBVIOUS
  <2> HIDE DEF t
  <2>4. PointsOf(e) \subseteq ToSet(t)
    BY <1>4, <2>1, <2>2 DEF ToSet, PointsOf
  <2>5. ToSet(t) \subseteq PointsOf(e)
    BY <1>3, <1>4, <2>3 DEF ToSet, PointsOf
  <2> QED  BY <2>4, <2>5
<1> HIDE DEF s, t
<1>6. w = s \o t
  BY DEF s, t
<1>7. w \in Seq(Points) /\ ToSet(w) = ToSet(s) \cup ToSet(t)
  <2>1. s \in Seq(Points) /\ t \in Seq(Points)
    BY <1>1, <1>4
  <2>2. s \o t \in Seq(Points) /\ ToSet(s \o t) = ToSet(s) \cup ToSet(t)
    BY ONLY <2>1, ConcatSet, Zenon
  <2> QED  BY <1>6, <2>2
<1> QED  BY <1>5, <1>7 DEF s

\* put keeps the invariant: what was appended is sorted in.
LEMMA PutInv ==
  ASSUME HashInv, NEW e \in Elts, Put(e)
  PROVE  HashInv'
<1> DEFINE c == Taken(e)
           w == sortedHashKey \o [i \in 1..NumberOfReplicas |-> hash[e][i - 1]]
<1>0. /\ TypeOK /\ ToSet(sortedHashKey) = DOMAIN circle
      /\ count \in -MaxCount..MaxCount /\ members \subseteq Elts
  BY DEF HashInv, MembersOwnTheirPoints, TypeOK
<1>1. /\ version = "cxx" /\ members' = members \cup {e} /\ circle' = c /\ result' = Nobody
      /\ sortedHashKey' = InOrder(w)
      /\ UNCHANGED <<version, NumberOfReplicas, count, hash>>
  BY DEF Put
<1>2. /\ DOMAIN c = DOMAIN circle \cup PointsOf(e)
      /\ DOMAIN c \subseteq Points
      /\ c = [p \in DOMAIN c |-> c[p]]
      /\ \A p \in DOMAIN c : c[p] \in members \cup {e} /\ p \in PointsOf(c[p])
      /\ \A o \in members \cup {e}, i \in Replicas :
              Uncontested(o, i) => hash[o][i] \in DOMAIN c /\ c[hash[o][i]] = o
  BY TakenIs
<1>3. w \in Seq(Points) /\ ToSet(w) = DOMAIN c
  BY <1>0, <1>2, AppendedIs
<1> HIDE DEF c, w
<1>4. w \in Seq(Int)
  BY <1>3, PointsFinite, WiderSeq
<1>5. /\ sortedHashKey' \in Seq(Int) /\ ToSet(sortedHashKey') = DOMAIN c
      /\ \A i, j \in DOMAIN sortedHashKey' : i < j => sortedHashKey'[i] <= sortedHashKey'[j]
  BY <1>1, <1>3, <1>4, InOrderSorts
<1>6. sortedHashKey' \in Seq(Points)
  BY <1>2, <1>5, SeqOfPoints
<1>7. InvFunction'
  BY <1>1, <1>2 DEF InvFunction
<1>8. count' \in -MaxCount..MaxCount /\ members' \subseteq Elts /\ version # "go"
  BY <1>0, <1>1
<1> QED  BY <1>1, <1>2, <1>5, <1>6, <1>7, <1>8, CircleInv

\* Freed takes away the points of e, whoever owns them.
LEMMA FreedIs ==
  ASSUME HashInv, NEW e \in Elts, NEW c, c = Freed(e)
  PROVE  /\ DOMAIN c = DOMAIN circle \ PointsOf(e)
         /\ DOMAIN c \subseteq Points
         /\ c = [p \in DOMAIN c |-> c[p]]
         /\ \A p \in DOMAIN c : c[p] = circle[p]
         /\ \A p \in DOMAIN c : c[p] \in members \ {e} /\ p \in PointsOf(c[p])
         /\ \A o \in members \ {e}, i \in Replicas :
              Uncontested(o, i) => hash[o][i] \in DOMAIN c /\ c[hash[o][i]] = o
<1>1. /\ DOMAIN c = DOMAIN circle \ PointsOf(e)
      /\ c = [p \in DOMAIN c |-> c[p]]
      /\ \A p \in DOMAIN c : c[p] = circle[p]
  BY DEF Freed
<1>2. DOMAIN c \subseteq Points
  BY <1>1 DEF HashInv, MembersOwnTheirPoints, TypeOK
<1>3. ASSUME NEW p \in DOMAIN c PROVE c[p] \in members \ {e} /\ p \in PointsOf(c[p])
  BY <1>1 DEF HashInv, InvOwners, MembersOwnTheirPoints
<1>4. ASSUME NEW o \in members \ {e}, NEW i \in Replicas, Uncontested(o, i)
      PROVE  hash[o][i] \in DOMAIN c /\ c[hash[o][i]] = o
  <2>1. hash[o][i] \notin PointsOf(e)
    BY <1>4 DEF Uncontested
  <2>2. hash[o][i] \in DOMAIN circle /\ circle[hash[o][i]] = o
    BY <1>4 DEF HashInv, MembersOwnTheirPoints
  <2> QED  BY <1>1, <2>1, <2>2
<1> QED  BY <1>1, <1>2, <1>3, <1>4

\* Remove keeps the invariant, also of an element that is not there.
LEMMA RemoveInv ==
  ASSUME HashInv, NEW e \in Elts, RemoveElt(e)
  PROVE  HashInv'
<1> DEFINE c == Freed(e)
<1>1. /\ version = "go" /\ count > -MaxCount /\ members' = members \ {e}
      /\ Update(c, -1)
  BY DEF RemoveElt
<1>2. /\ DOMAIN c = DOMAIN circle \ PointsOf(e)
      /\ DOMAIN c \subseteq Points
      /\ c = [p \in DOMAIN c |-> c[p]]
      /\ \A p \in DOMAIN c : c[p] \in members \ {e} /\ p \in PointsOf(c[p])
      /\ \A o \in members \ {e}, i \in Replicas :
              Uncontested(o, i) => hash[o][i] \in DOMAIN c /\ c[hash[o][i]] = o
  BY FreedIs
<1> HIDE DEF c
<1>3. Panics => DOMAIN c = {}
  <2> SUFFICES ASSUME Panics PROVE DOMAIN c = {}
    OBVIOUS
  <2>1. \A o : PointsOf(o) = {}
    BY DEF Panics, PointsOf, Replicas
  <2> QED  BY <1>2, <2>1
<1>4. /\ circle' = c /\ result' = Nobody /\ UNCHANGED <<version, NumberOfReplicas, hash>>
      /\ count' = IF Panics THEN count ELSE count + (-1)
  BY <1>1 DEF Update
<1>5. count' \in -MaxCount..MaxCount /\ members' \subseteq Elts
  <2>1. count \in -MaxCount..MaxCount /\ members \subseteq Elts /\ MaxCount \in Nat
    BY HashAssumption DEF HashInv, MembersOwnTheirPoints, TypeOK
  <2> QED  BY <1>1, <1>4, <2>1
<1>6. /\ sortedHashKey' \in Seq(Points) /\ ToSet(sortedHashKey') = DOMAIN c
      /\ \A i, j \in DOMAIN sortedHashKey' : i < j => sortedHashKey'[i] <= sortedHashKey'[j]
      /\ version = "go" => IsInjective(sortedHashKey')
  BY <1>1, <1>2, <1>3, UpdateSorts
<1>7. InvFunction'
  BY <1>2, <1>4 DEF InvFunction
<1> QED  BY <1>1, <1>2, <1>4, <1>5, <1>6, <1>7, CircleInv

\* The least index in a set of them.
LEMMA MinIs ==
  ASSUME NEW S \in SUBSET Nat, S # {}
  PROVE  Min(S) \in S /\ \A j \in S : Min(S) <= j
<1>1. IsWellFoundedOn(OpToRel(<, Nat), Nat)
  BY NatLessThanWellFounded
<1>2. PICK x \in S : \A y \in S : ~(<<y, x>> \in OpToRel(<, Nat))
  BY <1>1, WFMin
<1>3. x \in Nat /\ S \subseteq Nat
  OBVIOUS
<1>4. ASSUME NEW y \in S PROVE x <= y
  <2>1. y \in Nat /\ ~(y < x)
    BY <1>2, <1>3 DEF OpToRel
  <2> QED  BY <1>3, <2>1
<1> QED  BY <1>4 DEF Min

\* The circle without points is the empty one.
LEMMA EmptyCircle ==
  ASSUME InvFunction
  PROVE  circle = <<>> <=> DOMAIN circle = {}
<1>1. circle = <<>> => DOMAIN circle = {}
  OBVIOUS
<1>2. ASSUME DOMAIN circle = {} PROVE circle = <<>>
  <2>1. circle = [p \in {} |-> circle[p]]
    BY <1>2 DEF InvFunction
  <2>2. <<>> = [p \in {} |-> circle[p]]
    OBVIOUS
  <2> QED  BY <2>1, <2>2
<1> QED  BY <1>1, <1>2

\* The binary searches find the first hash beyond the key, or start over.
LEMMA SearchFinds ==
  ASSUME HashInv, circle # <<>>, NEW key \in Points, NEW i, i = Search(key)
  PROVE  /\ i \in 1..Len(sortedHashKey)
         /\ version = "go" =>
              \/ /\ sortedHashKey[i] > key
                 /\ \A j \in 1..(i - 1) : sortedHashKey[j] <= key
              \/ i = 1 /\ \A j \in 1..Len(sortedHashKey) : sortedHashKey[j] <= key
         /\ version # "go" =>
              \/ /\ sortedHashKey[i] >= key
                 /\ \A j \in 1..(i - 1) : sortedHashKey[j] < key
              \/ i = 1 /\ \A j \in 1..Len(sortedHashKey) : sortedHashKey[j] < key
<1> DEFINE s == sortedHashKey
           after == IF version = "go" THEN Greater(key) ELSE NotLess(key)
<1>1. s \in Seq(Points) /\ ToSet(s) = DOMAIN circle
  BY DEF HashInv, MembersOwnTheirPoints, TypeOK
<1>2. s \in Seq(Int) /\ key \in Int
  BY <1>1, PointsFinite, WiderSeq
<1>3. DOMAIN circle # {}
  BY EmptyCircle DEF HashInv
<1>4. Len(s) \in Nat \ {0} /\ DOMAIN s = 1..Len(s) /\ \A j \in 1..Len(s) : s[j] \in Int
  <2>1. Len(s) # 0
    BY <1>1, <1>3 DEF ToSet
  <2> QED  BY <1>2, <2>1
<1>5. after = {j \in 1..Len(s) : IF version = "go" THEN s[j] > key ELSE s[j] >= key}
  BY <1>4 DEF Greater, NotLess
<1>6. i = IF after = {} THEN 1 ELSE Min(after)
  BY DEF Search
<1> HIDE DEF s, after
<1>7. CASE after = {}
  <2>1. \A j \in 1..Len(s) : ~(IF version = "go" THEN s[j] > key ELSE s[j] >= key)
    BY <1>5, <1>7
  <2>2. i = 1 /\ i \in 1..Len(s)
    BY <1>4, <1>6, <1>7
  <2>3. version = "go" => \A j \in 1..Len(s) : s[j] <= key
    BY <1>2, <1>4, <2>1
  <2>4. version # "go" => \A j \in 1..Len(s) : s[j] < key
    BY <1>2, <1>4, <2>1
  <2> QED  BY <2>2, <2>3, <2>4 DEF s
<1>8. CASE after # {}
  <2>1. after \subseteq 1..Len(s) /\ after \subseteq Nat
    BY <1>4, <1>5
  <2>2. i \in after /\ \A j \in after : i <= j
    BY <1>6, <1>8, <2>1, MinIs
  <2>3. i \in 1..Len(s) /\ IF version = "go" THEN s[i] > key ELSE s[i] >= key
    BY <1>5, <2>2
  <2>4. ASSUME NEW j \in 1..(i - 1)
        PROVE  ~(IF version = "go" THEN s[j] > key ELSE s[j] >= key)
    <3>1. j \in 1..Len(s) /\ ~(i <= j)
      BY <1>4, <2>3
    <3> QED  BY <1>5, <2>2, <3>1
  <2>5. \A j \in 1..(i - 1) : s[j] \in Int
    BY <1>4, <2>3
  <2>6. version = "go" => \A j \in 1..(i - 1) : s[j] <= key
    BY <1>2, <2>4, <2>5
  <2>7. version # "go" => \A j \in 1..(i - 1) : s[j] < key
    BY <1>2, <2>4, <2>5
  <2> QED  BY <2>3, <2>6, <2>7 DEF s
<1> QED  BY <1>7, <1>8

\* Distance, without the modulus.
LEMMA DistanceIs ==
  ASSUME NEW key \in Points, NEW p \in Points
  PROVE  Distance(key, p) = IF version = "go"
                            THEN IF p > key THEN p - key - 1 ELSE p - key + MaxHash
                            ELSE IF p >= key THEN p - key ELSE p - key + MaxHash + 1
<1> DEFINE d == MaxHash + 1
<1>1. MaxHash \in Nat /\ 0 \in Int
  BY HashAssumption
<1>2. Cardinality(Points) = d
  BY <1>1, FS_Interval DEF Points
<1>3. key \in 0..MaxHash /\ p \in 0..MaxHash
  BY DEF Points
<1>4. ASSUME NEW x \in 0..MaxHash PROVE x % d = x
  BY <1>1
<1>5. ASSUME NEW x \in (-d)..(-1) PROVE x % d = x + d
  BY <1>1
<1>6. CASE version = "go"
  <2>1. Distance(key, p) = (p - key - 1) % d
    BY <1>2, <1>6 DEF Distance
  <2>2. CASE p > key
    <3>1. p - key - 1 \in 0..MaxHash
      BY <1>1, <1>3, <2>2
    <3> QED  BY <1>4, <1>6, <2>1, <2>2, <3>1
  <2>3. CASE ~(p > key)
    <3>1. p - key - 1 \in (-d)..(-1) /\ p - key - 1 + d = p - key + MaxHash
      BY <1>1, <1>3, <2>3
    <3> QED  BY <1>5, <1>6, <2>1, <2>3, <3>1
  <2> QED  BY <2>2, <2>3
<1>7. CASE version # "go"
  <2>1. Distance(key, p) = (p - key) % d
    BY <1>1, <1>2, <1>3, <1>7 DEF Distance
  <2>2. CASE p >= key
    <3>1. p - key \in 0..MaxHash
      BY <1>1, <1>3, <2>2
    <3> QED  BY <1>4, <1>7, <2>1, <2>2, <3>1
  <2>3. CASE ~(p >= key)
    <3>1. p - key \in (-d)..(-1) /\ p - key + d = p - key + MaxHash + 1
      BY <1>1, <1>3, <2>3
    <3> QED  BY <1>5, <1>7, <2>1, <2>3, <3>1
  <2> QED  BY <2>2, <2>3
<1> QED  BY <1>6, <1>7

\* p is the nearest point after key.
Nearest(key, p) ==
  p \in DOMAIN circle /\ \A q \in DOMAIN circle : Distance(key, p) <= Distance(key, q)

NearestAnswers ==
  \A key \in Points : IF circle = <<>> THEN Answer(key) = ErrEmptyCircle
                      ELSE \E p \in DOMAIN circle : Answer(key) = circle[p] /\ Nearest(key, p)

\* The owner of the nearest point is who answers.
LEMMA AnswerIs == HashInv => NearestAnswers
<1> SUFFICES ASSUME HashInv, NEW key \in Points, circle # <<>>
             PROVE  \E p \in DOMAIN circle : Answer(key) = circle[p] /\ Nearest(key, p)
  BY DEF NearestAnswers, Answer
<1> DEFINE s == sortedHashKey
           i == Search(key)
<1>1. /\ s \in Seq(Points) /\ ToSet(s) = DOMAIN circle
      /\ \A j, m \in DOMAIN s : j < m => s[j] <= s[m]
  BY DEF HashInv, MembersOwnTheirPoints, TypeOK
<1>2. /\ i \in 1..Len(s)
      /\ version = "go" => \/ s[i] > key /\ \A j \in 1..(i - 1) : s[j] <= key
                           \/ i = 1 /\ \A j \in 1..Len(s) : s[j] <= key
      /\ version # "go" => \/ s[i] >= key /\ \A j \in 1..(i - 1) : s[j] < key
                           \/ i = 1 /\ \A j \in 1..Len(s) : s[j] < key
  BY SearchFinds
<1>3. Answer(key) = circle[s[i]]
  BY DEF Answer
<1> HIDE DEF s, i
<1>4. Len(s) \in Nat /\ DOMAIN s = 1..Len(s) /\ \A j \in 1..Len(s) : s[j] \in Points
  BY <1>1
<1>5. s[i] \in DOMAIN circle
  BY <1>1, <1>2, <1>4 DEF ToSet
<1>6. MaxHash \in Nat /\ Points = 0..MaxHash
  BY HashAssumption DEF Points
<1>7. ASSUME NEW m \in 1..Len(s) PROVE Distance(key, s[i]) <= Distance(key, s[m])
  <2> DEFINE p == s[i]
             q == s[m]
  <2>1. p \in Points /\ q \in Points
    BY <1>2, <1>4
  <2>2. i <= m => p <= q
    <3>1. CASE i = m
      BY <1>6, <2>1, <3>1
    <3>2. CASE i # m
      BY <1>1, <1>2, <1>4, <3>2
    <3> QED  BY <3>1, <3>2
  <2>3. version = "go" => (p > key /\ (i <= m \/ q <= key)) \/ (i <= m /\ p <= key /\ q <= key)
    BY <1>2, <1>4
  <2>4. version # "go" => (p >= key /\ (i <= m \/ q < key)) \/ (i <= m /\ p < key /\ q < key)
    BY <1>2, <1>4
  <2>5. /\ Distance(key, p) = IF version = "go"
                            THEN IF p > key THEN p - key - 1 ELSE p - key + MaxHash
                            ELSE IF p >= key THEN p - key ELSE p - key + MaxHash + 1
        /\ Distance(key, q) = IF version = "go"
                            THEN IF q > key THEN q - key - 1 ELSE q - key + MaxHash
                            ELSE IF q >= key THEN q - key ELSE q - key + MaxHash + 1
    BY <2>1, DistanceIs
  <2> HIDE DEF p, q
  <2>6. p \in 0..MaxHash /\ q \in 0..MaxHash /\ key \in 0..MaxHash
    BY <1>6, <2>1
  <2>7. ASSUME version = "go" PROVE Distance(key, p) <= Distance(key, q)
    BY <1>6, <2>2, <2>3, <2>5, <2>6, <2>7
  <2>8. ASSUME version # "go" PROVE Distance(key, p) <= Distance(key, q)
    BY <1>6, <2>2, <2>4, <2>5, <2>6, <2>8
  <2>9. Distance(key, p) <= Distance(key, q)
    BY <2>7, <2>8
  <2> QED  BY <2>9 DEF p, q
<1>8. \A q \in DOMAIN circle : \E m \in 1..Len(s) : s[m] = q
  BY <1>1, <1>4 DEF ToSet
<1>9. Nearest(key, s[i])
  BY <1>5, <1>7, <1>8 DEF Nearest
<1> QED  BY <1>3, <1>5, <1>9

\* AnswerIs, of the state after a step.
LEMMA AnswerIsNext == HashInv' => NearestAnswers'
BY AnswerIs, PTL

\* The constructors establish the invariant.
LEMMA HashInitInv == HashInit => HashInv
<1> SUFFICES ASSUME HashInit PROVE HashInv
  OBVIOUS
<1> USE DEF HashInit
<1>1. DOMAIN circle = {} /\ members = {} /\ sortedHashKey = <<>>
  OBVIOUS
<1>2. TypeOK
  <2>1. count \in -MaxCount..MaxCount /\ sortedHashKey \in Seq(Points)
    BY HashAssumption
  <2>2. \A p \in DOMAIN circle : p \in Points /\ circle[p] \in Elts
    BY <1>1
  <2> QED  BY <1>1, <2>1, <2>2 DEF TypeOK
<1>3. ToSet(sortedHashKey) = {} /\ IsInjective(sortedHashKey)
  BY <1>1 DEF ToSet, IsInjective
<1>4. MembersOwnTheirPoints
  BY <1>1, <1>2, <1>3 DEF MembersOwnTheirPoints
<1>5. InvFunction
  <2>1. <<>> = [p \in {} |-> circle[p]]
    OBVIOUS
  <2> QED  BY <1>1, <2>1 DEF InvFunction
<1> QED  BY <1>1, <1>4, <1>5 DEF HashInv, InvOwners

\* Get changes nothing but its answer, which is a member.
LEMMA GetInv ==
  ASSUME HashInv, NEW key \in Points, Get(key)
  PROVE  HashInv'
<1>1. Answer(key) \in Elts \cup {Nobody, ErrEmptyCircle}
  <2>1. \A p \in DOMAIN circle : circle[p] \in Elts
    BY DEF HashInv, MembersOwnTheirPoints, TypeOK
  <2> QED  BY <2>1, AnswerIs DEF NearestAnswers
<1>2. result' = Answer(key) /\ UNCHANGED <<version, circle, members, sortedHashKey, NumberOfReplicas, count, hash>>
  BY DEF Get
<1>3. Replicas' = Replicas /\ \A e : PointsOf(e)' = PointsOf(e)
  BY <1>2 DEF Replicas, PointsOf
<1>4. \A e, i : Uncontested(e, i)' <=> Uncontested(e, i)
  BY <1>2, <1>3 DEF Uncontested
<1>5. TypeOK'
  BY <1>1, <1>2, <1>3 DEF HashInv, MembersOwnTheirPoints, TypeOK
<1>6. MembersOwnTheirPoints'
  BY <1>2, <1>3, <1>4, <1>5 DEF HashInv, MembersOwnTheirPoints
<1> QED  BY <1>2, <1>3, <1>6 DEF HashInv, InvOwners, InvFunction

\* Every call keeps the invariant.
LEMMA HashStepInv == HashInv /\ [HashNext]_hashVars => HashInv'
<1> SUFFICES ASSUME HashInv, [HashNext]_hashVars PROVE HashInv'
  OBVIOUS
<1>1. CASE UNCHANGED hashVars
  <2>1. Replicas' = Replicas /\ \A e : PointsOf(e)' = PointsOf(e)
    BY <1>1 DEF hashVars, Replicas, PointsOf
  <2>2. \A e, i : Uncontested(e, i)' <=> Uncontested(e, i)
    BY <1>1, <2>1 DEF hashVars, Uncontested
  <2>3. TypeOK'
    BY <1>1, <2>1 DEF hashVars, HashInv, MembersOwnTheirPoints, TypeOK
  <2>4. MembersOwnTheirPoints'
    BY <1>1, <2>1, <2>2, <2>3 DEF hashVars, HashInv, MembersOwnTheirPoints
  <2> QED  BY <1>1, <2>1, <2>4 DEF hashVars, HashInv, InvOwners, InvFunction
<1>2. ASSUME NEW e \in Elts, Add(e) \/ RemoveElt(e) \/ Put(e) PROVE HashInv'
  BY <1>2, AddInv, RemoveInv, PutInv
<1>3. ASSUME NEW key \in Points, Get(key) PROVE HashInv'
  BY <1>3, GetInv
<1> QED  BY <1>1, <1>2, <1>3 DEF HashNext

\* The invariant always holds.
LEMMA HashInvariance == HashSpec => []HashInv
BY HashInitInv, HashStepInv, PTL DEF HashSpec

-----------------------------------------------------------------------------
(* The theorems *)

\* Whatever collided, was added twice or was removed without being there, the
\* sorted hashes are those of the circle and only members own points.
THEOREM PointsOwned == HashSpec => []MembersOwnTheirPoints
<1>1. HashInv => MembersOwnTheirPoints
  BY DEF HashInv
<1> QED  BY <1>1, HashInvariance, PTL

\* Get returns the owner of the nearest point.
THEOREM NearestFound == HashSpec => GetsNearest
<1> DEFINE Found == \A key \in Points : Get(key) =>
                      IF circle = <<>> THEN result' = ErrEmptyCircle
                      ELSE \E p \in DOMAIN circle :
                             /\ result' = circle[p]
                             /\ \A q \in DOMAIN circle : Distance(key, p) <= Distance(key, q)
<1>1. HashInv => Found
  BY AnswerIs DEF NearestAnswers, Nearest, Get
<1>2. HashInv => [Found]_hashVars
  BY <1>1
<1> QED  BY <1>2, HashInvariance, PTL DEF GetsNearest

\* No two points are equally far from a key.
LEMMA DistanceApart ==
  ASSUME NEW key \in Points, NEW p \in Points, NEW q \in Points,
         Distance(key, p) = Distance(key, q)
  PROVE  p = q
<1>1. MaxHash \in Nat /\ key \in 0..MaxHash /\ p \in 0..MaxHash /\ q \in 0..MaxHash
  BY HashAssumption DEF Points
<1>2. /\ Distance(key, p) = IF version = "go"
                          THEN IF p > key THEN p - key - 1 ELSE p - key + MaxHash
                          ELSE IF p >= key THEN p - key ELSE p - key + MaxHash + 1
      /\ Distance(key, q) = IF version = "go"
                          THEN IF q > key THEN q - key - 1 ELSE q - key + MaxHash
                          ELSE IF q >= key THEN q - key ELSE q - key + MaxHash + 1
  BY DistanceIs
<1> DEFINE a == Distance(key, p)
           b == Distance(key, q)
<1>3. a = b
  OBVIOUS
<1> HIDE DEF a, b
<1>4. CASE version = "go"
  <2>1. /\ a = IF p > key THEN p - key - 1 ELSE p - key + MaxHash
        /\ b = IF q > key THEN q - key - 1 ELSE q - key + MaxHash
    BY <1>2, <1>4 DEF a, b
  <2>2. a \in Int /\ b \in Int
    BY <1>1, <2>1
  <2>3. p < q => a # b
    BY <1>1, <2>1, <2>2
  <2>4. q < p => a # b
    BY <1>1, <2>1, <2>2
  <2> QED  BY <1>1, <1>3, <2>3, <2>4
<1>5. CASE version # "go"
  <2>1. /\ a = IF p >= key THEN p - key ELSE p - key + MaxHash + 1
        /\ b = IF q >= key THEN q - key ELSE q - key + MaxHash + 1
    BY <1>2, <1>5 DEF a, b
  <2>2. a \in Int /\ b \in Int
    BY <1>1, <2>1
  <2>3. p < q => a # b
    BY <1>1, <2>1, <2>2
  <2>4. q < p => a # b
    BY <1>1, <2>1, <2>2
  <2> QED  BY <1>1, <1>3, <2>3, <2>4
<1> QED  BY <1>4, <1>5

\* There is only one nearest point.
LEMMA NearestUnique ==
  ASSUME NEW S \in SUBSET Points, NEW key \in Points, NEW p \in S, NEW q \in S,
         \A o \in S : Distance(key, p) <= Distance(key, o),
         \A o \in S : Distance(key, q) <= Distance(key, o)
  PROVE  p = q
<1>1. ASSUME NEW o \in Points PROVE Distance(key, o) \in Int
  <2>1. MaxHash \in Nat /\ key \in 0..MaxHash /\ o \in 0..MaxHash
    BY HashAssumption DEF Points
  <2>2. Distance(key, o) = IF version = "go"
                           THEN IF o > key THEN o - key - 1 ELSE o - key + MaxHash
                           ELSE IF o >= key THEN o - key ELSE o - key + MaxHash + 1
    BY DistanceIs
  <2> QED  BY <2>1, <2>2
<1>2. Distance(key, p) <= Distance(key, q) /\ Distance(key, q) <= Distance(key, p)
  OBVIOUS
<1>3. p \in Points /\ q \in Points
  OBVIOUS
<1>4. Distance(key, p) = Distance(key, q)
  BY <1>1, <1>2, <1>3
<1> QED  BY <1>3, <1>4, DistanceApart

\* A name whose answer changes when e comes goes to e.
LEMMA ComingMoves ==
  ASSUME HashInv, HashInv', NEW e \in Elts, Add(e) \/ Put(e), NEW key \in Points,
         Answer(key)' # Answer(key)
  PROVE  Answer(key)' = e
<1>1. circle' = Taken(e) /\ version' = version
  BY DEF Add, Put, Update
<1>2. \A p, k : Distance(k, p)' = Distance(k, p)
  BY <1>1 DEF Distance
<1>3. /\ DOMAIN circle' = DOMAIN circle \cup PointsOf(e)
      /\ DOMAIN circle' \subseteq Points
      /\ \A p \in DOMAIN circle' : circle'[p] = IF p \in PointsOf(e) THEN e ELSE circle[p]
  <2> DEFINE c == Taken(e)
  <2>1. /\ DOMAIN c = DOMAIN circle \cup PointsOf(e) /\ DOMAIN c \subseteq Points
        /\ \A p \in DOMAIN c : c[p] = IF p \in PointsOf(e) THEN e ELSE circle[p]
    BY TakenIs
  <2> HIDE DEF c
  <2> QED  BY <1>1, <2>1 DEF c
<1>4. NearestAnswers /\ NearestAnswers'
  BY AnswerIs, AnswerIsNext
<1>5. (circle = <<>> <=> DOMAIN circle = {}) /\ (circle' = <<>> <=> DOMAIN circle' = {})
  <2>1. InvFunction' => (circle' = <<>> <=> DOMAIN circle' = {})
    <3>1. (InvFunction => (circle = <<>> <=> DOMAIN circle = {}))'
      BY EmptyCircle, PTL
    <3> QED  BY <3>1
  <2> QED  BY <2>1, EmptyCircle DEF HashInv
<1>6. circle' # <<>>
  <2> SUFFICES ASSUME circle' = <<>> PROVE FALSE
    OBVIOUS
  <2>1. circle = <<>>
    BY <1>3, <1>5
  <2> QED  BY <1>4, <2>1 DEF NearestAnswers
<1>7. PICK p \in DOMAIN circle' : /\ Answer(key)' = circle'[p]
                                  /\ \A q \in DOMAIN circle' : Distance(key, p) <= Distance(key, q)
  <2>1. \E p \in DOMAIN circle' : Answer(key)' = circle'[p] /\ Nearest(key, p)'
    BY <1>4, <1>6 DEF NearestAnswers
  <2> QED  BY <1>2, <2>1 DEF Nearest
<1>8. CASE p \in PointsOf(e)
  BY <1>3, <1>7, <1>8
<1>9. CASE p \notin PointsOf(e)
  <2>1. p \in DOMAIN circle /\ circle'[p] = circle[p] /\ circle # <<>>
    BY <1>3, <1>5, <1>9
  <2>2. PICK o \in DOMAIN circle : /\ Answer(key) = circle[o]
                                   /\ \A q \in DOMAIN circle : Distance(key, o) <= Distance(key, q)
    BY <1>4, <2>1 DEF NearestAnswers, Nearest
  <2>3. DOMAIN circle \subseteq Points /\ \A q \in DOMAIN circle : Distance(key, p) <= Distance(key, q)
    BY <1>3, <1>7
  <2>4. o = p
    BY <2>1, <2>2, <2>3, NearestUnique
  <2> QED  BY <1>7, <2>1, <2>2, <2>4
<1> QED  BY <1>8, <1>9

\* A name whose answer changes when e goes was e's, if e shares no point.
LEMMA GoingMoves ==
  ASSUME HashInv, HashInv', NEW e \in Elts, RemoveElt(e), NEW key \in Points,
         Answer(key)' # Answer(key), \A i \in Replicas : Uncontested(e, i)
  PROVE  Answer(key) = e
<1>1. circle' = Freed(e) /\ version' = version
  BY DEF RemoveElt, Update
<1>2. \A p, k : Distance(k, p)' = Distance(k, p)
  BY <1>1 DEF Distance
<1>3. /\ DOMAIN circle' = DOMAIN circle \ PointsOf(e)
      /\ DOMAIN circle \subseteq Points
      /\ \A p \in DOMAIN circle' : circle'[p] = circle[p]
  <2> DEFINE c == Freed(e)
  <2>1. /\ DOMAIN c = DOMAIN circle \ PointsOf(e)
        /\ \A p \in DOMAIN c : c[p] = circle[p]
    BY FreedIs
  <2> HIDE DEF c
  <2>2. DOMAIN circle \subseteq Points
    BY DEF HashInv, MembersOwnTheirPoints, TypeOK
  <2> QED  BY <1>1, <2>1, <2>2 DEF c
<1>4. NearestAnswers /\ NearestAnswers'
  BY AnswerIs, AnswerIsNext
<1>5. (circle = <<>> <=> DOMAIN circle = {}) /\ (circle' = <<>> <=> DOMAIN circle' = {})
  <2>1. InvFunction' => (circle' = <<>> <=> DOMAIN circle' = {})
    <3>1. (InvFunction => (circle = <<>> <=> DOMAIN circle = {}))'
      BY EmptyCircle, PTL
    <3> QED  BY <3>1
  <2> QED  BY <2>1, EmptyCircle DEF HashInv
<1>6. circle # <<>>
  <2> SUFFICES ASSUME circle = <<>> PROVE FALSE
    OBVIOUS
  <2>1. circle' = <<>>
    BY <1>3, <1>5
  <2> QED  BY <1>4, <2>1 DEF NearestAnswers
<1>7. PICK p \in DOMAIN circle : /\ Answer(key) = circle[p]
                                 /\ \A q \in DOMAIN circle : Distance(key, p) <= Distance(key, q)
  BY <1>4, <1>6 DEF NearestAnswers, Nearest
<1>8. CASE p \in PointsOf(e)
  <2>1. PICK i \in Replicas : p = hash[e][i]
    BY <1>8 DEF PointsOf
  <2>2. \A o \in Elts \ {e} : p \notin PointsOf(o)
    BY <2>1 DEF Uncontested
  <2>3. p \in PointsOf(circle[p]) /\ circle[p] \in Elts
    BY DEF HashInv, InvOwners, MembersOwnTheirPoints, TypeOK
  <2> QED  BY <1>7, <2>2, <2>3
<1>9. CASE p \notin PointsOf(e)
  <2>1. p \in DOMAIN circle' /\ circle'[p] = circle[p] /\ circle' # <<>>
    BY <1>3, <1>5, <1>9
  <2>2. PICK o \in DOMAIN circle' : /\ Answer(key)' = circle'[o]
                                    /\ \A q \in DOMAIN circle' : Distance(key, o) <= Distance(key, q)
    <3>1. \E o \in DOMAIN circle' : Answer(key)' = circle'[o] /\ Nearest(key, o)'
      BY <1>4, <2>1 DEF NearestAnswers
    <3> QED  BY <1>2, <3>1 DEF Nearest
  <2>3. DOMAIN circle' \subseteq Points /\ \A q \in DOMAIN circle' : Distance(key, p) <= Distance(key, q)
    BY <1>3, <1>7
  <2>4. o = p
    BY <2>1, <2>2, <2>3, NearestUnique
  <2> QED  BY <1>7, <2>1, <2>2, <2>4
<1> QED  BY <1>8, <1>9

\* A new member takes names over but moves none between the others, and one that
\* leaves gives up its own names only, if it shares no point with another.
THEOREM FewNamesMove == HashSpec => MovesFewNames
<1> DEFINE Few == \A e \in Elts, key \in Points : Answer(key)' # Answer(key) =>
                    /\ Add(e) \/ Put(e) => Answer(key)' = e
                    /\ RemoveElt(e) /\ (\A i \in Replicas : Uncontested(e, i)) => Answer(key) = e
<1>1. HashInv /\ HashInv' => Few
  <2> SUFFICES ASSUME HashInv, HashInv', NEW e \in Elts, NEW key \in Points, Answer(key)' # Answer(key)
               PROVE  /\ Add(e) \/ Put(e) => Answer(key)' = e
                      /\ RemoveElt(e) /\ (\A i \in Replicas : Uncontested(e, i)) => Answer(key) = e
    OBVIOUS
  <2> QED  BY ComingMoves, GoingMoves
<1>2. HashInv /\ HashInv' => [Few]_hashVars
  BY <1>1
<1> QED  BY <1>2, HashInvariance, PTL DEF MovesFewNames

-----------------------------------------------------------------------------
(* Lists without duplicates *)

\* Removing an element that occurs once closes the gap it leaves.
LEMMA RemoveFirstCloses ==
  ASSUME NEW S, NEW s \in Seq(S), IsInjective(s), NEW i \in DOMAIN s
  PROVE  LET r == RemoveFirst(s, s[i]) IN
         /\ r \in Seq(S)
         /\ Len(r) = Len(s) - 1
         /\ \A j \in 1..Len(r) : r[j] = IF j < i THEN s[j] ELSE s[j + 1]
<1> DEFINE r == RemoveFirst(s, s[i])
<1>1. {j \in 1..Len(s) : s[j] = s[i]} = {i}
  BY DEF IsInjective
<1>2. i \in 1..Len(s)
  OBVIOUS
<1>3. SelectInSeq(s, LAMBDA v : v = s[i]) = i
  BY <1>1, <1>2 DEF SelectInSeq, Min
<1> DEFINE a == SubSeq(s, 1, i - 1)
           b == SubSeq(s, i + 1, Len(s))
<1>4. r = a \o b
  BY <1>2, <1>3 DEF RemoveFirst, RemoveAt
<1>5. a \in Seq(S) /\ Len(a) = i - 1 /\ \A j \in 1..(i - 1) : a[j] = s[j]
  BY <1>2
<1>6. b \in Seq(S) /\ Len(b) = Len(s) - i /\ \A j \in 1..(Len(s) - i) : b[j] = s[i + j]
  BY <1>2
<1>7. /\ a \o b \in Seq(S) /\ Len(a \o b) = (i - 1) + (Len(s) - i)
      /\ \A j \in 1..Len(a \o b) : (a \o b)[j] = IF j <= i - 1 THEN a[j] ELSE b[j - (i - 1)]
  <2>1. a \in Seq(S) /\ b \in Seq(S) /\ Len(a) = i - 1 /\ Len(b) = Len(s) - i
    BY <1>5, <1>6
  <2> HIDE DEF a, b
  <2>2. /\ a \o b \in Seq(S) /\ Len(a \o b) = Len(a) + Len(b)
        /\ \A j \in 1 .. Len(a) + Len(b) : (a \o b)[j] = IF j <= Len(a) THEN a[j] ELSE b[j - Len(a)]
    BY <2>1, ConcatProperties, Zenon
  <2> QED  BY <1>2, <2>1, <2>2
<1> HIDE DEF r, a, b
<1>8. ASSUME NEW j \in 1..(Len(s) - 1) PROVE r[j] = IF j < i THEN s[j] ELSE s[j + 1]
  <2>1. CASE j < i
    BY <1>2, <1>4, <1>5, <1>7, <2>1
  <2>2. CASE j >= i
    <3>1. j - (i - 1) \in 1..(Len(s) - i) /\ i + (j - (i - 1)) = j + 1 /\ ~(j <= i - 1)
      BY <1>2, <2>2
    <3>2. j \in 1..Len(a \o b)
      BY <1>2, <1>7
    <3>3. (a \o b)[j] = b[j - (i - 1)]
      BY <1>7, <3>1, <3>2
    <3>4. b[j - (i - 1)] = s[j + 1]
      BY <1>6, <3>1
    <3> QED  BY <1>4, <2>2, <3>3, <3>4, <1>2
  <2> QED  BY <1>2, <2>1, <2>2
<1>9. r \in Seq(S) /\ Len(r) = Len(s) - 1
  BY <1>2, <1>4, <1>7
<1> QED  BY <1>8, <1>9 DEF r

\* What stands before and behind the gap is what was there, and nothing is lost
\* but the element removed.
LEMMA RemoveFirstKeeps ==
  ASSUME NEW S, NEW s \in Seq(S), IsInjective(s), NEW e \in ToSet(s)
  PROVE  LET r == RemoveFirst(s, e) IN
         /\ r \in Seq(S)
         /\ IsInjective(r)
         /\ ToSet(r) = ToSet(s) \ {e}
         /\ Len(r) = Len(s) - 1
<1> DEFINE r == RemoveFirst(s, e)
<1>1. PICK i \in DOMAIN s : s[i] = e
  BY DEF ToSet
<1>2. /\ r \in Seq(S) /\ Len(r) = Len(s) - 1
      /\ \A j \in 1..Len(r) : r[j] = IF j < i THEN s[j] ELSE s[j + 1]
  BY <1>1, RemoveFirstCloses
<1>3. DOMAIN r = 1..Len(r) /\ DOMAIN s = 1..Len(s) /\ Len(s) \in Nat /\ Len(r) \in Nat /\ i \in 1..Len(s)
  BY <1>2
<1> HIDE DEF r
<1>4. IsInjective(r)
  BY <1>2, <1>3 DEF IsInjective
<1>5. ASSUME NEW x \in ToSet(r) PROVE x \in ToSet(s) \ {e}
  <2>1. PICK j \in 1..Len(r) : r[j] = x
    BY <1>3 DEF ToSet
  <2>2. PICK h \in 1..Len(s) : h # i /\ x = s[h]
    BY <1>2, <1>3, <2>1
  <2> QED  BY <1>1, <1>3, <2>2 DEF ToSet, IsInjective
<1>6. ASSUME NEW x \in ToSet(s) \ {e} PROVE x \in ToSet(r)
  <2>1. PICK h \in 1..Len(s) : x = s[h]
    BY <1>3 DEF ToSet
  <2>2. h # i
    BY <2>1, <1>1
  <2>3. CASE h < i
    <3>1. h \in 1..Len(r) /\ r[h] = x
      BY <1>2, <1>3, <2>1, <2>3
    <3> QED  BY <3>1, <1>3 DEF ToSet
  <2>4. CASE h > i
    <3>1. h - 1 \in 1..Len(r) /\ r[h - 1] = s[(h - 1) + 1] /\ (h - 1) + 1 = h
      BY <1>2, <1>3, <2>1, <2>4
    <3> QED  BY <3>1, <2>1, <1>3 DEF ToSet
  <2> QED  BY <1>3, <2>2, <2>3, <2>4
<1>7. ToSet(r) = ToSet(s) \ {e}
  BY <1>5, <1>6
<1> QED  BY <1>2, <1>4, <1>7 DEF r

\* Removing what is not there changes nothing.
LEMMA RemoveFirstNothing ==
  ASSUME NEW S, NEW s \in Seq(S), NEW e, e \notin ToSet(s)
  PROVE  RemoveFirst(s, e) = s
BY DEF RemoveFirst, ToSet

\* A new element in front moves the others one place up.
LEMMA InFront ==
  ASSUME NEW S, NEW s \in Seq(S), NEW e \in S
  PROVE  LET r == <<e>> \o s IN
         /\ r \in Seq(S) /\ Len(r) = Len(s) + 1
         /\ r[1] = e /\ \A j \in 1..Len(s) : r[j + 1] = s[j]
         /\ ToSet(r) = ToSet(s) \cup {e}
         /\ IsInjective(s) /\ e \notin ToSet(s) => IsInjective(r)
<1> DEFINE r == <<e>> \o s
<1>1. r \in Seq(S) /\ Len(r) = Len(s) + 1 /\ r[1] = e /\ \A j \in 1..Len(s) : r[j + 1] = s[j]
  OBVIOUS
<1>2. DOMAIN r = 1..(Len(s) + 1) /\ DOMAIN s = 1..Len(s) /\ Len(s) \in Nat
  BY <1>1
<1> HIDE DEF r
<1>3. \A j \in 2..(Len(s) + 1) : j - 1 \in 1..Len(s) /\ r[j] = s[j - 1]
  <2> TAKE j \in 2..(Len(s) + 1)
  <2>1. j - 1 \in 1..Len(s) /\ (j - 1) + 1 = j
    BY <1>2
  <2> QED  BY <1>1, <2>1
<1>4. ASSUME NEW x \in ToSet(r) PROVE x \in ToSet(s) \cup {e}
  BY <1>1, <1>2, <1>3 DEF ToSet
<1>5. ASSUME NEW x \in ToSet(s) PROVE x \in ToSet(r)
  <2>1. PICK j \in 1..Len(s) : s[j] = x
    BY <1>2 DEF ToSet
  <2>2. j + 1 \in DOMAIN r /\ r[j + 1] = x
    BY <1>1, <1>2, <2>1
  <2> QED  BY <2>2 DEF ToSet
<1>6. e \in ToSet(r)
  BY <1>1, <1>2 DEF ToSet
<1>7. ASSUME IsInjective(s), e \notin ToSet(s), NEW a \in DOMAIN r, NEW b \in DOMAIN r, r[a] = r[b]
      PROVE  a = b
  <2>1. \A j \in 2..(Len(s) + 1) : r[j] # e
    BY <1>3, <1>2, <1>7 DEF ToSet
  <2>2. CASE a = 1 \/ b = 1
    BY <1>1, <1>2, <1>7, <2>1, <2>2
  <2>3. CASE a # 1 /\ b # 1
    <3>1. a \in 2..(Len(s) + 1) /\ b \in 2..(Len(s) + 1)
      BY <1>2, <2>3
    <3>2. a - 1 = b - 1
      BY <3>1, <1>2, <1>3, <1>7 DEF IsInjective
    <3> QED  BY <3>1, <3>2, <1>2
  <2> QED  BY <2>2, <2>3
<1> QED  BY <1>1, <1>4, <1>5, <1>6, <1>7 DEF r, IsInjective

\* A list that is not empty is what is in front of its last element and that one.
LEMMA LastGoes ==
  ASSUME NEW S, NEW s \in Seq(S), IsInjective(s), s # <<>>
  PROVE  /\ Front(s) \in Seq(S) /\ Len(Front(s)) = Len(s) - 1
         /\ \A j \in 1..(Len(s) - 1) : Front(s)[j] = s[j]
         /\ Last(s) \in ToSet(s)
         /\ IsInjective(Front(s))
         /\ ToSet(Front(s)) = ToSet(s) \ {Last(s)}
<1> DEFINE r == Front(s)
<1>0. Len(s) \in Nat \ {0}
  BY EmptySeq
<1>1. /\ r \in Seq(S) /\ Len(r) = Len(s) - 1 /\ Len(s) \in Nat \ {0}
      /\ \A j \in 1..(Len(s) - 1) : r[j] = s[j]
  <2>1. Front(s) = SubSeq(s, 1, Len(s) - 1)
    BY DEF Front
  <2>2. \A j \in 1..(Len(s) - 1) : s[j] \in S /\ 1 + j - 1 = j
    BY <1>0
  <2> DEFINE n == Len(s) - 1
  <2>3. n \in Int /\ 1 \in Int
    BY <1>0
  <2>4. /\ SubSeq(s, 1, n) \in Seq(S)
        /\ Len(SubSeq(s, 1, n)) = IF 1 <= n THEN n - 1 + 1 ELSE 0
        /\ \A j \in 1..(n - 1 + 1) : SubSeq(s, 1, n)[j] = s[1 + j - 1]
    <3> HIDE DEF n
    <3> QED  BY <2>2, <2>3, SubSeqProperties DEF n
  <2>5. n - 1 + 1 = n /\ (~(1 <= n) => n = 0)
    <3>1. \A m \in Nat \ {0} : (m - 1) - 1 + 1 = m - 1 /\ (~(1 <= m - 1) => m - 1 = 0)
      OBVIOUS
    <3> QED  BY <1>0, <3>1
  <2>6. Len(SubSeq(s, 1, n)) = n
    BY <2>3, <2>4, <2>5
  <2>7. \A j \in 1..n : SubSeq(s, 1, n)[j] = s[j]
    BY <2>2, <2>4, <2>5
  <2> QED  BY <1>0, <2>1, <2>4, <2>6, <2>7
<1>2. DOMAIN r = 1..(Len(s) - 1) /\ DOMAIN s = 1..Len(s) /\ Last(s) = s[Len(s)]
  BY <1>1 DEF Last
<1> HIDE DEF r
<1>3. Last(s) \in ToSet(s)
  BY <1>1, <1>2 DEF ToSet
<1>4. IsInjective(r)
  BY <1>1, <1>2 DEF IsInjective
<1>5. ASSUME NEW x \in ToSet(r) PROVE x \in ToSet(s) \ {Last(s)}
  BY <1>1, <1>2 DEF ToSet, IsInjective
<1>6. ASSUME NEW x \in ToSet(s) \ {Last(s)} PROVE x \in ToSet(r)
  <2>1. PICK h \in 1..Len(s) : x = s[h]
    BY <1>2 DEF ToSet
  <2>2. h \in 1..(Len(s) - 1)
    BY <2>1, <1>1, <1>2
  <2> QED  BY <1>1, <1>2, <2>1, <2>2 DEF ToSet
<1> QED  BY <1>1, <1>3, <1>4, <1>5, <1>6 DEF r

\* The same from the other end.
LEMMA HeadGoes ==
  ASSUME NEW S, NEW s \in Seq(S), IsInjective(s), s # <<>>
  PROVE  /\ Tail(s) \in Seq(S) /\ Len(Tail(s)) = Len(s) - 1
         /\ \A j \in 1..(Len(s) - 1) : Tail(s)[j] = s[j + 1]
         /\ Head(s) \in ToSet(s)
         /\ IsInjective(Tail(s))
         /\ ToSet(Tail(s)) = ToSet(s) \ {Head(s)}
<1> DEFINE r == Tail(s)
<1>1. /\ r \in Seq(S) /\ Len(r) = Len(s) - 1 /\ Len(s) \in Nat \ {0}
      /\ \A j \in 1..(Len(s) - 1) : r[j] = s[j + 1]
  OBVIOUS
<1>2. DOMAIN r = 1..(Len(s) - 1) /\ DOMAIN s = 1..Len(s) /\ Head(s) = s[1]
  BY <1>1
<1> HIDE DEF r
<1>3. Head(s) \in ToSet(s)
  BY <1>1, <1>2 DEF ToSet
<1>4. IsInjective(r)
  BY <1>1, <1>2 DEF IsInjective
<1>5. ASSUME NEW x \in ToSet(r) PROVE x \in ToSet(s) \ {Head(s)}
  <2>1. PICK j \in 1..(Len(s) - 1) : r[j] = x
    BY <1>2 DEF ToSet
  <2>2. j + 1 \in 1..Len(s) /\ j + 1 # 1 /\ x = s[j + 1]
    BY <1>1, <2>1
  <2> QED  BY <1>1, <1>2, <2>2 DEF ToSet, IsInjective
<1>6. ASSUME NEW x \in ToSet(s) \ {Head(s)} PROVE x \in ToSet(r)
  <2>1. PICK h \in 1..Len(s) : x = s[h]
    BY <1>2 DEF ToSet
  <2>2. h - 1 \in 1..(Len(s) - 1) /\ (h - 1) + 1 = h
    BY <2>1, <1>1, <1>2
  <2>3. r[h - 1] = x
    BY <1>1, <2>1, <2>2
  <2> QED  BY <1>2, <2>2, <2>3 DEF ToSet
<1> QED  BY <1>1, <1>3, <1>4, <1>5, <1>6 DEF r

\* A new element at the end leaves the others where they are.
LEMMA AtTheEnd ==
  ASSUME NEW S, NEW s \in Seq(S), NEW e \in S
  PROVE  LET r == Append(s, e) IN
         /\ r \in Seq(S) /\ Len(r) = Len(s) + 1 /\ r # <<>>
         /\ r[Len(s) + 1] = e /\ \A j \in 1..Len(s) : r[j] = s[j]
         /\ ToSet(r) = ToSet(s) \cup {e}
         /\ IsInjective(s) /\ e \notin ToSet(s) => IsInjective(r)
<1> DEFINE r == Append(s, e)
<1>1. r \in Seq(S) /\ Len(r) = Len(s) + 1 /\ r[Len(s) + 1] = e /\ \A j \in 1..Len(s) : r[j] = s[j]
  OBVIOUS
<1>2. DOMAIN r = 1..(Len(s) + 1) /\ DOMAIN s = 1..Len(s) /\ Len(s) \in Nat
  BY <1>1
<1> HIDE DEF r
<1>3. \A j \in DOMAIN r : \/ j \in 1..Len(s) /\ r[j] = s[j]
                          \/ j = Len(s) + 1 /\ r[j] = e
  BY <1>1, <1>2
<1>4. ToSet(r) = ToSet(s) \cup {e}
  <2>1. ASSUME NEW x \in ToSet(r) PROVE x \in ToSet(s) \cup {e}
    BY <1>2, <1>3 DEF ToSet
  <2>2. ASSUME NEW x \in ToSet(s) PROVE x \in ToSet(r)
    BY <1>1, <1>2 DEF ToSet
  <2>3. e \in ToSet(r)
    BY <1>1, <1>2 DEF ToSet
  <2> QED  BY <2>1, <2>2, <2>3
<1>5. ASSUME IsInjective(s), e \notin ToSet(s) PROVE IsInjective(r)
  BY <1>2, <1>3, <1>5 DEF IsInjective, ToSet
<1>6. r # <<>>
  BY <1>1, <1>2, EmptySeq
<1> QED  BY <1>1, <1>4, <1>5, <1>6 DEF r

-----------------------------------------------------------------------------
(* The order of use *)

\* recent has every key that was used once.
InvRecent == recent \in Seq(Keys) /\ IsInjective(recent)

\* A use takes the key from its place p, or from beyond the end, to the front.
LEMMA UseMoves ==
  ASSUME InvRecent, NEW k \in Keys, Use(k)
  PROVE  /\ InvRecent'
         /\ ToSet(recent') = ToSet(recent) \cup {k}
         /\ \E p \in 1..(Len(recent) + 1) :
              /\ p <= Len(recent) => recent[p] = k
              /\ p > Len(recent) => k \notin ToSet(recent)
              /\ Len(recent') = IF p <= Len(recent) THEN Len(recent) ELSE Len(recent) + 1
              /\ recent'[1] = k
              /\ \A j \in 2..Len(recent') : recent'[j] = IF j <= p THEN recent[j - 1] ELSE recent[j]
<1> DEFINE r == RemoveFirst(recent, k)
<1>1. recent' = <<k>> \o r /\ recent \in Seq(Keys) /\ IsInjective(recent)
  BY DEF Use, InvRecent
<1>2. CASE k \in ToSet(recent)
  <2>1. PICK p \in DOMAIN recent : recent[p] = k
    BY <1>2 DEF ToSet
  <2>2. /\ r \in Seq(Keys) /\ Len(r) = Len(recent) - 1
        /\ \A j \in 1..Len(r) : r[j] = IF j < p THEN recent[j] ELSE recent[j + 1]
    BY <1>1, <2>1, RemoveFirstCloses
  <2>3. IsInjective(r) /\ ToSet(r) = ToSet(recent) \ {k}
    BY <1>1, <1>2, RemoveFirstKeeps
  <2> HIDE DEF r
  <2>4. /\ recent' \in Seq(Keys) /\ Len(recent') = Len(r) + 1
        /\ recent'[1] = k /\ \A j \in 1..Len(r) : recent'[j + 1] = r[j]
        /\ ToSet(recent') = ToSet(r) \cup {k} /\ IsInjective(recent')
    BY <1>1, <2>2, <2>3, InFront
  <2>5. p \in 1..Len(recent) /\ Len(recent) \in Nat /\ Len(r) \in Nat
    BY <1>1, <2>2
  <2>6. ASSUME NEW j \in 2..Len(recent')
        PROVE  recent'[j] = IF j <= p THEN recent[j - 1] ELSE recent[j]
    <3>1. j - 1 \in 1..Len(r) /\ (j - 1) + 1 = j
      BY <2>4, <2>5
    <3>2. recent'[j] = r[j - 1]
      BY <2>4, <3>1
    <3> QED  BY <2>2, <2>5, <3>1, <3>2
  <2>7. ToSet(recent') = ToSet(recent) \cup {k}
    BY <1>2, <2>3, <2>4
  <2>8. InvRecent'
    BY <2>4 DEF InvRecent
  <2>9. p \in 1..(Len(recent) + 1) /\ p <= Len(recent) /\ Len(recent') = Len(recent)
    BY <2>2, <2>4, <2>5
  <2> QED  BY <2>1, <2>4, <2>6, <2>7, <2>8, <2>9
<1>3. CASE k \notin ToSet(recent)
  <2>1. recent' = <<k>> \o recent
    BY <1>1, <1>3, RemoveFirstNothing
  <2>2. /\ recent' \in Seq(Keys) /\ Len(recent') = Len(recent) + 1
        /\ recent'[1] = k /\ \A j \in 1..Len(recent) : recent'[j + 1] = recent[j]
        /\ ToSet(recent') = ToSet(recent) \cup {k} /\ IsInjective(recent')
    <3> DEFINE s == <<k>> \o recent
    <3>1. /\ s \in Seq(Keys) /\ Len(s) = Len(recent) + 1
          /\ s[1] = k /\ \A j \in 1..Len(recent) : s[j + 1] = recent[j]
          /\ ToSet(s) = ToSet(recent) \cup {k} /\ IsInjective(s)
      BY <1>1, <1>3, InFront
    <3> QED  BY <2>1, <3>1
  <2>3. Len(recent) \in Nat
    BY <1>1
  <2> DEFINE p == Len(recent) + 1
  <2>4. ASSUME NEW j \in 2..Len(recent')
        PROVE  recent'[j] = IF j <= p THEN recent[j - 1] ELSE recent[j]
    <3>1. j - 1 \in 1..Len(recent) /\ (j - 1) + 1 = j /\ j <= p
      BY <2>2, <2>3
    <3> QED  BY <2>2, <3>1
  <2>5. InvRecent'
    BY <2>2 DEF InvRecent
  <2>6. p \in 1..(Len(recent) + 1) /\ p > Len(recent) /\ ~(p <= Len(recent))
    BY <2>3
  <2> QED  BY <1>3, <2>2, <2>4, <2>5, <2>6
<1> QED  BY <1>2, <1>3

\* The key used is the youngest, and the others keep their order.
LEMMA UseAges ==
  ASSUME InvRecent, NEW k \in Keys, Use(k)
  PROVE  /\ \A j \in ToSet(recent) \ {k} : Age(j)' > Age(k)'
         /\ \A i, j \in ToSet(recent) \ {k} : Age(i) > Age(j) => Age(i)' > Age(j)'
<1>1. PICK p \in 1..(Len(recent) + 1) :
              /\ p <= Len(recent) => recent[p] = k
              /\ p > Len(recent) => k \notin ToSet(recent)
              /\ Len(recent') = IF p <= Len(recent) THEN Len(recent) ELSE Len(recent) + 1
              /\ recent'[1] = k
              /\ \A j \in 2..Len(recent') : recent'[j] = IF j <= p THEN recent[j - 1] ELSE recent[j]
  BY UseMoves
<1>2. recent \in Seq(Keys) /\ IsInjective(recent) /\ recent' \in Seq(Keys) /\ IsInjective(recent')
  BY UseMoves DEF InvRecent
<1>3. /\ DOMAIN recent = 1..Len(recent) /\ DOMAIN recent' = 1..Len(recent')
      /\ Len(recent) \in Nat /\ Len(recent') \in Nat
  BY <1>2
<1>4. \A i \in DOMAIN recent : Age(recent[i]) = i
  BY <1>2 DEF Age, IsInjective
<1>5. \A i \in DOMAIN recent', x \in Keys : recent'[i] = x => Age(x)' = i
  BY <1>2 DEF Age, IsInjective
<1>6. Age(k)' = 1
  <2>1. 1 \in DOMAIN recent'
    BY <1>1, <1>3
  <2> QED  BY <1>1, <1>5, <2>1
<1>7. ASSUME NEW j \in ToSet(recent) \ {k}
      PROVE  /\ Age(j) \in 1..Len(recent) /\ Age(j) # p
             /\ Age(j)' = IF Age(j) < p THEN Age(j) + 1 ELSE Age(j)
  <2>1. PICK h \in 1..Len(recent) : recent[h] = j
    BY <1>3 DEF ToSet
  <2>2. Age(j) = h /\ h # p /\ j \in Keys
    BY <1>1, <1>2, <1>3, <1>4, <2>1
  <2>3. CASE h < p
    <3>1. h + 1 \in 2..Len(recent') /\ h + 1 <= p /\ (h + 1) - 1 = h
      BY <1>1, <1>3, <2>3
    <3>2. recent'[h + 1] = j /\ h + 1 \in DOMAIN recent'
      BY <1>1, <1>3, <2>1, <3>1
    <3>3. Age(j)' = h + 1
      BY <1>5, <2>2, <3>2
    <3> QED  BY <2>1, <2>2, <2>3, <3>3
  <2>4. CASE h > p
    <3>1. h \in 2..Len(recent') /\ ~(h <= p) /\ ~(h < p)
      BY <1>1, <1>3, <2>4
    <3>2. recent'[h] = j /\ h \in DOMAIN recent'
      BY <1>1, <1>3, <2>1, <3>1
    <3>3. Age(j)' = h
      BY <1>5, <2>2, <3>2
    <3> QED  BY <2>1, <2>2, <3>1, <3>3
  <2> QED  BY <1>3, <2>2, <2>3, <2>4
<1>8. ASSUME NEW j \in ToSet(recent) \ {k} PROVE Age(j)' > Age(k)'
  BY <1>3, <1>6, <1>7, <1>1
<1>9. ASSUME NEW i \in ToSet(recent) \ {k}, NEW j \in ToSet(recent) \ {k}, Age(i) > Age(j)
      PROVE  Age(i)' > Age(j)'
  BY <1>1, <1>3, <1>7, <1>9
<1> QED  BY <1>8, <1>9

-----------------------------------------------------------------------------
(* The LRU cache *)

\* The values held are the last ones put.
InvValues == \A k \in DOMAIN keyToLst : pair[keyToLst[k]].val = written[k]

LRUInv == IteratorsValid /\ KeepsMostRecent /\ InvValues /\ InvRecent /\ cap # 0

\* KeepsMostRecent, place by place.
Kept == IF cap > 0 /\ cap < Len(recent) THEN cap ELSE Len(recent)
KeptInOrder == Len(lst) = Kept /\ \A i \in 1..Len(lst) : pair[lst[i]].key = recent[i]

\* KeptInOrder says what KeepsMostRecent says.
LEMMA MostRecentIs ==
  recent \in Seq(Keys) /\ lst \in Seq(Nodes) /\ cap \in Int => (KeepsMostRecent <=> KeptInOrder)
<1> SUFFICES ASSUME recent \in Seq(Keys), lst \in Seq(Nodes), cap \in Int
             PROVE  KeepsMostRecent <=> KeptInOrder
  OBVIOUS
<1> DEFINE held == [i \in DOMAIN lst |-> pair[lst[i]].key]
<1>1. /\ DOMAIN recent = 1..Len(recent) /\ Len(recent) \in Nat /\ recent \in [1..Len(recent) -> Keys]
      /\ DOMAIN lst = 1..Len(lst) /\ Len(lst) \in Nat
  BY LenProperties
<1>2. MostRecent \in Seq(Keys) /\ Len(MostRecent) = Kept /\ \A i \in 1..Kept : MostRecent[i] = recent[i]
  <2>1. CASE cap > 0 /\ cap < Len(recent)
    <3>1. \A i \in 1..cap : recent[i] \in Keys
      BY <1>1, <2>1
    <3>2. /\ SubSeq(recent, 1, cap) \in Seq(Keys) /\ Len(SubSeq(recent, 1, cap)) = cap
          /\ \A i \in 1..cap : SubSeq(recent, 1, cap)[i] = recent[i]
      BY <1>1, <2>1, <3>1
    <3> QED  BY <2>1, <3>2 DEF MostRecent, Kept
  <2>2. CASE ~(cap > 0 /\ cap < Len(recent))
    BY <2>2 DEF MostRecent, Kept
  <2> QED  BY <2>1, <2>2
<1>3. MostRecent \in [1..Kept -> Keys] /\ Kept \in Nat
  BY <1>1, <1>2, LenProperties
<1>4. ASSUME held = MostRecent PROVE KeptInOrder
  <2>1. 1..Len(lst) = 1..Kept
    BY <1>1, <1>3, <1>4
  <2>2. Len(lst) = Kept
    <3>1. ASSUME NEW a \in Nat, NEW b \in Nat, 1..a = 1..b PROVE a <= b
      <4>1. a = 0 \/ a \in 1..a
        OBVIOUS
      <4> QED  BY <3>1, <4>1
    <3>2. Len(lst) <= Kept /\ Kept <= Len(lst)
      BY <1>1, <1>3, <2>1, <3>1
    <3>3. Len(lst) \in Nat /\ Kept \in Nat
      BY <1>1, <1>3
    <3> QED  BY <3>2, <3>3
  <2>3. \A i \in 1..Len(lst) : held[i] = recent[i]
    BY <1>2, <1>4, <2>2
  <2> QED  BY <1>1, <2>2, <2>3 DEF KeptInOrder
<1>5. ASSUME KeptInOrder PROVE held = MostRecent
  <2>1. DOMAIN held = 1..Kept /\ \A i \in 1..Kept : held[i] = MostRecent[i]
    BY <1>1, <1>2, <1>5 DEF KeptInOrder
  <2> QED  BY <1>3, <2>1
<1> QED  BY <1>4, <1>5 DEF KeepsMostRecent

\* The list l, its nodes p and the map m without its entry of k describe each
\* other.
Describe(l, p, m, k) ==
  /\ l \in Seq(Nodes) /\ IsInjective(l) /\ ToSet(l) = DOMAIN p
  /\ \A n \in DOMAIN p : p[n] \in [key : Keys, val : Values]
  /\ DOMAIN m \subseteq Keys /\ \A j \in DOMAIN m : m[j] \in Nodes
  /\ DOMAIN p = {m[j] : j \in DOMAIN m \ {k}}
  /\ \A j \in DOMAIN m \ {k} : p[m[j]].key = j

\* The new front node takes the place of k's entry, and nothing else changes.
LEMMA PushFrontDescribes ==
  ASSUME NEW k \in Keys, NEW v \in Values, NEW l, NEW p, NEW m,
         Describe(l, p, m, k), PushFront(k, v, l, p, m)
  PROVE  /\ lst' \in Seq(Nodes) /\ IsInjective(lst') /\ ToSet(lst') = DOMAIN pair'
         /\ Len(lst') = Len(l) + 1
         /\ \A n \in DOMAIN pair' : pair'[n] \in [key : Keys, val : Values]
         /\ DOMAIN keyToLst' = DOMAIN m \cup {k} /\ \A j \in DOMAIN keyToLst' : keyToLst'[j] \in Nodes
         /\ DOMAIN pair' = {keyToLst'[j] : j \in DOMAIN keyToLst'}
         /\ \A j \in DOMAIN keyToLst' : pair'[keyToLst'[j]].key = j
         /\ pair'[keyToLst'[k]].val = v
         /\ \A j \in DOMAIN m \ {k} : pair'[keyToLst'[j]] = p[m[j]]
         /\ pair'[lst'[1]].key = k
         /\ \A i \in 1..Len(l) : lst'[i + 1] = l[i] /\ pair'[l[i]] = p[l[i]]
<1>1. PICK n \in Nodes \ DOMAIN p : /\ lst' = <<n>> \o l
                                    /\ pair' = With(p, n, [key |-> k, val |-> v])
                                    /\ keyToLst' = With(m, k, n)
  BY DEF PushFront
<1>2. l \in Seq(Nodes) /\ IsInjective(l) /\ ToSet(l) = DOMAIN p /\ n \notin ToSet(l)
  BY <1>1 DEF Describe
<1>3. /\ lst' \in Seq(Nodes) /\ Len(lst') = Len(l) + 1
      /\ lst'[1] = n /\ \A i \in 1..Len(l) : lst'[i + 1] = l[i]
      /\ ToSet(lst') = ToSet(l) \cup {n} /\ IsInjective(lst')
  <2> DEFINE s == <<n>> \o l
  <2>1. /\ s \in Seq(Nodes) /\ Len(s) = Len(l) + 1
        /\ s[1] = n /\ \A i \in 1..Len(l) : s[i + 1] = l[i]
        /\ ToSet(s) = ToSet(l) \cup {n} /\ IsInjective(s)
    BY <1>2, InFront
  <2> QED  BY <1>1, <2>1
<1>4. /\ DOMAIN pair' = DOMAIN p \cup {n}
      /\ pair'[n] = [key |-> k, val |-> v] /\ \A x \in DOMAIN p : pair'[x] = p[x]
  BY <1>1 DEF With
<1>5. /\ DOMAIN keyToLst' = DOMAIN m \cup {k}
      /\ keyToLst'[k] = n /\ \A j \in DOMAIN m \ {k} : keyToLst'[j] = m[j]
  BY <1>1 DEF With
<1>6. /\ \A x \in DOMAIN p : p[x] \in [key : Keys, val : Values]
      /\ DOMAIN m \subseteq Keys /\ \A j \in DOMAIN m : m[j] \in Nodes
      /\ DOMAIN p = {m[j] : j \in DOMAIN m \ {k}}
      /\ \A j \in DOMAIN m \ {k} : p[m[j]].key = j
  BY DEF Describe
<1>7. ToSet(lst') = DOMAIN pair'
  BY <1>2, <1>3, <1>4
<1>8. \A x \in DOMAIN pair' : pair'[x] \in [key : Keys, val : Values]
  BY <1>4, <1>6
<1>9. \A j \in DOMAIN keyToLst' : keyToLst'[j] \in Nodes
  BY <1>1, <1>5, <1>6
<1>10. \A j \in DOMAIN m \ {k} : m[j] \in DOMAIN p /\ pair'[keyToLst'[j]] = p[m[j]]
  BY <1>4, <1>5, <1>6
<1>11. DOMAIN pair' = {keyToLst'[j] : j \in DOMAIN keyToLst'}
  BY <1>4, <1>5, <1>6
<1>12. \A j \in DOMAIN keyToLst' : pair'[keyToLst'[j]].key = j
  BY <1>4, <1>5, <1>6, <1>10
<1>13. pair'[keyToLst'[k]].val = v /\ pair'[lst'[1]].key = k
  BY <1>3, <1>4, <1>5
<1>14. \A i \in 1..Len(l) : l[i] \in DOMAIN p /\ pair'[l[i]] = p[l[i]]
  BY <1>2, <1>4 DEF ToSet
<1> QED  BY <1>3, <1>5, <1>7, <1>8, <1>9, <1>10, <1>11, <1>12, <1>13, <1>14

\* The list and the maps after a put, and who is where in the list.
PutLeaves(k, v) ==
  /\ lst' \in Seq(Nodes) /\ IsInjective(lst') /\ ToSet(lst') = DOMAIN pair'
  /\ \A n \in DOMAIN pair' : pair'[n] \in [key : Keys, val : Values]
  /\ \A j \in DOMAIN keyToLst' : keyToLst'[j] \in Nodes
  /\ DOMAIN pair' = {keyToLst'[j] : j \in DOMAIN keyToLst'}
  /\ \A j \in DOMAIN keyToLst' : pair'[keyToLst'[j]].key = j
  /\ pair'[keyToLst'[k]].val = v
  /\ \A j \in DOMAIN keyToLst' \ {k} : j \in DOMAIN keyToLst /\ pair'[keyToLst'[j]] = pair[keyToLst[j]]
  /\ pair'[lst'[1]].key = k

\* A node leads back to the key it holds.
LEMMA NodesAndKeys ==
  ASSUME IteratorsValid
  PROVE  /\ \A i \in 1..Len(lst) : /\ lst[i] \in DOMAIN pair
                                  /\ pair[lst[i]].key \in DOMAIN keyToLst
                                  /\ keyToLst[pair[lst[i]].key] = lst[i]
         /\ \A k \in DOMAIN keyToLst : \E i \in 1..Len(lst) : lst[i] = keyToLst[k]
<1>1. /\ lst \in Seq(Nodes) /\ ToSet(lst) = DOMAIN pair
      /\ DOMAIN pair = {keyToLst[k] : k \in DOMAIN keyToLst}
      /\ \A k \in DOMAIN keyToLst : pair[keyToLst[k]].key = k
  BY DEF IteratorsValid, LRUTypeOK
<1>2. DOMAIN lst = 1..Len(lst)
  BY <1>1
<1>3. \A i \in 1..Len(lst) : lst[i] \in DOMAIN pair
  BY <1>1, <1>2 DEF ToSet
<1>4. ASSUME NEW k \in DOMAIN keyToLst PROVE \E i \in 1..Len(lst) : lst[i] = keyToLst[k]
  <2>1. keyToLst[k] \in ToSet(lst)
    BY <1>1
  <2> QED  BY <1>2, <2>1 DEF ToSet
<1> QED  BY <1>1, <1>3, <1>4

\* A put of a key that is there moves its node's place to the front.
LEMMA ReplaceLeaves ==
  ASSUME IteratorsValid, NEW k \in Keys, NEW v \in Values, LRUReplace(k, v)
  PROVE  /\ PutLeaves(k, v)
         /\ DOMAIN keyToLst' = DOMAIN keyToLst
         /\ Len(lst') = Len(lst)
         /\ \E p \in 1..Len(lst) :
              /\ pair[lst[p]].key = k
              /\ \A i \in 2..Len(lst') : pair'[lst'[i]].key = pair[IF i <= p THEN lst[i - 1] ELSE lst[i]].key
<1> DEFINE n == keyToLst[k]
           l == RemoveFirst(lst, n)
           q == Without(pair, n)
<1>1. /\ lst \in Seq(Nodes) /\ IsInjective(lst) /\ ToSet(lst) = DOMAIN pair
      /\ \A x \in DOMAIN pair : pair[x] \in [key : Keys, val : Values]
      /\ DOMAIN keyToLst \subseteq Keys /\ \A j \in DOMAIN keyToLst : keyToLst[j] \in Nodes
      /\ DOMAIN pair = {keyToLst[j] : j \in DOMAIN keyToLst}
      /\ \A j \in DOMAIN keyToLst : pair[keyToLst[j]].key = j
  BY DEF IteratorsValid, LRUTypeOK
<1>2. k \in DOMAIN keyToLst /\ PushFront(k, v, l, q, keyToLst)
  BY DEF LRUReplace, InList
<1>3. PICK p \in 1..Len(lst) : lst[p] = n
  BY <1>2, NodesAndKeys
<1>4. DOMAIN lst = 1..Len(lst) /\ Len(lst) \in Nat /\ n \in ToSet(lst)
  BY <1>1, <1>3 DEF ToSet
<1>5. /\ l \in Seq(Nodes) /\ Len(l) = Len(lst) - 1
      /\ \A j \in 1..Len(l) : l[j] = IF j < p THEN lst[j] ELSE lst[j + 1]
  <2>1. p \in DOMAIN lst
    BY <1>3, <1>4
  <2> QED  BY <1>1, <1>3, <2>1, RemoveFirstCloses
<1>6. IsInjective(l) /\ ToSet(l) = DOMAIN pair \ {n}
  BY <1>1, <1>4, RemoveFirstKeeps
<1>7. DOMAIN q = DOMAIN pair \ {n} /\ \A x \in DOMAIN q : q[x] = pair[x]
  BY DEF Without
<1>8. Describe(l, q, keyToLst, k)
  <2> HIDE DEF l, q
  <2>1. DOMAIN q = {keyToLst[j] : j \in DOMAIN keyToLst \ {k}}
    BY <1>1, <1>2, <1>7
  <2>2. \A j \in DOMAIN keyToLst \ {k} : q[keyToLst[j]].key = j
    BY <1>1, <1>7, <2>1
  <2>3. \A x \in DOMAIN q : q[x] \in [key : Keys, val : Values]
    BY <1>1, <1>7
  <2> QED  BY <1>1, <1>5, <1>6, <1>7, <2>1, <2>2, <2>3 DEF Describe
<1> HIDE DEF l, q
<1>9. /\ lst' \in Seq(Nodes) /\ IsInjective(lst') /\ ToSet(lst') = DOMAIN pair'
      /\ Len(lst') = Len(l) + 1
      /\ \A x \in DOMAIN pair' : pair'[x] \in [key : Keys, val : Values]
      /\ DOMAIN keyToLst' = DOMAIN keyToLst \cup {k} /\ \A j \in DOMAIN keyToLst' : keyToLst'[j] \in Nodes
      /\ DOMAIN pair' = {keyToLst'[j] : j \in DOMAIN keyToLst'}
      /\ \A j \in DOMAIN keyToLst' : pair'[keyToLst'[j]].key = j
      /\ pair'[keyToLst'[k]].val = v
      /\ \A j \in DOMAIN keyToLst \ {k} : pair'[keyToLst'[j]] = q[keyToLst[j]]
      /\ pair'[lst'[1]].key = k
      /\ \A i \in 1..Len(l) : lst'[i + 1] = l[i] /\ pair'[l[i]] = q[l[i]]
  BY <1>2, <1>8, PushFrontDescribes
<1>10. \A j \in DOMAIN keyToLst' \ {k} : j \in DOMAIN keyToLst /\ pair'[keyToLst'[j]] = pair[keyToLst[j]]
  <2>1. \A j \in DOMAIN keyToLst \ {k} : keyToLst[j] \in DOMAIN q
    BY <1>8 DEF Describe
  <2> QED  BY <1>7, <1>9, <2>1
<1>11. PutLeaves(k, v)
  BY <1>9, <1>10 DEF PutLeaves
<1>12. ASSUME NEW i \in 2..Len(lst')
       PROVE  pair'[lst'[i]].key = pair[IF i <= p THEN lst[i - 1] ELSE lst[i]].key
  <2>1. i - 1 \in 1..Len(l) /\ (i - 1) + 1 = i
    BY <1>4, <1>5, <1>9
  <2>2. lst'[i] = l[i - 1] /\ pair'[l[i - 1]] = q[l[i - 1]]
    BY <1>9, <2>1
  <2>3. l[i - 1] \in DOMAIN q
    BY <1>5, <1>6, <1>7, <2>1 DEF ToSet
  <2>4. l[i - 1] = IF i <= p THEN lst[i - 1] ELSE lst[i]
    BY <1>3, <1>5, <2>1
  <2> QED  BY <1>7, <2>2, <2>3, <2>4
<1>13. pair[lst[p]].key = k
  BY <1>1, <1>2, <1>3
<1>14. Len(lst') = Len(lst)
  <2>1. Len(lst) \in Nat /\ Len(l) = Len(lst) - 1 /\ Len(lst') = Len(l) + 1
    BY <1>4, <1>5, <1>9
  <2> QED  BY <2>1
<1>15. DOMAIN keyToLst' = DOMAIN keyToLst
  BY <1>2, <1>9
<1> QED  BY <1>11, <1>12, <1>13, <1>14, <1>15

\* A put of a new key with room adds a node in front.
LEMMA InsertLeaves ==
  ASSUME IteratorsValid, NEW k \in Keys, NEW v \in Values, LRUInsert(k, v)
  PROVE  /\ PutLeaves(k, v)
         /\ DOMAIN keyToLst' = DOMAIN keyToLst \cup {k}
         /\ Len(lst') = Len(lst) + 1
         /\ \A i \in 2..Len(lst') : pair'[lst'[i]].key = pair[lst[i - 1]].key
<1>1. /\ lst \in Seq(Nodes) /\ IsInjective(lst) /\ ToSet(lst) = DOMAIN pair
      /\ \A x \in DOMAIN pair : pair[x] \in [key : Keys, val : Values]
      /\ DOMAIN keyToLst \subseteq Keys /\ \A j \in DOMAIN keyToLst : keyToLst[j] \in Nodes
      /\ DOMAIN pair = {keyToLst[j] : j \in DOMAIN keyToLst}
      /\ \A j \in DOMAIN keyToLst : pair[keyToLst[j]].key = j
      /\ cap > 0 => Len(lst) <= cap
      /\ cap \in Int
  BY DEF IteratorsValid, LRUTypeOK, BaseTypeOK
<1>2. k \notin DOMAIN keyToLst /\ PushFront(k, v, lst, pair, keyToLst)
  BY DEF LRUInsert, InList
<1>3. Describe(lst, pair, keyToLst, k)
  BY <1>1, <1>2 DEF Describe
<1>4. /\ lst' \in Seq(Nodes) /\ IsInjective(lst') /\ ToSet(lst') = DOMAIN pair'
      /\ Len(lst') = Len(lst) + 1
      /\ \A x \in DOMAIN pair' : pair'[x] \in [key : Keys, val : Values]
      /\ DOMAIN keyToLst' = DOMAIN keyToLst \cup {k} /\ \A j \in DOMAIN keyToLst' : keyToLst'[j] \in Nodes
      /\ DOMAIN pair' = {keyToLst'[j] : j \in DOMAIN keyToLst'}
      /\ \A j \in DOMAIN keyToLst' : pair'[keyToLst'[j]].key = j
      /\ pair'[keyToLst'[k]].val = v
      /\ \A j \in DOMAIN keyToLst \ {k} : pair'[keyToLst'[j]] = pair[keyToLst[j]]
      /\ pair'[lst'[1]].key = k
      /\ \A i \in 1..Len(lst) : lst'[i + 1] = lst[i] /\ pair'[lst[i]] = pair[lst[i]]
  BY <1>2, <1>3, PushFrontDescribes
<1>5. PutLeaves(k, v)
  BY <1>4 DEF PutLeaves
<1>6. ASSUME NEW i \in 2..Len(lst') PROVE pair'[lst'[i]].key = pair[lst[i - 1]].key
  <2>1. Len(lst) \in Nat
    BY <1>1
  <2>2. i - 1 \in 1..Len(lst) /\ (i - 1) + 1 = i
    BY <1>4, <2>1
  <2> QED  BY <1>4, <2>2
<1> QED  BY <1>4, <1>5, <1>6

\* A put of a new key without room does the same, when the last node is gone.
LEMMA EvictLeaves ==
  ASSUME IteratorsValid, cap # 0, NEW k \in Keys, NEW v \in Values, LRUEvict(k, v)
  PROVE  /\ PutLeaves(k, v)
         /\ \E j \in DOMAIN keyToLst : DOMAIN keyToLst' = (DOMAIN keyToLst \ {j}) \cup {k}
         /\ cap > 0 /\ Len(lst) = cap /\ Len(lst') = cap
         /\ \A i \in 2..Len(lst') : pair'[lst'[i]].key = pair[lst[i - 1]].key
<1>1. /\ lst \in Seq(Nodes) /\ IsInjective(lst) /\ ToSet(lst) = DOMAIN pair
      /\ \A x \in DOMAIN pair : pair[x] \in [key : Keys, val : Values]
      /\ DOMAIN keyToLst \subseteq Keys /\ \A j \in DOMAIN keyToLst : keyToLst[j] \in Nodes
      /\ DOMAIN pair = {keyToLst[j] : j \in DOMAIN keyToLst}
      /\ \A j \in DOMAIN keyToLst : pair[keyToLst[j]].key = j
      /\ cap > 0 => Len(lst) <= cap
      /\ cap \in Int
  BY DEF IteratorsValid, LRUTypeOK, BaseTypeOK
<1> DEFINE n == Last(lst)
           g == pair[n].key
           l == Front(lst)
           q == Without(pair, n)
           m == Without(keyToLst, g)
<1>2. k \notin DOMAIN keyToLst /\ PushFront(k, v, l, q, m)
  BY DEF LRUEvict, InList
<1>3. Len(lst) \in Nat /\ cap > 0 /\ Len(lst) = cap
  BY <1>1 DEF LRUEvict, Full
<1>4. lst # <<>>
  BY <1>3, EmptySeq
<1>5. /\ l \in Seq(Nodes) /\ Len(l) = Len(lst) - 1
      /\ \A j \in 1..(Len(lst) - 1) : l[j] = lst[j]
      /\ n \in DOMAIN pair
      /\ IsInjective(l)
      /\ ToSet(l) = DOMAIN pair \ {n}
  BY <1>1, <1>4, LastGoes
<1>6. g \in DOMAIN keyToLst /\ keyToLst[g] = n
  BY <1>1, <1>5
<1>7. DOMAIN q = DOMAIN pair \ {n} /\ \A x \in DOMAIN q : q[x] = pair[x]
  BY DEF Without
<1>8. DOMAIN m = DOMAIN keyToLst \ {g} /\ \A x \in DOMAIN m : m[x] = keyToLst[x]
  BY DEF Without
<1> HIDE DEF l, q, m, g, n
<1>9. Describe(l, q, m, k)
  <2>1. DOMAIN m \ {k} = DOMAIN keyToLst \ {g}
    BY <1>2, <1>8
  <2>2. DOMAIN q = {m[j] : j \in DOMAIN m \ {k}}
    BY <1>1, <1>6, <1>7, <1>8, <2>1
  <2>3. ASSUME NEW j \in DOMAIN m \ {k} PROVE q[m[j]].key = j
    <3>1. m[j] \in DOMAIN q
      BY <2>2
    <3>2. j \in DOMAIN keyToLst /\ m[j] = keyToLst[j] /\ q[m[j]] = pair[m[j]]
      BY <1>7, <1>8, <3>1
    <3> QED  BY <1>1, <3>2
  <2>4. \A x \in DOMAIN q : q[x] \in [key : Keys, val : Values]
    BY <1>1, <1>7
  <2>5. DOMAIN m \subseteq Keys /\ \A j \in DOMAIN m : m[j] \in Nodes
    BY <1>1, <1>8
  <2> QED  BY <1>5, <1>7, <2>2, <2>3, <2>4, <2>5 DEF Describe
<1>10. /\ lst' \in Seq(Nodes) /\ IsInjective(lst') /\ ToSet(lst') = DOMAIN pair'
       /\ Len(lst') = Len(l) + 1
       /\ \A x \in DOMAIN pair' : pair'[x] \in [key : Keys, val : Values]
       /\ DOMAIN keyToLst' = DOMAIN m \cup {k} /\ \A j \in DOMAIN keyToLst' : keyToLst'[j] \in Nodes
       /\ DOMAIN pair' = {keyToLst'[j] : j \in DOMAIN keyToLst'}
       /\ \A j \in DOMAIN keyToLst' : pair'[keyToLst'[j]].key = j
       /\ pair'[keyToLst'[k]].val = v
       /\ \A j \in DOMAIN m \ {k} : pair'[keyToLst'[j]] = q[m[j]]
       /\ pair'[lst'[1]].key = k
       /\ \A i \in 1..Len(l) : lst'[i + 1] = l[i] /\ pair'[l[i]] = q[l[i]]
  BY <1>2, <1>9, PushFrontDescribes
<1>11. \A j \in DOMAIN keyToLst' \ {k} : j \in DOMAIN keyToLst /\ pair'[keyToLst'[j]] = pair[keyToLst[j]]
  <2>1. \A j \in DOMAIN m \ {k} : m[j] \in DOMAIN q
    BY <1>9 DEF Describe
  <2> QED  BY <1>7, <1>8, <1>10, <2>1
<1>12. PutLeaves(k, v)
  BY <1>10, <1>11 DEF PutLeaves
<1>13. ASSUME NEW i \in 2..Len(lst') PROVE pair'[lst'[i]].key = pair[lst[i - 1]].key
  <2>1. i - 1 \in 1..Len(l) /\ (i - 1) + 1 = i
    BY <1>3, <1>5, <1>10
  <2>2. lst'[i] = l[i - 1] /\ pair'[l[i - 1]] = q[l[i - 1]]
    BY <1>10, <2>1
  <2>3. l[i - 1] \in DOMAIN q
    BY <1>5, <1>7, <2>1 DEF ToSet
  <2> QED  BY <1>5, <1>7, <2>1, <2>2, <2>3
<1>14. Len(lst') = Len(lst)
  BY <1>3, <1>5, <1>10
<1> QED  BY <1>3, <1>6, <1>8, <1>10, <1>12, <1>13, <1>14

\* The keys held are in the order of their use again after each kind of put.
LEMMA PutKeepsOrder ==
  ASSUME LRUInv, NEW k \in Keys, NEW v \in Values, Use(k), UNCHANGED cap,
         LRUReplace(k, v) \/ LRUInsert(k, v) \/ LRUEvict(k, v)
  PROVE  PutLeaves(k, v) /\ KeptInOrder' /\ (cap > 0 => Len(lst') <= cap)
<1>1. /\ IteratorsValid /\ InvRecent /\ cap # 0 /\ cap \in Int /\ cap' = cap
      /\ lst \in Seq(Nodes) /\ recent \in Seq(Keys) /\ (cap > 0 => Len(lst) <= cap)
      /\ \A i, j \in DOMAIN recent : recent[i] = recent[j] => i = j
  BY DEF LRUInv, IteratorsValid, LRUTypeOK, BaseTypeOK, InvRecent, IsInjective
<1>2. Len(lst) = Kept /\ \A i \in 1..Len(lst) : pair[lst[i]].key = recent[i]
  BY <1>1, MostRecentIs DEF LRUInv, KeptInOrder
<1>3. PICK p \in 1..(Len(recent) + 1) :
              /\ p <= Len(recent) => recent[p] = k
              /\ p > Len(recent) => k \notin ToSet(recent)
              /\ Len(recent') = IF p <= Len(recent) THEN Len(recent) ELSE Len(recent) + 1
              /\ recent'[1] = k
              /\ \A j \in 2..Len(recent') : recent'[j] = IF j <= p THEN recent[j - 1] ELSE recent[j]
  BY <1>1, UseMoves
<1>4. Len(recent) \in Nat /\ Len(lst) \in Nat /\ DOMAIN recent = 1..Len(recent)
  BY <1>1
<1>5. Kept' = IF cap > 0 /\ cap < Len(recent') THEN cap ELSE Len(recent')
  BY <1>1 DEF Kept
<1>6. Len(lst) <= Len(recent)
  BY <1>1, <1>2, <1>4 DEF Kept
<1> DEFINE r == Len(recent)
           r2 == Len(recent')
           l == Len(lst)
<1>10. /\ r \in Nat /\ l \in Nat /\ cap \in Int /\ cap # 0 /\ p \in 1..(r + 1)
       /\ r2 = (IF p <= r THEN r ELSE r + 1) /\ l <= r
       /\ l = (IF cap > 0 /\ cap < r THEN cap ELSE r)
  BY <1>1, <1>2, <1>3, <1>4, <1>6 DEF Kept
<1>7. SUFFICES /\ PutLeaves(k, v) /\ (cap > 0 => Len(lst') <= cap)
               /\ Len(lst') = Kept' /\ \A i \in 1..Len(lst') : pair'[lst'[i]].key = recent'[i]
  BY DEF KeptInOrder
<1>8. CASE LRUReplace(k, v)
  <2>1. PutLeaves(k, v) /\ Len(lst') = Len(lst)
    BY <1>1, <1>8, ReplaceLeaves
  <2>2. PICK h \in 1..Len(lst) :
          /\ pair[lst[h]].key = k
          /\ \A i \in 2..Len(lst') : pair'[lst'[i]].key = pair[IF i <= h THEN lst[i - 1] ELSE lst[i]].key
    BY <1>1, <1>8, ReplaceLeaves
  <2>3. recent[h] = k /\ h \in DOMAIN recent
    BY <1>2, <1>4, <1>6, <2>2
  <2>4. p <= Len(recent)
    BY <1>3, <1>4, <2>3 DEF ToSet
  <2>5. p = h
    BY <1>1, <1>3, <1>4, <2>3, <2>4
  <2>6. Len(recent') = Len(recent) /\ Len(lst') = Kept'
    BY <1>2, <1>3, <1>5, <2>1, <2>4 DEF Kept
  <2>7. ASSUME NEW i \in 1..Len(lst') PROVE pair'[lst'[i]].key = recent'[i]
    <3>1. CASE i = 1
      BY <1>3, <2>1, <3>1 DEF PutLeaves
    <3>2. CASE i # 1
      <4>1. i \in 2..Len(lst') /\ i \in 2..Len(recent') /\ i \in 1..Len(lst) /\ i - 1 \in 1..Len(lst)
        BY <1>4, <1>6, <2>1, <2>6, <3>2
      <4>2. pair'[lst'[i]].key = pair[IF i <= h THEN lst[i - 1] ELSE lst[i]].key
        BY <2>2, <4>1
      <4>3. recent'[i] = IF i <= h THEN recent[i - 1] ELSE recent[i]
        BY <1>3, <2>5, <4>1
      <4> QED  BY <1>2, <4>1, <4>2, <4>3
    <3> QED  BY <3>1, <3>2
  <2> QED  BY <1>1, <2>1, <2>6, <2>7
<1>9. CASE LRUInsert(k, v) \/ LRUEvict(k, v)
  <2>1. k \notin DOMAIN keyToLst
    BY <1>9 DEF LRUInsert, LRUEvict, InList
  <2>2. \A i \in 1..Len(lst) : recent[i] # k
    BY <1>1, <1>2, <2>1, NodesAndKeys
  <2>3. p > Len(lst)
    BY <1>3, <1>4, <1>6, <2>2
  <2>4. PutLeaves(k, v) /\ \A i \in 2..Len(lst') : pair'[lst'[i]].key = pair[lst[i - 1]].key
    BY <1>1, <1>9, InsertLeaves, EvictLeaves
  <2>5. /\ Len(lst') = Kept' /\ Len(lst') <= Len(lst) + 1 /\ Len(lst') \in Nat
        /\ Len(lst') <= Len(recent') /\ (cap > 0 => Len(lst') <= cap)
    <3>1. CASE LRUInsert(k, v)
      <4>1. ~(0 <= cap /\ cap <= Len(lst)) /\ Len(lst') = Len(lst) + 1
        BY <1>1, <3>1, InsertLeaves DEF LRUInsert, Full
      <4>2. Len(lst) = Len(recent) /\ p = Len(recent) + 1 /\ Len(recent') = Len(recent) + 1
        <5>1. p > l /\ ~(0 <= cap /\ cap <= l)
          BY <2>3, <4>1
        <5> HIDE DEF r, r2, l
        <5>2. l = r /\ p = r + 1 /\ r2 = r + 1
          BY <1>10, <5>1
        <5> QED  BY <5>2 DEF r, r2, l
      <4> QED  BY <1>1, <1>4, <1>5, <4>1, <4>2
    <3>2. CASE LRUEvict(k, v)
      <4>1. cap > 0 /\ Len(lst) = cap /\ Len(lst') = cap
        BY <1>1, <3>2, EvictLeaves
      <4>2. cap < r2
        <5>1. p > l /\ l = cap
          BY <2>3, <4>1
        <5> HIDE DEF r, r2, l
        <5> QED  BY <1>10, <5>1
      <4>3. Kept' = cap
        BY <1>5, <4>1, <4>2
      <4> QED  BY <1>1, <1>4, <4>1, <4>2, <4>3
    <3> QED  BY <1>9, <3>1, <3>2
  <2>6. ASSUME NEW i \in 1..Len(lst') PROVE pair'[lst'[i]].key = recent'[i]
    <3>1. CASE i = 1
      BY <1>3, <2>4, <3>1 DEF PutLeaves
    <3>2. CASE i # 1
      <4>1. i \in 2..Len(lst') /\ i \in 2..Len(recent') /\ i - 1 \in 1..Len(lst) /\ i <= p
        BY <1>3, <1>4, <2>3, <2>5, <3>2
      <4>2. recent'[i] = recent[i - 1]
        BY <1>3, <4>1
      <4>3. pair'[lst'[i]].key = pair[lst[i - 1]].key
        BY <2>4, <4>1
      <4> QED  BY <1>2, <4>1, <4>2, <4>3
    <3> QED  BY <3>1, <3>2
  <2> QED  BY <2>4, <2>5, <2>6
<1> QED  BY <1>8, <1>9

\* What LRUNext does to the cache is a put, or nothing.
LEMMA LRUPutInv ==
  ASSUME LRUInv, NEW k \in Keys, NEW v \in Values, Use(k), UNCHANGED cap,
         LRUReplace(k, v) \/ LRUInsert(k, v) \/ LRUEvict(k, v),
         res' \in Values \cup {Miss}, written' = [written EXCEPT ![k] = v]
  PROVE  LRUInv'
<1>1. PutLeaves(k, v) /\ KeptInOrder' /\ (cap > 0 => Len(lst') <= cap)
  BY PutKeepsOrder
<1>2. InvRecent'
  BY UseMoves DEF LRUInv
<1>3. cap' = cap /\ cap # 0 /\ cap \in Int /\ written \in [Keys -> Values \cup {Miss}] /\ DOMAIN keyToLst \subseteq Keys
  BY DEF LRUInv, IteratorsValid, LRUTypeOK, BaseTypeOK
<1>4. BaseTypeOK'
  BY <1>2, <1>3 DEF BaseTypeOK, InvRecent
<1>5. DOMAIN keyToLst' \subseteq Keys
  BY <1>1, <1>3 DEF PutLeaves
<1>6. DOMAIN pair' \subseteq Nodes
  BY <1>1 DEF PutLeaves
<1>7. IteratorsValid'
  BY <1>1, <1>3, <1>4, <1>5, <1>6 DEF IteratorsValid, LRUTypeOK, PutLeaves
<1>8. KeepsMostRecent'
  <2>1. recent' \in Seq(Keys) /\ lst' \in Seq(Nodes) /\ cap' \in Int
    BY <1>1, <1>2, <1>3 DEF InvRecent, PutLeaves
  <2>2. (recent \in Seq(Keys) /\ lst \in Seq(Nodes) /\ cap \in Int => (KeepsMostRecent <=> KeptInOrder))'
    BY MostRecentIs, PTL
  <2> QED  BY <1>1, <2>1, <2>2
<1>9. InvValues'
  <2>1. \A j \in DOMAIN keyToLst : pair[keyToLst[j]].val = written[j]
    BY DEF LRUInv, InvValues
  <2> QED  BY <1>1, <1>3, <1>5, <2>1 DEF InvValues, PutLeaves
<1> QED  BY <1>2, <1>3, <1>7, <1>8, <1>9 DEF LRUInv

\* A get that finds its key puts the value it holds again.
LEMMA LRUGetHitInv ==
  ASSUME LRUInv, NEW k \in Keys, LRUGetHit(k)
  PROVE  LRUInv' /\ res' = written[k] /\ DOMAIN keyToLst' = DOMAIN keyToLst
<1> DEFINE v == pair[keyToLst[k]].val
<1>1. IteratorsValid /\ InvValues /\ written \in [Keys -> Values \cup {Miss}]
  BY DEF LRUInv, IteratorsValid, LRUTypeOK, BaseTypeOK
<1>2. k \in DOMAIN keyToLst /\ LRUReplace(k, v) /\ res' = pair'[keyToLst'[k]].val /\ Use(k) /\ UNCHANGED <<cap, written>>
  BY DEF LRUGetHit, InList
<1>3. keyToLst[k] \in DOMAIN pair /\ pair[keyToLst[k]] \in [key : Keys, val : Values]
  BY <1>1, <1>2 DEF IteratorsValid, LRUTypeOK
<1>4. v \in Values /\ v = written[k]
  BY <1>1, <1>2, <1>3 DEF InvValues
<1> HIDE DEF v
<1>5. PutLeaves(k, v) /\ DOMAIN keyToLst' = DOMAIN keyToLst
  BY <1>1, <1>2, <1>4, ReplaceLeaves
<1>6. res' = v
  BY <1>2, <1>5 DEF PutLeaves
<1>7. written' = [written EXCEPT ![k] = v]
  BY <1>1, <1>2, <1>4
<1>8. LRUInv'
  BY <1>2, <1>4, <1>6, <1>7, LRUPutInv
<1> QED  BY <1>4, <1>5, <1>6, <1>8

\* Every get and put of the LRU cache keeps its invariant.
LEMMA LRUStepInv == LRUInv /\ LRUNext => LRUInv'
<1> SUFFICES ASSUME LRUInv, NEW k \in Keys, LRUGetHit(k) \/ LRUGetMiss(k) \/ \E v \in Values : LRUPut(k, v)
             PROVE  LRUInv'
  BY DEF LRUNext
<1>1. CASE LRUGetHit(k)
  BY <1>1, LRUGetHitInv
<1>2. CASE LRUGetMiss(k)
  BY <1>2 DEF LRUGetMiss, LRUInv, IteratorsValid, LRUTypeOK, BaseTypeOK, KeepsMostRecent, MostRecent,
              InvValues, InvRecent, lruVars
<1>3. ASSUME NEW v \in Values, LRUPut(k, v) PROVE LRUInv'
  <2>1. res \in Values \cup {Miss}
    BY DEF LRUInv, IteratorsValid, LRUTypeOK, BaseTypeOK
  <2>2. /\ LRUReplace(k, v) \/ LRUInsert(k, v) \/ LRUEvict(k, v)
        /\ Use(k) /\ cap' = cap /\ res' = res /\ written' = [written EXCEPT ![k] = v]
    BY <1>3 DEF LRUPut, Written
  <2> QED  BY <2>1, <2>2, LRUPutInv
<1> QED  BY <1>1, <1>2, <1>3

-----------------------------------------------------------------------------
(* The LFU cache *)

\* The lists split up the keys of freqs, each once and with its frequency, and
\* none of them is empty.
Match(lists, freqs) ==
  /\ \A f \in DOMAIN lists :
       /\ f \in Nat /\ lists[f] \in Seq(Keys) /\ lists[f] # <<>> /\ IsInjective(lists[f])
       /\ ToSet(lists[f]) = {k \in DOMAIN freqs : freqs[k] = f}
  /\ \A k \in DOMAIN freqs : freqs[k] \in DOMAIN lists

\* Each list begins with the key whose last use is the oldest.
IndexOf(r, k) == CHOOSE i \in DOMAIN r : r[i] = k
Oldest(l, r) == \A i, j \in DOMAIN l : i < j => IndexOf(r, l[i]) > IndexOf(r, l[j])
OldestFirst(lists, r) == \A f \in DOMAIN lists : Oldest(lists[f], r)

\* m is the lowest frequency.
Lowest(m, lists, freqs) ==
  DOMAIN freqs # {} => m \in DOMAIN lists /\ \A k \in DOMAIN freqs : m <= freqs[k]

\* A key leaves the list of its frequency.
LEMMA ShrinkMatches ==
  ASSUME NEW lists, NEW freqs, Match(lists, freqs), NEW k \in DOMAIN freqs, NEW l \in Seq(Keys),
         IsInjective(l), ToSet(l) = ToSet(lists[freqs[k]]) \ {k}
  PROVE  Match(Shrink(lists, freqs[k], l), Without(freqs, k))
<1> DEFINE c == freqs[k]
           s == Shrink(lists, c, l)
           q == Without(freqs, k)
<1>1. /\ c \in DOMAIN lists
      /\ \A f \in DOMAIN lists :
           /\ f \in Nat /\ lists[f] \in Seq(Keys) /\ lists[f] # <<>> /\ IsInjective(lists[f])
           /\ ToSet(lists[f]) = {j \in DOMAIN freqs : freqs[j] = f}
      /\ \A j \in DOMAIN freqs : freqs[j] \in DOMAIN lists
  BY DEF Match
<1>2. DOMAIN q = DOMAIN freqs \ {k} /\ \A j \in DOMAIN q : q[j] = freqs[j]
  BY DEF Without
<1>3. /\ DOMAIN s = IF l = <<>> THEN DOMAIN lists \ {c} ELSE DOMAIN lists
      /\ \A f \in DOMAIN lists \ {c} : s[f] = lists[f]
      /\ l # <<>> => s[c] = l
  BY <1>1 DEF Shrink, Without, With
<1>4. ToSet(l) = {j \in DOMAIN q : q[j] = c}
  BY <1>1, <1>2
<1> HIDE DEF c, s, q
<1>5. ASSUME NEW f \in DOMAIN s
      PROVE  /\ f \in Nat /\ s[f] \in Seq(Keys) /\ s[f] # <<>> /\ IsInjective(s[f])
             /\ ToSet(s[f]) = {j \in DOMAIN q : q[j] = f}
  <2>1. CASE f = c
    <3>1. l # <<>> /\ s[f] = l /\ f \in DOMAIN lists
      BY <1>1, <1>3, <2>1
    <3> QED  BY <1>1, <1>4, <2>1, <3>1
  <2>2. CASE f # c
    <3>1. f \in DOMAIN lists /\ s[f] = lists[f]
      BY <1>3, <2>2
    <3>2. {j \in DOMAIN q : q[j] = f} = {j \in DOMAIN freqs : freqs[j] = f}
      BY <1>2, <2>2 DEF c
    <3> QED  BY <1>1, <3>1, <3>2
  <2> QED  BY <2>1, <2>2
<1>6. ASSUME NEW j \in DOMAIN q PROVE q[j] \in DOMAIN s
  <2>1. q[j] \in DOMAIN lists
    BY <1>1, <1>2
  <2>2. CASE q[j] = c
    <3>1. j \in ToSet(l)
      BY <1>4, <2>2
    <3>2. l # <<>>
      BY <3>1 DEF ToSet
    <3> QED  BY <1>3, <2>1, <3>2
  <2> QED  BY <1>3, <2>1, <2>2
<1>7. Match(s, q)
  BY <1>5, <1>6 DEF Match
<1> QED  BY <1>7 DEF c, s, q

\* A key comes to the end of the list of a frequency.
LEMMA AppendMatches ==
  ASSUME NEW lists, NEW freqs, Match(lists, freqs), NEW k \in Keys \ DOMAIN freqs, NEW f \in Nat
  PROVE  Match(AppendAt(lists, f, k), With(freqs, k, f))
<1> DEFINE s == AppendAt(lists, f, k)
           q == With(freqs, k, f)
           l == KeysAt(lists, f)
<1>1. /\ \A g \in DOMAIN lists :
           /\ g \in Nat /\ lists[g] \in Seq(Keys) /\ lists[g] # <<>> /\ IsInjective(lists[g])
           /\ ToSet(lists[g]) = {j \in DOMAIN freqs : freqs[j] = g}
      /\ \A j \in DOMAIN freqs : freqs[j] \in DOMAIN lists
  BY DEF Match
<1>2. DOMAIN q = DOMAIN freqs \cup {k} /\ q[k] = f /\ \A j \in DOMAIN freqs : q[j] = freqs[j]
  BY DEF With
<1>3. DOMAIN s = DOMAIN lists \cup {f} /\ s[f] = Append(l, k) /\ \A g \in DOMAIN lists \ {f} : s[g] = lists[g]
  BY DEF AppendAt, With
<1>4. l \in Seq(Keys) /\ IsInjective(l) /\ ToSet(l) = {j \in DOMAIN freqs : freqs[j] = f}
  <2>1. CASE f \in DOMAIN lists
    BY <1>1, <2>1 DEF KeysAt
  <2>2. CASE f \notin DOMAIN lists
    <3>1. l = <<>>
      BY <2>2 DEF KeysAt
    <3>2. {j \in DOMAIN freqs : freqs[j] = f} = {}
      BY <1>1, <2>2
    <3>3. <<>> \in Seq(Keys) /\ IsInjective(<<>>) /\ ToSet(<<>>) = {}
      BY DEF IsInjective, ToSet
    <3> QED  BY <3>1, <3>2, <3>3
  <2> QED  BY <2>1, <2>2
<1> HIDE DEF s, q, l
<1> DEFINE a == Append(l, k)
<1>5. a \in Seq(Keys) /\ a # <<>> /\ IsInjective(a) /\ ToSet(a) = ToSet(l) \cup {k}
  BY <1>4, AtTheEnd
<1> HIDE DEF a
<1>6. ASSUME NEW g \in DOMAIN s
      PROVE  /\ g \in Nat /\ s[g] \in Seq(Keys) /\ s[g] # <<>> /\ IsInjective(s[g])
             /\ ToSet(s[g]) = {j \in DOMAIN q : q[j] = g}
  <2>1. CASE g = f
    <3>1. s[g] = a
      BY <1>3, <2>1 DEF a
    <3>2. ToSet(a) = {j \in DOMAIN q : q[j] = g}
      BY <1>2, <1>4, <1>5, <2>1
    <3> QED  BY <1>5, <2>1, <3>1, <3>2
  <2>2. CASE g # f
    <3>1. g \in DOMAIN lists /\ s[g] = lists[g]
      BY <1>3, <2>2
    <3>2. {j \in DOMAIN q : q[j] = g} = {j \in DOMAIN freqs : freqs[j] = g}
      BY <1>2, <2>2
    <3> QED  BY <1>1, <3>1, <3>2
  <2> QED  BY <2>1, <2>2
<1>7. \A j \in DOMAIN q : q[j] \in DOMAIN s
  BY <1>1, <1>2, <1>3
<1>8. Match(s, q)
  BY <1>6, <1>7 DEF Match
<1> QED  BY <1>8 DEF s, q

\* A list keeps its order when an element goes, from anywhere or from the front.
LEMMA RemoveFirstOrder ==
  ASSUME NEW r, NEW l \in Seq(Keys), IsInjective(l), Oldest(l, r), NEW k \in ToSet(l)
  PROVE  Oldest(RemoveFirst(l, k), r)
<1> DEFINE s == RemoveFirst(l, k)
<1>1. PICK p \in DOMAIN l : l[p] = k
  BY DEF ToSet
<1>2. /\ s \in Seq(Keys) /\ Len(s) = Len(l) - 1
      /\ \A j \in 1..Len(s) : s[j] = IF j < p THEN l[j] ELSE l[j + 1]
  BY <1>1, RemoveFirstCloses
<1>3. DOMAIN l = 1..Len(l) /\ DOMAIN s = 1..Len(s) /\ Len(l) \in Nat /\ p \in Nat
  BY <1>2
<1> HIDE DEF s
<1>4. ASSUME NEW i \in DOMAIN s, NEW j \in DOMAIN s, i < j
      PROVE  IndexOf(r, s[i]) > IndexOf(r, s[j])
  <2> DEFINE a == IF i < p THEN i ELSE i + 1
             b == IF j < p THEN j ELSE j + 1
  <2>1. a \in DOMAIN l /\ b \in DOMAIN l /\ a < b /\ s[i] = l[a] /\ s[j] = l[b]
    BY <1>2, <1>3, <1>4
  <2> HIDE DEF a, b
  <2> QED  BY <2>1 DEF Oldest
<1>5. Oldest(s, r)
  BY <1>4 DEF Oldest
<1> QED  BY <1>5 DEF s

\* Without its first key a list is still oldest first, and that key was the
\* least recently used of all.
LEMMA TailOrder ==
  ASSUME NEW r, NEW l \in Seq(Keys), IsInjective(l), l # <<>>, Oldest(l, r)
  PROVE  /\ Oldest(Tail(l), r)
         /\ \A k \in ToSet(l) \ {Head(l)} : IndexOf(r, Head(l)) > IndexOf(r, k)
<1>1. Tail(l) \in Seq(Keys) /\ Len(Tail(l)) = Len(l) - 1 /\ \A j \in 1..(Len(l) - 1) : Tail(l)[j] = l[j + 1]
  BY HeadGoes
<1>2. DOMAIN l = 1..Len(l) /\ DOMAIN Tail(l) = 1..(Len(l) - 1) /\ Len(l) \in Nat \ {0} /\ Head(l) = l[1]
  BY <1>1, EmptySeq
<1> DEFINE s == Tail(l)
<1>3. ASSUME NEW i \in DOMAIN s, NEW j \in DOMAIN s, i < j
      PROVE  IndexOf(r, s[i]) > IndexOf(r, s[j])
  <2>1. i + 1 \in DOMAIN l /\ j + 1 \in DOMAIN l /\ i + 1 < j + 1 /\ s[i] = l[i + 1] /\ s[j] = l[j + 1]
    BY <1>1, <1>2, <1>3
  <2> QED  BY <2>1 DEF Oldest
<1>4. ASSUME NEW k \in ToSet(l) \ {Head(l)} PROVE IndexOf(r, Head(l)) > IndexOf(r, k)
  <2>1. PICK i \in DOMAIN l : l[i] = k
    BY DEF ToSet
  <2>2. 1 \in DOMAIN l /\ 1 < i
    BY <1>2, <2>1
  <2> QED  BY <1>2, <2>1, <2>2 DEF Oldest
<1> QED  BY <1>3, <1>4 DEF Oldest

\* A use leaves the others in their order, and the key used goes to the end.
LEMMA UseOrder ==
  ASSUME InvRecent, NEW k \in Keys, Use(k), NEW l \in Seq(Keys), Oldest(l, recent),
         ToSet(l) \subseteq ToSet(recent) \ {k}
  PROVE  Oldest(l, recent') /\ Oldest(Append(l, k), recent')
<1>1. /\ \A j \in ToSet(recent) \ {k} : IndexOf(recent', j) > IndexOf(recent', k)
      /\ \A i, j \in ToSet(recent) \ {k} :
           IndexOf(recent, i) > IndexOf(recent, j) => IndexOf(recent', i) > IndexOf(recent', j)
  <2>1. /\ \A j \in ToSet(recent) \ {k} : Age(j)' > Age(k)'
        /\ \A i, j \in ToSet(recent) \ {k} : Age(i) > Age(j) => Age(i)' > Age(j)'
    BY UseAges
  <2> QED  BY <2>1 DEF Age, IndexOf
<1>2. \A i \in DOMAIN l : l[i] \in ToSet(recent) \ {k}
  BY DEF ToSet
<1>3. Oldest(l, recent')
  BY <1>1, <1>2 DEF Oldest
<1> DEFINE s == Append(l, k)
<1>4. s \in Seq(Keys) /\ Len(s) = Len(l) + 1 /\ s[Len(l) + 1] = k /\ \A j \in 1..Len(l) : s[j] = l[j]
  BY AtTheEnd
<1>5. DOMAIN l = 1..Len(l) /\ DOMAIN s = 1..(Len(l) + 1) /\ Len(l) \in Nat
  BY <1>4
<1> HIDE DEF s
<1>6. ASSUME NEW i \in DOMAIN s, NEW j \in DOMAIN s, i < j
      PROVE  IndexOf(recent', s[i]) > IndexOf(recent', s[j])
  <2>1. i \in DOMAIN l /\ s[i] = l[i]
    BY <1>4, <1>5, <1>6
  <2>2. CASE j \in DOMAIN l
    <3>1. s[j] = l[j]
      BY <1>4, <1>5, <2>2
    <3> QED  BY <1>3, <1>6, <2>1, <2>2, <3>1 DEF Oldest
  <2>3. CASE j \notin DOMAIN l
    <3>1. s[j] = k
      BY <1>4, <1>5, <2>3
    <3> QED  BY <1>1, <1>2, <2>1, <3>1
  <2> QED  BY <2>2, <2>3
<1>7. Oldest(s, recent')
  BY <1>6 DEF Oldest
<1> QED  BY <1>3, <1>7 DEF s

\* A key that is used comes to the end of the list of its new frequency.
LEMMA UsedKeyComesLast ==
  ASSUME InvRecent, NEW lists, NEW freqs, Match(lists, freqs), OldestFirst(lists, recent),
         DOMAIN freqs \subseteq ToSet(recent), NEW k \in Keys \ DOMAIN freqs, NEW f \in Nat, Use(k)
  PROVE  OldestFirst(AppendAt(lists, f, k), recent')
<1> DEFINE s == AppendAt(lists, f, k)
<1>1. /\ DOMAIN s = DOMAIN lists \cup {f}
      /\ \A g \in DOMAIN lists \ {f} : s[g] = lists[g]
      /\ s[f] = Append(KeysAt(lists, f), k)
  BY DEF AppendAt, With
<1> HIDE DEF s
<1>2. \A g \in DOMAIN lists : lists[g] \in Seq(Keys) /\ ToSet(lists[g]) \subseteq DOMAIN freqs /\ Oldest(lists[g], recent)
  BY DEF Match, OldestFirst
<1>6. KeysAt(lists, f) \in Seq(Keys) /\ ToSet(KeysAt(lists, f)) \subseteq DOMAIN freqs
  <2>1. <<>> \in Seq(Keys) /\ ToSet(<<>>) = {}
    BY DEF ToSet
  <2> QED  BY <1>2, <2>1 DEF KeysAt
<1>3. Oldest(KeysAt(lists, f), recent)
  <2>1. Oldest(<<>>, recent)
    BY DEF Oldest
  <2> QED  BY <1>2, <2>1 DEF KeysAt
<1>4. ASSUME NEW g \in DOMAIN s PROVE Oldest(s[g], recent')
  <2>1. CASE g = f
    BY <1>1, <1>3, <1>6, <2>1, UseOrder
  <2>2. CASE g # f
    <3>1. g \in DOMAIN lists /\ s[g] = lists[g]
      BY <1>1, <2>2
    <3> QED  BY <1>2, <3>1, UseOrder
  <2> QED  BY <2>1, <2>2
<1>5. OldestFirst(s, recent')
  BY <1>4 DEF OldestFirst
<1> QED  BY <1>5 DEF s

\* A cached key was used as often as its frequency says, and its value is the
\* last one put.
InvUses == \A k \in Cached : k \in ToSet(recent) /\ uses[k] = keyToFreq[k] /\ keyToValue[k] = written[k]

LFUInv == /\ FrequenciesMatch
          /\ Match(freqToKey, keyToFreq) /\ OldestFirst(freqToKey, recent)
          /\ InvUses /\ InvRecent

\* The parts of FrequenciesMatch.
LEMMA FrequenciesMatchIs ==
  FrequenciesMatch <=> /\ LFUTypeOK /\ DOMAIN keyToFreq = Cached
                       /\ \A f \in DOMAIN freqToKey :
                            /\ freqToKey[f] # <<>>
                            /\ IsInjective(freqToKey[f])
                            /\ ToSet(freqToKey[f]) = {k \in Cached : keyToFreq[k] = f}
                       /\ Lowest(minFreq, freqToKey, keyToFreq)
<1>1. CASE DOMAIN keyToFreq = Cached
  BY <1>1 DEF FrequenciesMatch, Lowest
<1>2. CASE DOMAIN keyToFreq # Cached
  BY <1>2 DEF FrequenciesMatch
<1> QED  BY <1>1, <1>2

\* increaseFreq moves the key to the end of the list of the next frequency.
LEMMA IncreaseFreqMoves ==
  ASSUME LFUInv, NEW k \in Cached, IncreaseFreq(k), Use(k)
  PROVE  /\ Match(freqToKey', keyToFreq') /\ OldestFirst(freqToKey', recent')
         /\ DOMAIN keyToFreq' = Cached
         /\ keyToFreq'[k] = keyToFreq[k] + 1 /\ keyToFreq[k] \in 1..(MaxFreq - 1)
         /\ \A j \in Cached \ {k} : keyToFreq'[j] = keyToFreq[j]
         /\ Lowest(minFreq', freqToKey', keyToFreq') /\ minFreq' \in Nat
<1> DEFINE cur   == keyToFreq[k]
           left  == RemoveFirst(freqToKey[cur], k)
           lists == Shrink(freqToKey, cur, left)
           freqs == Without(keyToFreq, k)
<1>1. /\ cur < MaxFreq
      /\ keyToFreq' = With(keyToFreq, k, cur + 1)
      /\ freqToKey' = AppendAt(lists, cur + 1, k)
      /\ minFreq' = IF left = <<>> /\ minFreq = cur THEN cur + 1 ELSE minFreq
  BY DEF IncreaseFreq
<1>2. /\ Match(freqToKey, keyToFreq) /\ OldestFirst(freqToKey, recent) /\ InvRecent
      /\ DOMAIN keyToFreq = Cached /\ Cached \subseteq Keys /\ Cached \subseteq ToSet(recent)
      /\ Lowest(minFreq, freqToKey, keyToFreq) /\ minFreq \in Nat
      /\ \A j \in Cached : keyToFreq[j] \in 1..MaxFreq
  BY FrequenciesMatchIs DEF LFUInv, LFUTypeOK, InvUses
<1>3. /\ cur \in DOMAIN freqToKey /\ cur \in Nat
      /\ freqToKey[cur] \in Seq(Keys) /\ IsInjective(freqToKey[cur]) /\ k \in ToSet(freqToKey[cur])
      /\ ToSet(freqToKey[cur]) = {j \in Cached : keyToFreq[j] = cur}
      /\ Oldest(freqToKey[cur], recent)
  BY <1>2 DEF Match, OldestFirst
<1>4. /\ left \in Seq(Keys) /\ IsInjective(left)
      /\ ToSet(left) = ToSet(freqToKey[cur]) \ {k}
      /\ Oldest(left, recent)
  BY <1>3, RemoveFirstKeeps, RemoveFirstOrder
<1> HIDE DEF left
<1>5. /\ DOMAIN lists = IF left = <<>> THEN DOMAIN freqToKey \ {cur} ELSE DOMAIN freqToKey
      /\ \A f \in DOMAIN freqToKey \ {cur} : lists[f] = freqToKey[f]
      /\ left # <<>> => lists[cur] = left
  BY <1>3 DEF Shrink, Without, With
<1>19. Match(lists, freqs)
  <2>1. k \in DOMAIN keyToFreq
    BY <1>2
  <2> QED  BY <1>2, <1>4, <2>1, ShrinkMatches
<1>6. DOMAIN freqs = Cached \ {k} /\ \A j \in DOMAIN freqs : freqs[j] = keyToFreq[j]
  BY <1>2 DEF Without
<1> HIDE DEF lists, freqs
<1>7. OldestFirst(lists, recent)
  <2> SUFFICES ASSUME NEW f \in DOMAIN lists PROVE Oldest(lists[f], recent)
    BY DEF OldestFirst
  <2>1. CASE f = cur
    BY <1>4, <1>5, <2>1
  <2>2. CASE f # cur
    BY <1>2, <1>5, <2>2 DEF OldestFirst
  <2> QED  BY <2>1, <2>2
<1>8. /\ k \in Keys \ DOMAIN freqs /\ cur + 1 \in Nat
      /\ DOMAIN freqs \subseteq ToSet(recent)
  BY <1>2, <1>3, <1>6
<1>9. /\ Match(AppendAt(lists, cur + 1, k), With(freqs, k, cur + 1))
      /\ DOMAIN AppendAt(lists, cur + 1, k) = DOMAIN lists \cup {cur + 1}
  <2>1. Match(AppendAt(lists, cur + 1, k), With(freqs, k, cur + 1))
    BY <1>19, <1>8, AppendMatches
  <2> QED  BY <2>1 DEF AppendAt, With
<1>10. OldestFirst(AppendAt(lists, cur + 1, k), recent')
  BY <1>2, <1>7, <1>8, <1>19, UsedKeyComesLast
<1>11. With(freqs, k, cur + 1) = With(keyToFreq, k, cur + 1)
  BY <1>2, <1>6 DEF With
<1>12. /\ DOMAIN keyToFreq' = Cached /\ keyToFreq'[k] = cur + 1
       /\ \A j \in Cached \ {k} : keyToFreq'[j] = keyToFreq[j]
  BY <1>1, <1>2 DEF With
<1>13. minFreq \in DOMAIN freqToKey /\ \A j \in Cached : minFreq <= keyToFreq[j]
  BY <1>2 DEF Lowest
<1>14. minFreq' \in DOMAIN freqToKey' /\ minFreq' \in Nat
  <2>1. DOMAIN freqToKey' = DOMAIN lists \cup {cur + 1}
    BY <1>1, <1>9
  <2> QED  BY <1>1, <1>2, <1>3, <1>5, <1>13, <2>1
<1>15. ASSUME NEW j \in Cached PROVE minFreq' <= keyToFreq'[j]
  <2>1. keyToFreq[j] \in Nat /\ minFreq <= keyToFreq[j] /\ minFreq \in Nat /\ minFreq <= cur
    BY <1>2, <1>3, <1>13
  <2>2. CASE j = k
    BY <1>1, <1>3, <1>12, <2>1, <2>2
  <2>3. CASE j # k
    <3>1. keyToFreq'[j] = keyToFreq[j]
      BY <1>12, <2>3
    <3>2. CASE left = <<>> /\ minFreq = cur
      <4>1. j \notin ToSet(freqToKey[cur])
        BY <1>4, <2>3, <3>2 DEF ToSet
      <4>2. keyToFreq[j] # cur
        BY <1>3, <4>1
      <4> QED  BY <1>1, <1>3, <2>1, <3>1, <3>2, <4>2
    <3> QED  BY <1>1, <2>1, <3>1, <3>2
  <2> QED  BY <2>2, <2>3
<1>16. Lowest(minFreq', freqToKey', keyToFreq')
  BY <1>12, <1>14, <1>15 DEF Lowest
<1>17. cur \in 1..(MaxFreq - 1)
  BY <1>1, <1>2, LFUAssumption
<1>18. Match(freqToKey', keyToFreq') /\ OldestFirst(freqToKey', recent')
  BY <1>1, <1>9, <1>10, <1>11
<1> QED  BY <1>12, <1>14, <1>16, <1>17, <1>18

\* The state after a call, given the maps and lists it leaves.
LEMMA LFUInvAfter ==
  ASSUME LFUInv, NEW k \in Keys, Use(k), cap' = cap, res' \in Values \cup {Miss},
         written' \in [Keys -> Values \cup {Miss}], uses' \in [Keys -> Nat],
         Match(freqToKey', keyToFreq'), OldestFirst(freqToKey', recent'),
         Lowest(minFreq', freqToKey', keyToFreq'), minFreq' \in Nat,
         DOMAIN keyToFreq' = Cached', Cached' \subseteq Cached \cup {k},
         \A j \in Cached' : /\ keyToFreq'[j] \in 1..MaxFreq
                            /\ keyToValue'[j] \in Values /\ keyToValue'[j] = written'[j]
                            /\ uses'[j] = keyToFreq'[j],
         Cardinality(Cached') <= IF cap > 0 THEN cap ELSE 0
  PROVE  LFUInv'
<1>1. InvRecent' /\ ToSet(recent') = ToSet(recent) \cup {k}
  BY UseMoves DEF LFUInv
<1>2. BaseTypeOK'
  BY <1>1 DEF BaseTypeOK, InvRecent, LFUInv, FrequenciesMatch, LFUTypeOK
<1>3. Cached' \subseteq Keys
  BY DEF LFUInv, FrequenciesMatch, LFUTypeOK
<1>4. /\ \A f \in DOMAIN freqToKey' : /\ f \in Nat /\ freqToKey'[f] \in Seq(Keys) /\ freqToKey'[f] # <<>>
                                      /\ IsInjective(freqToKey'[f])
                                      /\ ToSet(freqToKey'[f]) = {j \in DOMAIN keyToFreq' : keyToFreq'[j] = f}
  BY DEF Match
<1>5. LFUTypeOK'
  BY <1>2, <1>3, <1>4 DEF LFUTypeOK
<1>6. FrequenciesMatch'
  <2>1. Cached' # {} => /\ minFreq' \in DOMAIN freqToKey'
                        /\ \A j \in Cached' : minFreq' <= keyToFreq'[j]
    BY DEF Lowest
  <2> QED  BY <1>4, <1>5, <2>1 DEF FrequenciesMatch
<1>7. InvUses'
  <2>1. Cached \subseteq ToSet(recent)
    BY DEF LFUInv, InvUses
  <2>2. \A j \in Cached' : j \in ToSet(recent')
    BY <1>1, <2>1
  <2> QED  BY <2>2 DEF InvUses
<1> QED  BY <1>1, <1>6, <1>7 DEF LFUInv

\* A call that finds its key: the value is the last one put, before or by the call.
LEMMA LFUHitInv ==
  ASSUME LFUInv, NEW k \in Cached, IncreaseFreq(k), Uses(k, uses[k] + 1), cap' = cap,
         res' \in Values \cup {Miss}, written' \in [Keys -> Values \cup {Miss}],
         Cached' = Cached,
         \A j \in Cached : keyToValue'[j] \in Values /\ keyToValue'[j] = written'[j]
  PROVE  LFUInv'
<1>1. Use(k) /\ uses' = [uses EXCEPT ![k] = uses[k] + 1]
  BY DEF Uses
<1>2. /\ DOMAIN keyToFreq = Cached /\ Cached \subseteq Keys /\ uses \in [Keys -> Nat]
      /\ \A j \in Cached : keyToFreq[j] \in 1..MaxFreq /\ uses[j] = keyToFreq[j]
      /\ Cardinality(Cached) <= IF cap > 0 THEN cap ELSE 0
  BY DEF LFUInv, FrequenciesMatch, LFUTypeOK, InvUses
<1>3. /\ Match(freqToKey', keyToFreq') /\ OldestFirst(freqToKey', recent')
      /\ DOMAIN keyToFreq' = Cached
      /\ keyToFreq'[k] = keyToFreq[k] + 1 /\ keyToFreq[k] \in 1..(MaxFreq - 1)
      /\ \A j \in Cached \ {k} : keyToFreq'[j] = keyToFreq[j]
      /\ Lowest(minFreq', freqToKey', keyToFreq') /\ minFreq' \in Nat
  BY <1>1, IncreaseFreqMoves
<1>4. k \in Keys /\ uses' \in [Keys -> Nat]
  BY <1>1, <1>2
<1>5. MaxFreq \in Nat
  BY LFUAssumption
<1>6. ASSUME NEW j \in Cached' PROVE keyToFreq'[j] \in 1..MaxFreq /\ uses'[j] = keyToFreq'[j]
  <2>1. CASE j = k
    BY <1>1, <1>2, <1>3, <1>4, <1>5, <2>1
  <2>2. CASE j # k
    BY <1>1, <1>2, <1>3, <2>2
  <2> QED  BY <2>1, <2>2
<1>7. DOMAIN keyToFreq' = Cached' /\ Cached' \subseteq Cached \cup {k}
  BY <1>3
<1>8. Cardinality(Cached') <= IF cap > 0 THEN cap ELSE 0
  BY <1>2
<1> QED  BY <1>1, <1>3, <1>4, <1>6, <1>7, <1>8, LFUInvAfter

\* A new key comes in beside keys that were there before, and finds room.
LEMMA EnterInv ==
  ASSUME LFUInv, NEW k \in Keys \ Cached, NEW v \in Values, cap > 0,
         NEW values, NEW freqs, NEW lists, Enter(k, v, values, freqs, lists),
         Match(lists, freqs), OldestFirst(lists, recent),
         DOMAIN freqs = DOMAIN values, DOMAIN values \subseteq Cached,
         \A j \in DOMAIN values : values[j] = keyToValue[j] /\ freqs[j] = keyToFreq[j],
         Cardinality(DOMAIN values) < cap
  PROVE  LFUInv' /\ Cached' = DOMAIN values \cup {k}
<1>1. /\ keyToValue' = With(values, k, v) /\ keyToFreq' = With(freqs, k, 1)
      /\ freqToKey' = AppendAt(lists, 1, k) /\ minFreq' = 1
      /\ uses' = [uses EXCEPT ![k] = 1] /\ Use(k) /\ written' = [written EXCEPT ![k] = v]
      /\ cap' = cap /\ res' = res
  BY DEF Enter, Uses, Written
<1>2. /\ DOMAIN keyToFreq = Cached /\ Cached \subseteq Keys /\ uses \in [Keys -> Nat]
      /\ res \in Values \cup {Miss} /\ written \in [Keys -> Values \cup {Miss}] /\ cap \in Int
      /\ \A j \in Cached : /\ keyToFreq[j] \in 1..MaxFreq /\ uses[j] = keyToFreq[j]
                           /\ keyToValue[j] \in Values /\ keyToValue[j] = written[j]
                           /\ j \in ToSet(recent)
      /\ InvRecent
  BY DEF LFUInv, FrequenciesMatch, LFUTypeOK, BaseTypeOK, InvUses
<1>3. /\ Cached' = DOMAIN values \cup {k} /\ DOMAIN keyToFreq' = DOMAIN values \cup {k}
      /\ keyToValue'[k] = v /\ keyToFreq'[k] = 1
      /\ \A j \in DOMAIN values : keyToValue'[j] = values[j] /\ keyToFreq'[j] = freqs[j]
      /\ k \notin DOMAIN values
  BY <1>1 DEF With, Cached
<1>4. 1 \in Nat /\ k \in Keys \ DOMAIN freqs /\ DOMAIN freqs \subseteq ToSet(recent)
  BY <1>2
<1>5. Match(freqToKey', keyToFreq')
  BY <1>1, <1>4, AppendMatches
<1>6. OldestFirst(freqToKey', recent')
  BY <1>1, <1>2, <1>4, UsedKeyComesLast
<1>7. res' \in Values \cup {Miss} /\ written' \in [Keys -> Values \cup {Miss}] /\ uses' \in [Keys -> Nat]
  BY <1>1, <1>2
<1>8. ASSUME NEW j \in Cached'
      PROVE  /\ keyToFreq'[j] \in 1..MaxFreq
             /\ keyToValue'[j] \in Values /\ keyToValue'[j] = written'[j]
             /\ uses'[j] = keyToFreq'[j]
  <2>1. CASE j = k
    BY <1>1, <1>2, <1>3, <2>1, LFUAssumption
  <2>2. CASE j # k
    <3>1. j \in DOMAIN values /\ j \in Cached /\ j \in Keys
      BY <1>2, <1>3, <2>2
    <3> QED  BY <1>1, <1>2, <1>3, <2>2, <3>1
  <2> QED  BY <2>1, <2>2
<1>9. Lowest(minFreq', freqToKey', keyToFreq')
  <2>1. minFreq' \in DOMAIN freqToKey'
    BY <1>1 DEF AppendAt, With
  <2>2. \A j \in DOMAIN keyToFreq' : minFreq' <= keyToFreq'[j]
    BY <1>1, <1>3, <1>8
  <2> QED  BY <2>1, <2>2 DEF Lowest
<1>10. Cardinality(Cached') <= IF cap > 0 THEN cap ELSE 0
  <2>1. IsFiniteSet(DOMAIN values)
    BY <1>2, FS_Subset, CachesAssumption
  <2>2. Cardinality(Cached') = Cardinality(DOMAIN values) + 1 /\ Cardinality(DOMAIN values) \in Nat
    BY <1>3, <2>1, FS_AddElement, FS_CardinalityType
  <2> QED  BY <1>2, <2>2
<1>11. minFreq' \in Nat /\ DOMAIN keyToFreq' = Cached' /\ Cached' \subseteq Cached \cup {k}
  BY <1>1, <1>3
<1> QED  BY <1>1, <1>3, <1>5, <1>6, <1>7, <1>8, <1>9, <1>10, <1>11, LFUInvAfter

\* put of a new key while there is room adds that key.
LEMMA PutRoomInv ==
  ASSUME LFUInv, NEW k \in Keys, NEW v \in Values, PutRoom(k, v)
  PROVE  LFUInv' /\ Cached' = Cached \cup {k}
<1>1. /\ cap > 0 /\ k \in Keys \ Cached /\ Cardinality(DOMAIN keyToFreq) < cap
      /\ Enter(k, v, keyToValue, keyToFreq, freqToKey)
  BY DEF PutRoom, Known, Cached
<1>2. Match(freqToKey, keyToFreq) /\ OldestFirst(freqToKey, recent) /\ DOMAIN keyToFreq = DOMAIN keyToValue
  BY DEF LFUInv, FrequenciesMatch, Cached
<1>3. DOMAIN keyToValue \subseteq Cached /\ Cardinality(DOMAIN keyToValue) < cap
  BY <1>1, <1>2 DEF Cached
<1> QED  BY <1>1, <1>2, <1>3, EnterInv DEF Cached

\* The victim is the first key of the lowest frequency.
LEMMA PutEvictInv ==
  ASSUME LFUInv, NEW k \in Keys, NEW v \in Values, PutEvict(k, v)
  PROVE  LET victim == Head(freqToKey[minFreq]) IN
         /\ LFUInv' /\ Cached' = (Cached \ {victim}) \cup {k}
         /\ k \notin Cached /\ cap > 0 /\ Cardinality(Cached) = cap
         /\ victim \in Cached
         /\ \A j \in Cached \ {victim} :
              \/ uses[victim] < uses[j]
              \/ uses[victim] = uses[j] /\ Age(victim) > Age(j)
<1> DEFINE minKey == Head(freqToKey[minFreq])
           left   == Tail(freqToKey[minFreq])
           lists  == Shrink(freqToKey, minFreq, left)
           values == Without(keyToValue, minKey)
           freqs  == Without(keyToFreq, minKey)
<1>1. /\ cap > 0 /\ k \in Keys \ Cached /\ Cardinality(DOMAIN keyToFreq) >= cap
      /\ Enter(k, v, values, freqs, lists)
  BY DEF PutEvict, Known, Cached
<1>2. /\ Match(freqToKey, keyToFreq) /\ OldestFirst(freqToKey, recent)
      /\ DOMAIN keyToFreq = Cached /\ Cached \subseteq Keys
      /\ Lowest(minFreq, freqToKey, keyToFreq)
      /\ Cardinality(Cached) <= cap /\ cap \in Int
      /\ \A j \in Cached : uses[j] = keyToFreq[j] /\ keyToFreq[j] \in Nat
  BY <1>1, FrequenciesMatchIs DEF LFUInv, LFUTypeOK, BaseTypeOK, InvUses
<1>3. IsFiniteSet(Cached) /\ Cardinality(Cached) \in Nat /\ Cardinality(Cached) = cap /\ Cached # {}
  <2>1. IsFiniteSet(Cached)
    BY <1>2, FS_Subset, CachesAssumption
  <2>2. Cardinality(Cached) \in Nat
    BY <2>1, FS_CardinalityType
  <2>3. Cardinality(Cached) = cap /\ Cardinality(Cached) # 0
    BY <1>1, <1>2, <2>2
  <2> QED  BY <2>1, <2>2, <2>3, FS_EmptySet
<1>4. minFreq \in DOMAIN freqToKey /\ \A j \in Cached : minFreq <= keyToFreq[j]
  BY <1>2, <1>3 DEF Lowest
<1>5. /\ freqToKey[minFreq] \in Seq(Keys) /\ freqToKey[minFreq] # <<>> /\ IsInjective(freqToKey[minFreq])
      /\ ToSet(freqToKey[minFreq]) = {j \in Cached : keyToFreq[j] = minFreq}
      /\ Oldest(freqToKey[minFreq], recent) /\ minFreq \in Nat
  BY <1>2, <1>4 DEF Match, OldestFirst
<1>6. /\ left \in Seq(Keys) /\ IsInjective(left)
      /\ minKey \in ToSet(freqToKey[minFreq])
      /\ ToSet(left) = ToSet(freqToKey[minFreq]) \ {minKey}
  BY <1>5, HeadGoes
<1>7. /\ Oldest(left, recent)
      /\ \A j \in ToSet(freqToKey[minFreq]) \ {minKey} : IndexOf(recent, minKey) > IndexOf(recent, j)
  BY <1>5, TailOrder
<1> HIDE DEF left, minKey
<1>8. minKey \in Cached /\ keyToFreq[minKey] = minFreq
  BY <1>5, <1>6
<1>9. /\ DOMAIN lists = IF left = <<>> THEN DOMAIN freqToKey \ {minFreq} ELSE DOMAIN freqToKey
      /\ \A f \in DOMAIN freqToKey \ {minFreq} : lists[f] = freqToKey[f]
      /\ left # <<>> => lists[minFreq] = left
  BY <1>4 DEF Shrink, Without, With
<1>10. Match(lists, freqs)
  <2>1. minKey \in DOMAIN keyToFreq
    BY <1>2, <1>8
  <2> QED  BY <1>2, <1>6, <1>8, <2>1, ShrinkMatches
<1>11. /\ DOMAIN freqs = Cached \ {minKey} /\ \A j \in DOMAIN freqs : freqs[j] = keyToFreq[j]
       /\ DOMAIN values = Cached \ {minKey} /\ \A j \in DOMAIN values : values[j] = keyToValue[j]
  BY <1>2 DEF Without, Cached
<1> HIDE DEF lists, freqs, values
<1>12. OldestFirst(lists, recent)
  <2> SUFFICES ASSUME NEW f \in DOMAIN lists PROVE Oldest(lists[f], recent)
    BY DEF OldestFirst
  <2>1. CASE f = minFreq
    BY <1>7, <1>9, <2>1
  <2>2. CASE f # minFreq
    BY <1>2, <1>9, <2>2 DEF OldestFirst
  <2> QED  BY <2>1, <2>2
<1>13. Cardinality(DOMAIN values) < cap
  <2>1. Cardinality(Cached \ {minKey}) = Cardinality(Cached) - 1
    BY <1>3, <1>8, FS_RemoveElement
  <2> QED  BY <1>2, <1>3, <1>11, <2>1
<1>14. LFUInv' /\ Cached' = (Cached \ {minKey}) \cup {k}
  <2>1. DOMAIN freqs = DOMAIN values /\ DOMAIN values \subseteq Cached
    BY <1>11
  <2> QED  BY <1>1, <1>10, <1>11, <1>12, <1>13, <2>1, EnterInv
<1>15. ASSUME NEW j \in Cached \ {minKey}
       PROVE  uses[minKey] < uses[j] \/ (uses[minKey] = uses[j] /\ Age(minKey) > Age(j))
  <2>1. uses[minKey] = minFreq /\ uses[j] = keyToFreq[j] /\ minFreq <= keyToFreq[j] /\ keyToFreq[j] \in Nat
    BY <1>2, <1>4, <1>8
  <2>2. CASE keyToFreq[j] = minFreq
    <3>1. IndexOf(recent, minKey) > IndexOf(recent, j)
      BY <1>5, <1>7, <2>2
    <3> QED  BY <2>1, <2>2, <3>1 DEF Age, IndexOf
  <2>3. CASE keyToFreq[j] # minFreq
    BY <1>5, <2>1, <2>3
  <2> QED  BY <2>2, <2>3
<1> QED  BY <1>1, <1>3, <1>8, <1>14, <1>15 DEF minKey

\* A get that finds its key answers with the value put last and drops no key.
LEMMA LFUGetHitInv ==
  ASSUME LFUInv, NEW k \in Keys, LFUGetHit(k)
  PROVE  LFUInv' /\ Cached' = Cached /\ k \in Cached /\ res' = written[k]
<1>1. /\ k \in Cached /\ IncreaseFreq(k) /\ res' = keyToValue[k] /\ Uses(k, uses[k] + 1)
      /\ cap' = cap /\ keyToValue' = keyToValue /\ written' = written
  BY DEF LFUGetHit, Known, Cached
<1>2. /\ \A j \in Cached : keyToValue[j] \in Values /\ keyToValue[j] = written[j]
      /\ written \in [Keys -> Values \cup {Miss}]
  BY DEF LFUInv, FrequenciesMatch, LFUTypeOK, BaseTypeOK, InvUses
<1>3. Cached' = Cached
  BY <1>1 DEF Cached
<1>4. LFUInv'
  <2>1. res' \in Values \cup {Miss} /\ written' \in [Keys -> Values \cup {Miss}]
    BY <1>1, <1>2
  <2>2. \A j \in Cached : keyToValue'[j] \in Values /\ keyToValue'[j] = written'[j]
    BY <1>1, <1>2
  <2> QED  BY <1>1, <1>3, <2>1, <2>2, LFUHitInv
<1> QED  BY <1>1, <1>2, <1>3, <1>4

\* put of a key that is held drops no key.
LEMMA PutKnownInv ==
  ASSUME LFUInv, NEW k \in Keys, NEW v \in Values, PutKnown(k, v)
  PROVE  LFUInv' /\ Cached' = Cached /\ k \in Cached
<1>1. /\ k \in Cached /\ IncreaseFreq(k) /\ Uses(k, uses[k] + 1)
      /\ cap' = cap /\ res' = res /\ written' = [written EXCEPT ![k] = v]
      /\ keyToValue' = With(keyToValue, k, v)
  BY DEF PutKnown, Known, Cached, Written
<1>2. /\ \A j \in Cached : keyToValue[j] \in Values /\ keyToValue[j] = written[j]
      /\ written \in [Keys -> Values \cup {Miss}] /\ res \in Values \cup {Miss} /\ Cached \subseteq Keys
  BY DEF LFUInv, FrequenciesMatch, LFUTypeOK, BaseTypeOK, InvUses
<1>3. Cached' = Cached /\ \A j \in Cached : keyToValue'[j] = IF j = k THEN v ELSE keyToValue[j]
  BY <1>1 DEF Cached, With
<1>4. res' \in Values \cup {Miss} /\ written' \in [Keys -> Values \cup {Miss}]
  BY <1>1, <1>2
<1>5. \A j \in Cached : keyToValue'[j] \in Values /\ keyToValue'[j] = written'[j]
  BY <1>1, <1>2, <1>3
<1> QED  BY <1>1, <1>3, <1>4, <1>5, LFUHitInv

\* Every get and put of the LFU cache keeps its invariant.
LEMMA LFUStepInv == LFUInv /\ LFUNext => LFUInv'
<1> SUFFICES ASSUME LFUInv, NEW k \in Keys, LFUGetHit(k) \/ LFUGetMiss(k) \/ \E v \in Values : LFUPut(k, v)
             PROVE  LFUInv'
  BY DEF LFUNext
<1> USE DEF LFUInv, FrequenciesMatch, LFUTypeOK, BaseTypeOK, InvUses, InvRecent, Cached, lfuVars
<1>1. CASE LFUGetHit(k)
  BY <1>1, LFUGetHitInv
<1>2. CASE LFUGetMiss(k)
  BY <1>2 DEF LFUGetMiss
<1>3. ASSUME NEW v \in Values, PutIgnored(k, v) PROVE LFUInv'
  <2>1. Cached = {}
    <3>1. IsFiniteSet(Cached)
      BY FS_Subset, CachesAssumption
    <3>2. Cardinality(Cached) = 0
      BY <1>3, <3>1, FS_CardinalityType DEF PutIgnored
    <3> QED  BY <3>1, <3>2, FS_EmptySet
  <2>2. written' \in [Keys -> Values \cup {Miss}]
    BY <1>3 DEF PutIgnored, Written
  <2>3. UNCHANGED <<cap, res, recent, minFreq, keyToValue, keyToFreq, freqToKey, uses>>
    BY <1>3 DEF PutIgnored
  <2>4. FrequenciesMatch'
    BY <2>2, <2>3
  <2> QED  BY <2>1, <2>3, <2>4
<1>4. ASSUME NEW v \in Values, PutKnown(k, v) \/ PutRoom(k, v) \/ PutEvict(k, v) PROVE LFUInv'
  <2> HIDE DEF LFUInv
  <2> QED  BY <1>4, PutKnownInv, PutRoomInv, PutEvictInv
<1> QED  BY <1>1, <1>2, <1>3, <1>4 DEF LFUPut

-----------------------------------------------------------------------------
(* Either cache *)

\* The variables of the cache that does not run stay as they are.
IInv == \/ kind = "LRU" /\ LRUInv /\ LFUEmpty
        \/ kind = "LFU" /\ LFUInv /\ LRUEmpty

\* The constructors establish the invariant of their cache.
LEMMA InitInv == Init => IInv
<1> USE DEF BaseInit, BaseTypeOK, InvRecent
<1>1. ASSUME kind = "LRU", LRUInit, LFUEmpty PROVE LRUInv
  <2>1. cap \in Int \ {0} /\ recent = <<>> /\ lst = <<>> /\ pair = <<>> /\ keyToLst = <<>>
    BY <1>1, LRUAssumption DEF LRUInit, LRUEmpty
  <2>2. recent \in Seq(Keys) /\ lst \in Seq(Nodes) /\ Len(lst) = 0 /\ Len(recent) = 0 /\ IsInjective(lst) /\ IsInjective(recent)
    BY <2>1 DEF IsInjective
  <2>3. DOMAIN pair = {} /\ DOMAIN keyToLst = {} /\ ToSet(lst) = {}
    BY <2>1 DEF ToSet
  <2>4. BaseTypeOK
    BY <1>1, <2>1, <2>2 DEF LRUInit
  <2>5. IteratorsValid
    BY <2>1, <2>2, <2>3, <2>4 DEF IteratorsValid, LRUTypeOK
  <2>6. KeepsMostRecent
    <3>1. KeptInOrder
      BY <2>1, <2>2 DEF KeptInOrder, Kept
    <3> QED  BY <2>1, <2>2, <3>1, MostRecentIs
  <2> QED  BY <2>1, <2>2, <2>3, <2>5, <2>6 DEF LRUInv, InvValues
<1>2. ASSUME kind = "LFU", LFUInit, LRUEmpty PROVE LFUInv
  <2>1. /\ cap \in Int /\ recent = <<>> /\ minFreq = 0 /\ uses = [k \in Keys |-> 0]
        /\ keyToValue = <<>> /\ keyToFreq = <<>> /\ freqToKey = <<>>
    BY <1>2, LFUAssumption DEF LFUInit, LFUEmpty
  <2>2. recent \in Seq(Keys) /\ IsInjective(recent)
    BY <2>1 DEF IsInjective
  <2>3. DOMAIN keyToValue = {} /\ DOMAIN keyToFreq = {} /\ DOMAIN freqToKey = {}
    BY <2>1
  <2>4. BaseTypeOK
    BY <1>2, <2>1, <2>2 DEF LFUInit
  <2>5. Cardinality(Cached) = 0 /\ Cached = {}
    BY <2>3, FS_EmptySet DEF Cached
  <2>6. LFUTypeOK
    BY <2>1, <2>3, <2>4, <2>5 DEF LFUTypeOK
  <2>7. FrequenciesMatch
    BY <2>3, <2>5, <2>6 DEF FrequenciesMatch
  <2> QED  BY <2>2, <2>3, <2>5, <2>7 DEF LFUInv, Match, OldestFirst, InvUses
<1> QED  BY <1>1, <1>2 DEF Init, IInv

\* A step that changes nothing keeps the invariant.
LEMMA StutterInv == IInv /\ UNCHANGED vars => IInv'
<1> SUFFICES ASSUME IInv, UNCHANGED vars PROVE IInv'
  OBVIOUS
<1> USE DEF vars, baseVars, lruVars, lfuVars, IInv, BaseTypeOK, InvRecent, LRUEmpty, LFUEmpty
<1>1. ASSUME kind = "LRU", LRUInv PROVE LRUInv'
  BY <1>1 DEF LRUInv, IteratorsValid, LRUTypeOK, KeepsMostRecent, MostRecent, InvValues
<1>2. ASSUME kind = "LFU", LFUInv PROVE LFUInv'
  BY <1>2 DEF LFUInv, FrequenciesMatch, LFUTypeOK, InvUses, Cached
<1> QED  BY <1>1, <1>2

\* Every step of either cache keeps the invariant.
LEMMA StepInv == IInv /\ [Next]_vars => IInv'
<1> SUFFICES ASSUME IInv, Next PROVE IInv'
  BY StutterInv
<1>1. CASE kind = "LRU" /\ LRUNext /\ UNCHANGED <<kind, lfuVars>>
  BY <1>1, LRUStepInv DEF IInv, LFUEmpty, lfuVars
<1>2. CASE kind = "LFU" /\ LFUNext /\ UNCHANGED <<kind, lruVars>>
  BY <1>2, LFUStepInv DEF IInv, LRUEmpty, lruVars
<1> QED  BY <1>1, <1>2 DEF Next

\* The invariant always holds.
LEMMA Invariance == Spec => []IInv
BY InitInv, StepInv, PTL DEF Spec

\* The map and the list of the LRU cache describe each other.
THEOREM IteratorsCorrect == Spec => []IteratorsValid
<1>1. IInv => IteratorsValid
  <2>1. ASSUME LFUInv, LRUEmpty PROVE IteratorsValid
    <3>1. BaseTypeOK /\ cap \in Int
      BY <2>1 DEF LFUInv, FrequenciesMatch, LFUTypeOK, BaseTypeOK
    <3>2. lst \in Seq(Nodes) /\ Len(lst) = 0 /\ IsInjective(lst) /\ ToSet(lst) = {} /\ DOMAIN pair = {} /\ DOMAIN keyToLst = {}
      BY <2>1 DEF LRUEmpty, IsInjective, ToSet
    <3> QED  BY <3>1, <3>2 DEF IteratorsValid, LRUTypeOK
  <2> QED  BY <2>1 DEF IInv, LRUInv
<1> QED  BY <1>1, Invariance, PTL

\* The LRU cache holds the keys used last, in the order of their use.
THEOREM MostRecentKept == Spec => []LRUKeepsMostRecent
<1>1. IInv => LRUKeepsMostRecent
  BY DEF IInv, LRUInv, LRUKeepsMostRecent
<1> QED  BY <1>1, Invariance, PTL

\* The lists of the LFU cache split up its keys, and _minFreq is their lowest
\* frequency.
THEOREM FrequenciesCorrect == Spec => []FrequenciesMatch
<1>1. IInv => FrequenciesMatch
  <2>1. ASSUME LRUInv, LFUEmpty PROVE FrequenciesMatch
    <3>1. BaseTypeOK /\ cap \in Int
      BY <2>1 DEF LRUInv, IteratorsValid, LRUTypeOK, BaseTypeOK
    <3>2. DOMAIN keyToValue = {} /\ DOMAIN keyToFreq = {} /\ DOMAIN freqToKey = {} /\ minFreq = 0 /\ uses \in [Keys -> Nat]
      BY <2>1 DEF LFUEmpty
    <3>3. Cardinality(Cached) = 0 /\ Cached = {}
      BY <3>2, FS_EmptySet DEF Cached
    <3>4. LFUTypeOK
      BY <3>1, <3>2, <3>3 DEF LFUTypeOK
    <3> QED  BY <3>2, <3>3, <3>4 DEF FrequenciesMatch
  <2> QED  BY <2>1 DEF IInv, LFUInv
<1> QED  BY <1>1, Invariance, PTL

\* A key that goes from the LFU cache was used the least, and its last use is
\* the oldest.
THEOREM VictimsLeastUsed == Spec => EvictsLeastUsed
<1> DEFINE A == \A k \in Cached \ Cached' : \A j \in Cached \ {k} :
                   uses[k] < uses[j] \/ (uses[k] = uses[j] /\ Age(k) > Age(j))
<1>1. IInv /\ [Next]_vars => [A]_lfuVars
  <2> SUFFICES ASSUME IInv, Next, ~ UNCHANGED lfuVars, NEW k \in Cached \ Cached', NEW j \in Cached \ {k}
               PROVE  uses[k] < uses[j] \/ (uses[k] = uses[j] /\ Age(k) > Age(j))
    BY DEF vars
  <2>1. LFUInv /\ LFUNext
    BY DEF Next, IInv
  <2>2. PICK i \in Keys : LFUGetHit(i) \/ LFUGetMiss(i) \/ \E v \in Values : LFUPut(i, v)
    BY <2>1 DEF LFUNext
  <2>3. CASE LFUGetHit(i)
    BY <2>1, <2>3, LFUGetHitInv
  <2>4. CASE LFUGetMiss(i)
    BY <2>4 DEF LFUGetMiss
  <2>5. ASSUME NEW v \in Values, LFUPut(i, v)
        PROVE  uses[k] < uses[j] \/ (uses[k] = uses[j] /\ Age(k) > Age(j))
    <3>1. ~PutIgnored(i, v)
      BY DEF PutIgnored
    <3>2. ~PutKnown(i, v)
      BY <2>1, PutKnownInv
    <3>3. ~PutRoom(i, v)
      BY <2>1, PutRoomInv
    <3>4. PutEvict(i, v)
      BY <2>5, <3>1, <3>2, <3>3 DEF LFUPut
    <3> QED  BY <2>1, <3>4, PutEvictInv
  <2> QED  BY <2>2, <2>3, <2>4, <2>5
<1> QED  BY <1>1, Invariance, PTL DEF Spec, EvictsLeastUsed

-----------------------------------------------------------------------------
(* The promise *)

\* The LRU cache holds as many keys as its list has nodes.
LEMMA HeldKeys ==
  ASSUME IteratorsValid
  PROVE  IsFiniteSet(DOMAIN keyToLst) /\ Cardinality(DOMAIN keyToLst) = Len(lst) /\ Len(lst) \in Nat
<1> DEFINE f == [i \in 1..Len(lst) |-> pair[lst[i]].key]
<1>1. /\ lst \in Seq(Nodes) /\ IsInjective(lst) /\ DOMAIN lst = 1..Len(lst) /\ Len(lst) \in Nat
      /\ \A k \in DOMAIN keyToLst : pair[keyToLst[k]].key = k
  BY DEF IteratorsValid, LRUTypeOK
<1>2. \A i \in 1..Len(lst) : pair[lst[i]].key \in DOMAIN keyToLst /\ keyToLst[pair[lst[i]].key] = lst[i]
  BY NodesAndKeys
<1>3. \A k \in DOMAIN keyToLst : \E i \in 1..Len(lst) : pair[lst[i]].key = k
  <2> SUFFICES ASSUME NEW k \in DOMAIN keyToLst PROVE \E i \in 1..Len(lst) : pair[lst[i]].key = k
    OBVIOUS
  <2>1. PICK i \in 1..Len(lst) : lst[i] = keyToLst[k]
    BY NodesAndKeys
  <2> QED  BY <1>1, <2>1
<1>4. f \in Bijection(1..Len(lst), DOMAIN keyToLst)
  <2>1. f \in [1..Len(lst) -> DOMAIN keyToLst]
    BY <1>2
  <2>2. \A i, j \in 1..Len(lst) : f[i] = f[j] => i = j
    BY <1>1, <1>2 DEF IsInjective
  <2>3. \A k \in DOMAIN keyToLst : \E i \in 1..Len(lst) : f[i] = k
    BY <1>3
  <2> HIDE DEF f
  <2> QED  BY <2>1, <2>2, <2>3 DEF Bijection, Injection, Surjection, IsInjective
<1>5. IsFiniteSet(1..Len(lst)) /\ Cardinality(1..Len(lst)) = Len(lst)
  BY <1>1, FS_Interval
<1> HIDE DEF f
<1>6. ExistsBijection(1..Len(lst), DOMAIN keyToLst)
  BY <1>4 DEF ExistsBijection
<1> QED  BY <1>1, <1>5, <1>6, FS_Bijection

Limit   == IF cap >= 0 THEN cap ELSE IF kind = "LRU" THEN Cardinality(Keys) ELSE 0
KeysIn  == IF kind = "LRU" THEN DOMAIN keyToLst ELSE DOMAIN keyToValue

\* Promise!Remember, told by the keys before and after the step.
LEMMA RememberIs ==
  ASSUME NEW k, NEW C, NEW D, KeysIn = C, KeysIn' = D,
         \/ k \in C /\ D = C
         \/ Cardinality(C) < Limit /\ D = C \cup {k}
         \/ /\ k \notin C /\ Cardinality(C) = Limit
            /\ \E victim \in C : D = (C \ {victim}) \cup {k}
         \/ Limit = 0 /\ D = C
  PROVE  Promise!Remember(k)
<1>1. \/ k \in KeysIn /\ UNCHANGED KeysIn
      \/ Cardinality(KeysIn) < Limit /\ KeysIn' = KeysIn \cup {k}
      \/ /\ k \notin KeysIn /\ Cardinality(KeysIn) = Limit
         /\ \E victim \in KeysIn : KeysIn' = (KeysIn \ {victim}) \cup {k}
      \/ Limit = 0 /\ UNCHANGED KeysIn
  OBVIOUS
<1>2. \A S : Promise!Cardinality(S) = Cardinality(S)
  BY DEF Promise!Cardinality, Cardinality
<1> QED  BY <1>1, <1>2 DEF Promise!Remember, Limit, KeysIn

\* What the three kinds of LRU put do to the keys that are held.
LEMMA LRUPutRemembers ==
  ASSUME IInv, kind = "LRU", kind' = kind, cap' = cap, NEW k \in Keys, NEW v \in Values,
         LRUReplace(k, v) \/ LRUInsert(k, v) \/ LRUEvict(k, v)
  PROVE  Promise!Remember(k)
<1>1. LRUInv /\ IteratorsValid /\ cap \in Int /\ cap # 0
  BY DEF IInv, LRUInv, IteratorsValid, LRUTypeOK, BaseTypeOK
<1> DEFINE C == DOMAIN keyToLst
<1>2. IsFiniteSet(C) /\ Cardinality(C) = Len(lst) /\ Len(lst) \in Nat /\ C \subseteq Keys
  BY <1>1, HeldKeys DEF IteratorsValid, LRUTypeOK
<1>3. SUFFICES \/ k \in C /\ C' = C
               \/ Cardinality(C) < Limit /\ C' = C \cup {k}
               \/ /\ k \notin C /\ Cardinality(C) = Limit
                  /\ \E victim \in C : C' = (C \ {victim}) \cup {k}
  <2>1. KeysIn = C /\ KeysIn' = C'
    BY DEF KeysIn
  <2> QED  BY <2>1, RememberIs
<1>4. CASE LRUReplace(k, v)
  BY <1>1, <1>4, ReplaceLeaves DEF LRUReplace, InList
<1>5. CASE LRUInsert(k, v)
  <2>1. C' = C \cup {k} /\ k \notin C
    BY <1>1, <1>5, InsertLeaves DEF LRUInsert, InList
  <2>2. ~(0 <= cap /\ cap <= Len(lst))
    BY <1>5 DEF LRUInsert, Full
  <2>3. CASE cap < 0
    <3>1. Cardinality(C) <= Cardinality(Keys) /\ Cardinality(C) # Cardinality(Keys)
      BY <1>2, <2>1, FS_Subset, CachesAssumption
    <3>2. Cardinality(Keys) \in Nat
      BY FS_CardinalityType, CachesAssumption
    <3>3. Limit = Cardinality(Keys)
      BY <1>1, <2>3 DEF Limit
    <3> QED  BY <1>2, <2>1, <3>1, <3>2, <3>3
  <2>4. CASE cap >= 0
    BY <1>1, <1>2, <2>1, <2>2, <2>4 DEF Limit
  <2>5. cap < 0 \/ cap >= 0
    BY <1>1
  <2> QED  BY <2>3, <2>4, <2>5
<1>6. CASE LRUEvict(k, v)
  <2>1. /\ \E j \in C : C' = (C \ {j}) \cup {k}
        /\ cap > 0 /\ Len(lst) = cap
    BY <1>1, <1>6, EvictLeaves
  <2>2. k \notin C
    BY <1>6 DEF LRUEvict, InList
  <2>3. Limit = cap
    BY <1>1, <2>1 DEF Limit
  <2> QED  BY <1>2, <2>1, <2>2, <2>3
<1> QED  BY <1>4, <1>5, <1>6

\* An empty cache promises what an empty BoundedCache does.
LEMMA RefineInit == Init => Promise!Init
<1> SUFFICES ASSUME Init PROVE Promise!Init
  OBVIOUS
<1>1. cap \in Int /\ written = [k \in Keys |-> Miss] /\ res = Miss
  BY LRUAssumption, LFUAssumption DEF Init, LRUInit, LFUInit, BaseInit
<1>2. DOMAIN keyToLst = {} /\ DOMAIN keyToValue = {}
  BY DEF Init, LRUInit, LFUInit, LRUEmpty, LFUEmpty
<1>3. Cardinality(Keys) \in Nat
  BY FS_CardinalityType, CachesAssumption
<1> QED  BY <1>1, <1>2, <1>3 DEF Promise!Init

\* Every step of the LRU cache is one of BoundedCache.
LEMMA RefineLRU ==
  ASSUME IInv, kind = "LRU", kind' = kind, LRUNext
  PROVE  Promise!Next
<1>1. LRUInv /\ written \in [Keys -> Values \cup {Miss}]
  BY DEF IInv, LRUInv, IteratorsValid, LRUTypeOK, BaseTypeOK
<1>2. PICK k \in Keys : LRUGetHit(k) \/ LRUGetMiss(k) \/ \E v \in Values : LRUPut(k, v)
  BY DEF LRUNext
<1>3. CASE LRUGetHit(k)
  <2>1. res' = written[k] /\ DOMAIN keyToLst' = DOMAIN keyToLst
    BY <1>1, <1>3, LRUGetHitInv
  <2>2. k \in DOMAIN keyToLst /\ cap' = cap /\ written' = written
    BY <1>3 DEF LRUGetHit, InList
  <2>3. Promise!Get(k)
    BY <2>1, <2>2 DEF Promise!Get
  <2> QED  BY <2>3 DEF Promise!Next
<1>4. CASE LRUGetMiss(k)
  <2>1. Promise!Get(k)
    BY <1>4 DEF LRUGetMiss, InList, lruVars, Promise!Get
  <2> QED  BY <2>1 DEF Promise!Next
<1>5. ASSUME NEW v \in Values, LRUPut(k, v) PROVE Promise!Next
  <2>1. /\ LRUReplace(k, v) \/ LRUInsert(k, v) \/ LRUEvict(k, v)
        /\ cap' = cap /\ res' = res /\ written' = [written EXCEPT ![k] = v]
    BY <1>5 DEF LRUPut, Written
  <2>2. Promise!Remember(k)
    BY <2>1, LRUPutRemembers
  <2>3. Promise!Put(k, v)
    BY <2>1, <2>2 DEF Promise!Put
  <2> QED  BY <2>3 DEF Promise!Next
<1> QED  BY <1>2, <1>3, <1>4, <1>5

\* Every step of the LFU cache is one of BoundedCache.
LEMMA RefineLFU ==
  ASSUME IInv, kind = "LFU", kind' = kind, LFUNext
  PROVE  Promise!Next
<1>1. /\ LFUInv /\ written \in [Keys -> Values \cup {Miss}] /\ cap \in Int /\ Cached \subseteq Keys
      /\ Cardinality(Cached) <= (IF cap > 0 THEN cap ELSE 0)
  BY DEF IInv, LFUInv, FrequenciesMatch, LFUTypeOK, BaseTypeOK
<1>2. PICK k \in Keys : LFUGetHit(k) \/ LFUGetMiss(k) \/ \E v \in Values : LFUPut(k, v)
  BY DEF LFUNext
<1>3. kind # "LRU" /\ kind' # "LRU"
  OBVIOUS
<1>4. CASE LFUGetHit(k)
  <2>1. res' = written[k] /\ Cached' = Cached /\ k \in Cached
    BY <1>1, <1>4, LFUGetHitInv
  <2>2. cap' = cap /\ written' = written
    BY <1>4 DEF LFUGetHit
  <2>3. Promise!Get(k)
    BY <1>3, <2>1, <2>2 DEF Promise!Get, Cached
  <2> QED  BY <2>3 DEF Promise!Next
<1>5. CASE LFUGetMiss(k)
  <2>1. Promise!Get(k)
    BY <1>3, <1>5 DEF LFUGetMiss, Known, lfuVars, Promise!Get
  <2> QED  BY <2>1 DEF Promise!Next
<1>6. ASSUME NEW v \in Values, LFUPut(k, v) PROVE Promise!Next
  <2>1. cap' = cap /\ res' = res /\ written' = [written EXCEPT ![k] = v]
    BY <1>6 DEF LFUPut, PutIgnored, PutKnown, PutRoom, PutEvict, Enter, Written
  <2>2. SUFFICES Promise!Remember(k)
    BY <2>1 DEF Promise!Put, Promise!Next
  <2>3. SUFFICES \/ k \in Cached /\ Cached' = Cached
                 \/ Cardinality(Cached) < Limit /\ Cached' = Cached \cup {k}
                 \/ /\ k \notin Cached /\ Cardinality(Cached) = Limit
                    /\ \E victim \in Cached : Cached' = (Cached \ {victim}) \cup {k}
                 \/ Limit = 0 /\ Cached' = Cached
    <3>1. KeysIn = Cached /\ KeysIn' = Cached'
      BY <1>3 DEF KeysIn, Cached
    <3> QED  BY <3>1, RememberIs
  <2>4. CASE PutIgnored(k, v)
    BY <1>1, <1>3, <2>4 DEF PutIgnored, Limit, Cached, lfuVars
  <2>5. CASE PutKnown(k, v)
    BY <1>1, <2>5, PutKnownInv
  <2>6. CASE PutRoom(k, v)
    <3>1. cap > 0 /\ Cardinality(Cached) < cap
      BY <1>1, <2>6 DEF PutRoom, LFUInv, FrequenciesMatch
    <3> QED  BY <1>1, <2>6, <3>1, PutRoomInv DEF Limit
  <2>7. CASE PutEvict(k, v)
    BY <1>1, <2>7, PutEvictInv DEF Limit
  <2> QED  BY <1>6, <2>4, <2>5, <2>6, <2>7 DEF LFUPut
<1> QED  BY <1>2, <1>4, <1>5, <1>6

\* Both caches answer with the last value put for a key they kept, and drop one
\* key at a time, only when they are full.
THEOREM KeepsPromise == Spec => ImplementsCache
<1>1. Init => Promise!Init
  BY RefineInit
<1>2. IInv /\ [Next]_vars => [Promise!Next]_<<Limit, KeysIn, written, res>>
  <2> SUFFICES ASSUME IInv, [Next]_vars PROVE [Promise!Next]_<<Limit, KeysIn, written, res>>
    OBVIOUS
  <2>1. CASE Next
    BY <2>1, RefineLRU, RefineLFU DEF Next
  <2>2. CASE UNCHANGED vars
    BY <2>2 DEF vars, baseVars, lruVars, lfuVars, Limit, KeysIn
  <2> QED  BY <2>1, <2>2
<1> QED  BY <1>1, <1>2, Invariance, PTL DEF Spec, ImplementsCache, Promise!Spec, Limit, KeysIn
=============================================================================
