-------------------------- MODULE NodeListsProofs --------------------------
(***************************************************************************)
(* What NodesFrom returns: the list that the pointers spell out, and how   *)
(* the list follows when a pointer changes.                                *)
(***************************************************************************)
EXTENDS NodeLists, WellFoundedInduction, FiniteSetTheorems, SequenceTheorems, TLAPS

\* w is the list that begins at p: it follows the pointers, repeats no node,
\* and ends at the null pointer.
IsList(w, p, next) ==
  /\ w \in Seq(DOMAIN next)
  /\ \A i, j \in 1..Len(w) : w[i] = w[j] => i = j
  /\ \A i \in 1..Len(w) : i < Len(w) => next[w[i]] = w[i + 1]
  /\ w # <<>> => w[1] = p /\ next[w[Len(w)]] \notin DOMAIN next
  /\ w = <<>> => p \notin DOMAIN next

\* Induction over the natural numbers, for a set instead of a predicate.
LEMMA NatInductive ==
  ASSUME NEW S, 0 \in S, \A n \in Nat : n \in S => n + 1 \in S
  PROVE  Nat \subseteq S
<1> DEFINE Out == Nat \ S
<1>1. SUFFICES ASSUME Out # {} PROVE FALSE
  OBVIOUS
<1>2. PICK x \in Out : \A y \in Out : ~(<<y, x>> \in OpToRel(<, Nat))
  <2>1. IsWellFoundedOn(OpToRel(<, Nat), Nat)
    BY NatLessThanWellFounded
  <2>2. Out \subseteq Nat
    OBVIOUS
  <2> HIDE DEF Out
  <2> QED  BY <1>1, <2>1, <2>2, WFMin
<1>3. x \in Nat /\ x \notin S
  OBVIOUS
<1>4. x - 1 \in Out /\ x > 0
  BY <1>3, SMT
<1>5. <<x - 1, x>> \in OpToRel(<, Nat)
  BY <1>3, <1>4, SMT DEF OpToRel
<1> QED  BY <1>2, <1>4, <1>5

\* The pointers of a list determine every node NodesFrom meets.
LEMMA WalkUnique ==
  ASSUME NEW p, NEW next, NEW f, NEW g,
         f = [i \in Nat |-> IF i = 0 THEN p
                            ELSE IF f[i - 1] \in DOMAIN next THEN next[f[i - 1]] ELSE f[i - 1]],
         g = [i \in Nat |-> IF i = 0 THEN p
                            ELSE IF g[i - 1] \in DOMAIN next THEN next[g[i - 1]] ELSE g[i - 1]]
  PROVE  f = g
<1> DEFINE S == {i \in Nat : f[i] = g[i]}
<1>1. 0 \in S
  BY SMT
<1>2. ASSUME NEW n \in Nat, n \in S PROVE n + 1 \in S
  <2>1. n + 1 \in Nat /\ n + 1 # 0 /\ (n + 1) - 1 = n
    BY SMT
  <2>2. f[n + 1] = IF f[n] \in DOMAIN next THEN next[f[n]] ELSE f[n]
    BY <2>1
  <2>3. g[n + 1] = IF g[n] \in DOMAIN next THEN next[g[n]] ELSE g[n]
    BY <2>1
  <2> QED  BY <1>2, <2>1, <2>2, <2>3
<1>3. Nat \subseteq S
  <2> HIDE DEF S
  <2> QED  BY <1>1, <1>2, NatInductive
<1>4. \A i \in Nat : f[i] = g[i]
  BY <1>3
<1>5. f = [i \in Nat |-> f[i]] /\ g = [i \in Nat |-> g[i]]
  OBVIOUS
<1> QED  BY <1>4, <1>5

\* A list is no longer than there are nodes.
LEMMA ListLength ==
  ASSUME NEW N, IsFiniteSet(N), NEW w \in Seq(N),
         \A i, j \in 1..Len(w) : w[i] = w[j] => i = j
  PROVE  Cardinality(N) \in Nat /\ Len(w) <= Cardinality(N)
<1>1. w \in Injection(1..Len(w), N)
  BY DEF Injection, IsInjective
<1>2. Cardinality(1..Len(w)) <= Cardinality(N)
  BY <1>1, FS_Injection
<1>3. Cardinality(1..Len(w)) = Len(w)
  BY FS_Interval
<1> QED  BY <1>2, <1>3, FS_CardinalityType

\* NodesFrom returns the list that begins at its pointer.
THEOREM ListIsNodesFrom ==
  ASSUME NEW p, NEW next, IsFiniteSet(DOMAIN next), NEW w, IsList(w, p, next)
  PROVE  NodesFrom(p, next) = w
<1> DEFINE N == DOMAIN next
           end == IF w = <<>> THEN p ELSE next[w[Len(w)]]
           walk == [i \in Nat |-> IF i < Len(w) THEN w[i + 1] ELSE end]
           isNode(q) == q \in DOMAIN next
           at[i \in Nat] == IF i = 0 THEN p
                            ELSE LET q == at[i - 1] IN IF isNode(q) THEN next[q] ELSE q
           met(f) == {i \in 0..Cardinality(N) : f[i] \in N}
<1>1. /\ w \in Seq(N)
      /\ Len(w) \in Nat
      /\ \A i \in 1..Len(w) : w[i] \in N
      /\ w = <<>> <=> Len(w) = 0
  BY DEF IsList
<1>2. end \notin N
  BY DEF IsList
<1>3. walk = [i \in Nat |-> IF i = 0 THEN p
                            ELSE IF walk[i - 1] \in N THEN next[walk[i - 1]] ELSE walk[i - 1]]
  <2>1. walk[0] = p
    BY <1>1, SMT DEF IsList
  <2>2. ASSUME NEW i \in Nat, i # 0
        PROVE  walk[i] = IF walk[i - 1] \in N THEN next[walk[i - 1]] ELSE walk[i - 1]
    <3>1. i - 1 \in Nat
      BY <2>2, SMT
    <3>2. CASE i < Len(w)
      <4>1. walk[i - 1] = w[i] /\ walk[i] = w[i + 1] /\ i \in 1..Len(w)
        BY <1>1, <2>2, <3>1, <3>2, SMT
      <4> QED  BY <1>1, <3>2, <4>1 DEF IsList
    <3>3. CASE i = Len(w)
      <4>1. walk[i - 1] = w[i] /\ walk[i] = end /\ i \in 1..Len(w) /\ w # <<>>
        BY <1>1, <2>2, <3>1, <3>3, SMT
      <4> QED  BY <1>1, <3>3, <4>1 DEF IsList
    <3>4. CASE i > Len(w)
      <4>1. walk[i - 1] = end /\ walk[i] = end
        BY <1>1, <2>2, <3>1, <3>4, SMT
      <4> QED  BY <1>2, <4>1
    <3> QED  BY <1>1, <3>2, <3>3, <3>4, SMT
  <2> HIDE DEF end
  <2>3. \A i \in Nat : walk[i] = IF i = 0 THEN p
                                 ELSE IF walk[i - 1] \in N THEN next[walk[i - 1]] ELSE walk[i - 1]
    BY <2>1, <2>2
  <2>4. walk = [i \in Nat |-> walk[i]]
    OBVIOUS
  <2> HIDE DEF walk
  <2> QED  BY <2>3, <2>4
<1>4. at = walk
  <2>1. at = [i \in Nat |-> IF i = 0 THEN p
                            ELSE IF at[i - 1] \in N THEN next[at[i - 1]] ELSE at[i - 1]]
    <3> HIDE DEF walk
    <3> QED  BY <1>3
  <2> HIDE DEF at, walk
  <2> QED  BY <1>3, <2>1, WalkUnique
<1>5. NodesFrom(p, next) = [i \in 1..Cardinality(met(at)) |-> at[i - 1]]
  BY DEF NodesFrom
<1>6. met(walk) = 0..(Len(w) - 1)
  <2>1. Cardinality(N) \in Nat /\ Len(w) <= Cardinality(N)
    BY <1>1, ListLength DEF IsList
  <2>2. \A i \in Nat : walk[i] \in N <=> i < Len(w)
    BY <1>1, <1>2, SMT
  <2> HIDE DEF walk
  <2> QED  BY <1>1, <2>1, <2>2, SMT
<1>7. Cardinality(met(walk)) = Len(w)
  <2>1. Cardinality(0..(Len(w) - 1)) = Len(w)
    <3>1. /\ 0 \in Int /\ Len(w) - 1 \in Int
          /\ (IF 0 > Len(w) - 1 THEN 0 ELSE (Len(w) - 1) - 0 + 1) = Len(w)
      BY <1>1, SMT
    <3> HIDE DEF walk, at
    <3> QED  BY <3>1, FS_Interval
  <2> QED  BY <1>6, <2>1
<1>8. [i \in 1..Len(w) |-> walk[i - 1]] = w
  BY <1>1, SMT
<1> HIDE DEF at, walk
<1> QED  BY <1>4, <1>5, <1>7, <1>8

\* A pointer of a node that is not in the list leaves the list alone.
LEMMA ListKept ==
  ASSUME NEW w, NEW p, NEW next, IsList(w, p, next),
         NEW other, DOMAIN other = DOMAIN next,
         \A i \in 1..Len(w) : other[w[i]] = next[w[i]]
  PROVE  IsList(w, p, other)
<1>1. w # <<>> => Len(w) \in 1..Len(w)
  BY DEF IsList
<1> QED  BY <1>1 DEF IsList

\* A new node that points to the first one becomes the first one.
LEMMA ListCons ==
  ASSUME NEW w, NEW p, NEW next, IsList(w, p, next),
         NEW n \in DOMAIN next, next[n] = p, \A i \in 1..Len(w) : w[i] # n
  PROVE  IsList(<<n>> \o w, n, next)
<1> DEFINE v == <<n>> \o w
<1>1. w \in Seq(DOMAIN next) /\ Len(w) \in Nat /\ (w = <<>> <=> Len(w) = 0)
  BY DEF IsList
<1>2. /\ v \in Seq(DOMAIN next)
      /\ Len(v) = Len(w) + 1
      /\ v[1] = n
      /\ \A i \in 1..Len(w) : v[i + 1] = w[i]
  BY <1>1
<1>3. \A i \in 1..Len(v) : i = 1 \/ (i - 1 \in 1..Len(w) /\ v[i] = w[i - 1])
  <2> HIDE DEF v
  <2> SUFFICES ASSUME NEW i \in 1..Len(v), i # 1 PROVE i - 1 \in 1..Len(w) /\ v[i] = w[i - 1]
    OBVIOUS
  <2>1. i - 1 \in 1..Len(w) /\ (i - 1) + 1 = i
    BY <1>1, <1>2
  <2> QED  BY <1>2, <2>1
<1> HIDE DEF v
<1>4. \A i, j \in 1..Len(v) : v[i] = v[j] => i = j
  <2> SUFFICES ASSUME NEW i \in 1..Len(v), NEW j \in 1..Len(v), v[i] = v[j] PROVE i = j
    OBVIOUS
  <2>1. i \in Int /\ j \in Int
    OBVIOUS
  <2>2. CASE i # 1 /\ j # 1
    <3>1. i - 1 = j - 1
      BY <1>3, <2>2 DEF IsList
    <3> QED  BY <2>1, <3>1
  <2> QED  BY <1>2, <1>3, <2>1, <2>2
<1>5. \A i \in 1..Len(v) : i < Len(v) => next[v[i]] = v[i + 1]
  <2> SUFFICES ASSUME NEW i \in 1..Len(v), i < Len(v) PROVE next[v[i]] = v[i + 1]
    OBVIOUS
  <2>1. i \in 1..Len(w) /\ v[i + 1] = w[i]
    BY <1>1, <1>2
  <2>2. CASE i = 1
    BY <1>1, <1>2, <2>1, <2>2 DEF IsList
  <2>3. CASE i # 1
    <3>1. i - 1 \in 1..Len(w) /\ v[i] = w[i - 1] /\ i - 1 < Len(w) /\ (i - 1) + 1 = i
      BY <1>1, <1>2, <1>3, <2>1, <2>3
    <3> QED  BY <2>1, <3>1 DEF IsList
  <2> QED  BY <2>2, <2>3
<1>6. v # <<>> /\ v[1] = n /\ next[v[Len(v)]] \notin DOMAIN next
  BY <1>1, <1>2, <1>3 DEF IsList
<1> QED  BY <1>2, <1>4, <1>5, <1>6 DEF IsList, v

\* Without its first node, the list begins at that node's pointer.
LEMMA ListTail ==
  ASSUME NEW w, NEW p, NEW next, IsList(w, p, next), w # <<>>
  PROVE  /\ IsList(Tail(w), next[p], next)
         /\ p \in DOMAIN next
         /\ \A i \in 1..Len(Tail(w)) : Tail(w)[i] # p
<1> DEFINE v == Tail(w)
<1>1. w \in Seq(DOMAIN next) /\ Len(w) \in Nat /\ Len(w) > 0 /\ w[1] = p
  BY DEF IsList
<1>2. /\ v \in Seq(DOMAIN next)
      /\ Len(v) = Len(w) - 1
      /\ \A i \in 1..Len(v) : v[i] = w[i + 1]
  BY <1>1
<1> HIDE DEF v
<1>4. p \in DOMAIN next /\ \A i \in 1..Len(v) : v[i] # p
  <2>1. \A i \in 1..Len(v) : i + 1 \in 1..Len(w) /\ i + 1 # 1 /\ 1 \in 1..Len(w)
    BY <1>1, <1>2
  <2> QED  BY <1>1, <1>2, <2>1 DEF IsList
<1>5. \A i, j \in 1..Len(v) : v[i] = v[j] => i = j
  <2>1. \A i \in 1..Len(v) : i + 1 \in 1..Len(w)
    BY <1>1, <1>2
  <2>2. \A i, j \in 1..Len(v) : v[i] = v[j] => i + 1 = j + 1
    BY <1>2, <2>1 DEF IsList
  <2> QED  BY <1>2, <2>2
<1>6. \A i \in 1..Len(v) : i < Len(v) => next[v[i]] = v[i + 1]
  <2> SUFFICES ASSUME NEW i \in 1..Len(v), i < Len(v) PROVE next[v[i]] = v[i + 1]
    OBVIOUS
  <2>1. /\ i + 1 \in 1..Len(w) /\ i + 1 < Len(w)
        /\ v[i] = w[i + 1] /\ v[i + 1] = w[(i + 1) + 1]
    BY <1>1, <1>2
  <2> QED  BY <2>1 DEF IsList
<1>7. v # <<>> => v[1] = next[p] /\ next[v[Len(v)]] \notin DOMAIN next
  <2> SUFFICES ASSUME v # <<>> PROVE v[1] = next[p] /\ next[v[Len(v)]] \notin DOMAIN next
    OBVIOUS
  <2>1. /\ 1 \in 1..Len(w) /\ 1 < Len(w) /\ 1 + 1 = 2 /\ v[1] = w[2]
        /\ w # <<>> /\ v[Len(v)] = w[Len(w)]
    <3>1. Len(v) > 0
      BY <1>2
    <3> QED  BY <1>1, <1>2, <3>1
  <2> QED  BY <1>1, <2>1 DEF IsList
<1>8. v = <<>> => next[p] \notin DOMAIN next
  <2>1. v = <<>> => Len(w) = 1 /\ w # <<>>
    <3>1. v = <<>> => Len(v) = 0
      BY <1>2
    <3> QED  BY <1>1, <1>2, <3>1
  <2> QED  BY <1>1, <2>1 DEF IsList
<1> QED  BY <1>2, <1>4, <1>5, <1>6, <1>7, <1>8 DEF IsList, v

\* A last node that is given a successor is no longer the last.
LEMMA ListAppend ==
  ASSUME NEW w, NEW p, NEW next, IsList(w, p, next), w # <<>>,
         NEW n \in DOMAIN next, \A i \in 1..Len(w) : w[i] # n, next[n] \notin DOMAIN next
  PROVE  IsList(Append(w, n), p, [next EXCEPT ![w[Len(w)]] = n])
<1> DEFINE v == Append(w, n)
           other == [next EXCEPT ![w[Len(w)]] = n]
<1>1. w \in Seq(DOMAIN next) /\ Len(w) \in Nat /\ Len(w) > 0 /\ w[1] = p
  BY DEF IsList
<1>2. /\ v \in Seq(DOMAIN next)
      /\ Len(v) = Len(w) + 1
      /\ v[Len(v)] = n
      /\ \A i \in 1..Len(w) : v[i] = w[i]
      /\ v # <<>>
  BY <1>1
<1>3. /\ DOMAIN other = DOMAIN next
      /\ other[w[Len(w)]] = n
      /\ \A q \in DOMAIN next : q # w[Len(w)] => other[q] = next[q]
  BY <1>1
<1>4. \A i \in 1..Len(v) : i \in 1..Len(w) \/ i = Len(v)
  <2> HIDE DEF v
  <2> QED  BY <1>1, <1>2
<1> HIDE DEF v, other
<1>5. \A i, j \in 1..Len(v) : v[i] = v[j] => i = j
  BY <1>1, <1>2, <1>4 DEF IsList
<1>6. \A i \in 1..Len(v) : i < Len(v) => other[v[i]] = v[i + 1]
  <2> SUFFICES ASSUME NEW i \in 1..Len(v), i < Len(v) PROVE other[v[i]] = v[i + 1]
    OBVIOUS
  <2>1. i \in 1..Len(w) /\ v[i] = w[i] /\ Len(w) \in 1..Len(w)
    BY <1>1, <1>2
  <2>2. CASE i = Len(w)
    BY <1>1, <1>2, <1>3, <2>1, <2>2
  <2>3. CASE i # Len(w)
    <3>1. w[i] # w[Len(w)] /\ w[i] \in DOMAIN next
      BY <1>1, <2>1, <2>3 DEF IsList
    <3>2. i < Len(w) /\ i + 1 \in 1..Len(w)
      BY <1>1, <2>1, <2>3
    <3> QED  BY <1>2, <1>3, <2>1, <3>1, <3>2 DEF IsList
  <2> QED  BY <2>2, <2>3
<1>7. v[1] = p /\ other[v[Len(v)]] \notin DOMAIN other
  <2>1. 1 \in 1..Len(w) /\ Len(w) \in 1..Len(w)
    BY <1>1
  <2> QED  BY <1>1, <1>2, <1>3, <2>1
<1> QED  BY <1>2, <1>3, <1>5, <1>6, <1>7 DEF IsList, v, other

-----------------------------------------------------------------------------
(* Lists and the sets of their nodes *)

\* The pointers from p on spell out the nodes of S, and end.
Spells(p, next, S) ==
  IsList(NodesFrom(p, next), p, next) /\ ToSet(NodesFrom(p, next)) = S

\* What IsList says of the sequence itself.
LEMMA ListFacts ==
  ASSUME NEW w, NEW p, NEW next, IsList(w, p, next)
  PROVE  /\ w \in Seq(DOMAIN next) /\ Len(w) \in Nat /\ DOMAIN w = 1..Len(w)
         /\ ToSet(w) = {w[i] : i \in 1..Len(w)}
         /\ ToSet(w) \subseteq DOMAIN next
         /\ IsInjective(w)
         /\ w = <<>> <=> Len(w) = 0
<1>1. w \in Seq(DOMAIN next) /\ Len(w) \in Nat /\ DOMAIN w = 1..Len(w) /\ (w = <<>> <=> Len(w) = 0)
  BY DEF IsList
<1>2. ToSet(w) = {w[i] : i \in 1..Len(w)}
  BY <1>1 DEF ToSet
<1>3. ToSet(w) \subseteq DOMAIN next
  BY <1>1, <1>2
<1>4. IsInjective(w)
  BY <1>1 DEF IsList, IsInjective
<1> QED  BY <1>1, <1>2, <1>3, <1>4

\* A list that a sequence of distinct nodes traces is spelled by their set.
LEMMA ListSpells ==
  ASSUME NEW p, NEW next, IsFiniteSet(DOMAIN next), NEW w, IsList(w, p, next),
         NEW S, ToSet(w) = S
  PROVE  Spells(p, next, S) /\ NodesFrom(p, next) = w
BY ListIsNodesFrom DEF Spells

\* A list that spells S visits each node of S once.
LEMMA SpellsExactly ==
  ASSUME NEW p, NEW next, NEW S, Spells(p, next, S)
  PROVE  Exactly(NodesFrom(p, next), S) /\ S \subseteq DOMAIN next
BY ListFacts DEF Spells, Exactly

\* The null pointer spells the empty list.
LEMMA SpellsNull ==
  ASSUME NEW p, NEW next, IsFiniteSet(DOMAIN next), p \notin DOMAIN next
  PROVE  /\ Spells(p, next, {}) /\ NodesFrom(p, next) = <<>>
         /\ \A S : Spells(p, next, S) => S = {}
<1>1. IsList(<<>>, p, next) /\ ToSet(<<>>) = {}
  BY DEF IsList, ToSet
<1>2. Spells(p, next, {}) /\ NodesFrom(p, next) = <<>>
  BY <1>1, ListSpells
<1> QED  BY <1>1, <1>2 DEF Spells

\* A pointer of a node outside S does not matter.
LEMMA SpellsKept ==
  ASSUME NEW p, NEW next, NEW S, Spells(p, next, S), IsFiniteSet(DOMAIN next),
         NEW other, DOMAIN other = DOMAIN next, \A n \in S : other[n] = next[n]
  PROVE  Spells(p, other, S) /\ NodesFrom(p, other) = NodesFrom(p, next)
<1> DEFINE w == NodesFrom(p, next)
<1>1. IsList(w, p, next) /\ ToSet(w) = S
  BY DEF Spells
<1> HIDE DEF w
<1>2. \A i \in 1..Len(w) : other[w[i]] = next[w[i]]
  BY <1>1, ListFacts
<1>3. IsList(w, p, other)
  BY <1>1, <1>2, ListKept
<1> QED  BY <1>1, <1>3, ListSpells DEF w

\* A node put in front of the list.
LEMMA SpellsCons ==
  ASSUME NEW p, NEW next, NEW S, Spells(p, next, S), IsFiniteSet(DOMAIN next),
         NEW n \in DOMAIN next, n \notin S, next[n] = p
  PROVE  /\ Spells(n, next, S \cup {n})
         /\ NodesFrom(n, next) = <<n>> \o NodesFrom(p, next)
<1> DEFINE w == NodesFrom(p, next)
           v == <<n>> \o w
<1>1. IsList(w, p, next) /\ ToSet(w) = S
  BY DEF Spells
<1>2. /\ w \in Seq(DOMAIN next) /\ Len(w) \in Nat
      /\ ToSet(w) = {w[i] : i \in 1..Len(w)}
  BY <1>1, ListFacts
<1> HIDE DEF w
<1>3. \A i \in 1..Len(w) : w[i] # n
  BY <1>1, <1>2
<1>4. IsList(v, n, next)
  BY <1>1, <1>3, ListCons
<1>5. ToSet(v) = S \cup {n}
  <2>1. /\ Len(v) = Len(w) + 1 /\ v[1] = n
        /\ \A i \in 1..Len(w) : v[i + 1] = w[i]
    BY <1>2
  <2>2. ToSet(v) = {v[i] : i \in 1..Len(v)}
    BY <1>4, ListFacts
  <2> HIDE DEF v
  <2>3. \A i \in 1..Len(v) : v[i] \in S \cup {n}
    <3> SUFFICES ASSUME NEW i \in 1..Len(v), i # 1 PROVE v[i] \in S
      BY <2>1
    <3>1. i - 1 \in 1..Len(w) /\ (i - 1) + 1 = i
      BY <1>2, <2>1
    <3> QED  BY <1>1, <1>2, <2>1, <3>1
  <2>4. \A m \in S : \E i \in 1..Len(v) : v[i] = m
    <3> SUFFICES ASSUME NEW m \in S PROVE \E i \in 1..Len(v) : v[i] = m
      OBVIOUS
    <3>1. PICK i \in 1..Len(w) : w[i] = m
      BY <1>1, <1>2
    <3>2. i + 1 \in 1..Len(v)
      BY <1>2, <2>1
    <3> QED  BY <2>1, <3>1, <3>2
  <2>5. 1 \in 1..Len(v)
    BY <1>2, <2>1
  <2> QED  BY <2>1, <2>2, <2>3, <2>4, <2>5
<1> HIDE DEF v
<1>6. Spells(n, next, S \cup {n}) /\ NodesFrom(n, next) = v
  BY <1>4, <1>5, ListSpells
<1> QED  BY <1>6 DEF v, w

\* The list without its first node.
LEMMA SpellsTail ==
  ASSUME NEW p, NEW next, NEW S, Spells(p, next, S), IsFiniteSet(DOMAIN next), p \in DOMAIN next
  PROVE  /\ p \in S
         /\ Spells(next[p], next, S \ {p})
         /\ NodesFrom(next[p], next) = Tail(NodesFrom(p, next))
         /\ NodesFrom(p, next) # <<>> /\ NodesFrom(p, next)[1] = p
<1> DEFINE w == NodesFrom(p, next)
           v == Tail(w)
<1>1. IsList(w, p, next) /\ ToSet(w) = S
  BY DEF Spells
<1>2. /\ w \in Seq(DOMAIN next) /\ Len(w) \in Nat
      /\ ToSet(w) = {w[i] : i \in 1..Len(w)}
  BY <1>1, ListFacts
<1> HIDE DEF w
<1>3. w # <<>> /\ w[1] = p
  BY <1>1 DEF IsList
<1>4. IsList(v, next[p], next) /\ \A i \in 1..Len(v) : v[i] # p
  BY <1>1, <1>3, ListTail
<1>5. ToSet(v) = S \ {p}
  <2>1. /\ Len(w) > 0 /\ Len(v) = Len(w) - 1
        /\ \A i \in 1..Len(v) : v[i] = w[i + 1]
    BY <1>2, <1>3
  <2>2. ToSet(v) = {v[i] : i \in 1..Len(v)}
    BY <1>4, ListFacts
  <2> HIDE DEF v
  <2>3. \A i \in 1..Len(v) : v[i] \in S \ {p}
    <3> SUFFICES ASSUME NEW i \in 1..Len(v) PROVE v[i] \in S
      BY <1>4
    <3>1. i + 1 \in 1..Len(w)
      BY <1>2, <2>1
    <3> QED  BY <1>1, <1>2, <2>1, <3>1
  <2>4. \A m \in S \ {p} : \E i \in 1..Len(v) : v[i] = m
    <3> SUFFICES ASSUME NEW m \in S \ {p} PROVE \E i \in 1..Len(v) : v[i] = m
      OBVIOUS
    <3>1. PICK i \in 1..Len(w) : w[i] = m
      BY <1>1, <1>2
    <3>2. i # 1
      BY <1>3, <3>1
    <3>3. i - 1 \in 1..Len(v) /\ (i - 1) + 1 = i
      BY <1>2, <2>1, <3>2
    <3> QED  BY <2>1, <3>1, <3>3
  <2> QED  BY <2>2, <2>3, <2>4
<1> HIDE DEF v
<1>6. Spells(next[p], next, S \ {p}) /\ NodesFrom(next[p], next) = v
  BY <1>4, <1>5, ListSpells
<1>7. p \in S
  <2>1. 1 \in 1..Len(w)
    BY <1>2, <1>3
  <2> QED  BY <1>1, <1>2, <1>3, <2>1
<1> QED  BY <1>3, <1>6, <1>7 DEF v, w

\* A list put in front of another one: its last node, which ends it when its
\* pointer is taken to be null, points to the first node of the other list.
LEMMA SpellsConcat ==
  ASSUME NEW p, NEW next, NEW S, NEW T, NEW null, NEW last \in S,
         IsFiniteSet(DOMAIN next), null \notin DOMAIN next,
         Spells(p, [next EXCEPT ![last] = null], S),
         Spells(next[last], next, T), S \cap T = {}
  PROVE  Spells(p, next, S \cup T)
<1> DEFINE cut == [next EXCEPT ![last] = null]
           w == NodesFrom(p, cut)
           v == NodesFrom(next[last], next)
           u == w \o v
<1>1. /\ IsList(w, p, cut) /\ ToSet(w) = S
      /\ IsList(v, next[last], next) /\ ToSet(v) = T
  BY DEF Spells
<1>2. /\ DOMAIN cut = DOMAIN next
      /\ \A n \in DOMAIN next : n # last => cut[n] = next[n]
      /\ last \in DOMAIN next => cut[last] = null
  OBVIOUS
<1> HIDE DEF w, v, cut
<1>3. /\ w \in Seq(DOMAIN next) /\ Len(w) \in Nat
      /\ v \in Seq(DOMAIN next) /\ Len(v) \in Nat
      /\ S = {w[i] : i \in 1..Len(w)} /\ T = {v[i] : i \in 1..Len(v)}
      /\ w = <<>> <=> Len(w) = 0
      /\ v = <<>> <=> Len(v) = 0
      /\ S \subseteq DOMAIN next
  BY <1>1, <1>2, ListFacts
<1>4. Len(w) > 0 /\ w[Len(w)] = last
  <2>1. PICK i \in 1..Len(w) : w[i] = last
    BY <1>3
  <2>2. ~(i < Len(w))
    <3> SUFFICES ASSUME i < Len(w) PROVE FALSE
      OBVIOUS
    <3>1. cut[last] = w[i + 1] /\ i + 1 \in 1..Len(w)
      BY <1>1, <1>3, <2>1 DEF IsList
    <3>2. w[i + 1] \in DOMAIN next
      BY <1>3, <3>1
    <3> QED  BY <1>2, <1>3, <3>1, <3>2
  <2> QED  BY <1>3, <2>1, <2>2
<1>5. /\ u \in Seq(DOMAIN next) /\ Len(u) = Len(w) + Len(v)
      /\ \A i \in 1..Len(w) : u[i] = w[i]
      /\ \A i \in 1..Len(v) : u[Len(w) + i] = v[i]
  <2>1. /\ u \in Seq(DOMAIN next) /\ Len(u) = Len(w) + Len(v)
        /\ \A i \in 1..(Len(w) + Len(v)) : u[i] = IF i <= Len(w) THEN w[i] ELSE v[i - Len(w)]
    BY <1>3, ConcatProperties
  <2>2. \A i \in 1..Len(w) : i \in 1..(Len(w) + Len(v)) /\ i <= Len(w)
    BY <1>3
  <2>3. \A i \in 1..Len(v) : /\ Len(w) + i \in 1..(Len(w) + Len(v)) /\ ~(Len(w) + i <= Len(w))
                             /\ (Len(w) + i) - Len(w) = i
    BY <1>3
  <2> HIDE DEF u
  <2> QED  BY <2>1, <2>2, <2>3
<1> HIDE DEF u
<1>6. ASSUME NEW i \in 1..Len(u)
      PROVE  \/ i \in 1..Len(w) /\ u[i] = w[i] /\ u[i] \in S
             \/ i > Len(w) /\ i - Len(w) \in 1..Len(v) /\ u[i] = v[i - Len(w)] /\ u[i] \in T
  <2>1. CASE i <= Len(w)
    <3>1. i \in 1..Len(w)
      BY <1>3, <2>1
    <3> QED  BY <1>3, <1>5, <3>1
  <2>2. CASE i > Len(w)
    <3>1. i - Len(w) \in 1..Len(v) /\ Len(w) + (i - Len(w)) = i
      BY <1>3, <1>5, <2>2
    <3> QED  BY <1>3, <1>5, <2>2, <3>1
  <2> QED  BY <1>3, <2>1, <2>2
<1>7. ASSUME NEW i \in 1..Len(u), NEW j \in 1..Len(u), u[i] = u[j] PROVE i = j
  <2>1. CASE i \in 1..Len(w) /\ j \in 1..Len(w)
    BY <1>1, <1>5, <1>7, <2>1 DEF IsList
  <2>2. CASE i > Len(w) /\ j > Len(w)
    <3>1. /\ i - Len(w) \in 1..Len(v) /\ u[i] = v[i - Len(w)]
          /\ j - Len(w) \in 1..Len(v) /\ u[j] = v[j - Len(w)]
      <4>1. i \notin 1..Len(w) /\ j \notin 1..Len(w)
        BY <1>3, <2>2
      <4> QED  BY <1>6, <4>1
    <3>2. i - Len(w) = j - Len(w)
      BY <1>1, <1>7, <3>1 DEF IsList
    <3> QED  BY <1>3, <2>2, <3>2
  <2> QED  BY <1>3, <1>6, <1>7, <2>1, <2>2
<1>8. ASSUME NEW i \in 1..Len(u), i < Len(u) PROVE next[u[i]] = u[i + 1]
  <2>1. CASE i < Len(w)
    <3>1. i \in 1..Len(w) /\ i + 1 \in 1..Len(w) /\ Len(w) \in 1..Len(w) /\ i # Len(w)
      BY <1>3, <2>1
    <3>2. w[i] # last
      BY <1>1, <1>4, <3>1 DEF IsList
    <3>3. cut[w[i]] = w[i + 1] /\ w[i] \in DOMAIN next
      BY <1>1, <1>3, <2>1, <3>1 DEF IsList
    <3> QED  BY <1>2, <1>5, <3>1, <3>2, <3>3
  <2>2. CASE i = Len(w)
    <3>1. i \in 1..Len(w) /\ 1 \in 1..Len(v) /\ v # <<>>
      BY <1>3, <1>4, <1>5, <1>8, <2>2
    <3>2. u[i] = last /\ u[i + 1] = v[1]
      BY <1>4, <1>5, <2>2, <3>1
    <3> QED  BY <1>1, <3>1, <3>2 DEF IsList
  <2>3. CASE i > Len(w)
    <3> DEFINE k == i - Len(w)
    <3>0. i \in Nat /\ Len(u) = Len(w) + Len(v) /\ i < Len(u)
      BY <1>3, <1>5, <1>8
    <3>1. /\ k \in 1..Len(v) /\ k < Len(v) /\ k + 1 \in 1..Len(v)
          /\ Len(w) + k = i /\ Len(w) + (k + 1) = i + 1
      BY ONLY <1>3, <2>3, <3>0
    <3> HIDE DEF k
    <3>2. u[i] = v[k] /\ u[i + 1] = v[k + 1]
      BY <1>5, <3>1
    <3> QED  BY <1>1, <3>1, <3>2 DEF IsList
  <2> QED  BY <1>3, <2>1, <2>2, <2>3
<1>9. u # <<>> /\ u[1] = p /\ next[u[Len(u)]] \notin DOMAIN next
  <2>1. 1 \in 1..Len(w) /\ Len(w) \in 1..Len(w) /\ u[1] = w[1] /\ Len(u) > 0
    BY <1>3, <1>4, <1>5
  <2>2. u # <<>> /\ u[1] = p
    BY <1>1, <1>3, <1>4, <2>1 DEF IsList
  <2>3. CASE Len(v) = 0
    <3>1. Len(u) = Len(w) /\ u[Len(u)] = last /\ v = <<>>
      BY <1>3, <1>4, <1>5, <2>1, <2>3
    <3> QED  BY <1>1, <2>2, <3>1 DEF IsList
  <2>4. CASE Len(v) # 0
    <3>0. Len(v) \in 1..Len(v) /\ v # <<>>
      BY <1>3, <2>4
    <3>1. Len(v) \in 1..Len(v) /\ u[Len(u)] = v[Len(v)] /\ v # <<>>
      BY <1>5, <3>0
    <3> QED  BY <1>1, <2>2, <3>1 DEF IsList
  <2> QED  BY <2>3, <2>4
<1>10. IsList(u, p, next)
  BY <1>5, <1>7, <1>8, <1>9 DEF IsList
<1>11. ToSet(u) = S \cup T
  <2>1. ToSet(u) = {u[i] : i \in 1..Len(u)}
    BY <1>10, ListFacts
  <2>2. \A m \in S : \E i \in 1..Len(u) : u[i] = m
    <3> SUFFICES ASSUME NEW m \in S PROVE \E i \in 1..Len(u) : u[i] = m
      OBVIOUS
    <3>1. PICK i \in 1..Len(w) : w[i] = m
      BY <1>3
    <3>2. i \in 1..Len(u)
      BY <1>3, <1>5
    <3> QED  BY <1>5, <3>1, <3>2
  <2>3. \A m \in T : \E i \in 1..Len(u) : u[i] = m
    <3> SUFFICES ASSUME NEW m \in T PROVE \E i \in 1..Len(u) : u[i] = m
      OBVIOUS
    <3>1. PICK i \in 1..Len(v) : v[i] = m
      BY <1>3
    <3>2. Len(w) + i \in 1..Len(u)
      BY <1>3, <1>5
    <3> QED  BY <1>5, <3>1, <3>2
  <2> QED  BY <1>6, <2>1, <2>2, <2>3
<1> QED  BY <1>10, <1>11, ListSpells

-----------------------------------------------------------------------------
(* The values that the nodes of a list hold *)

\* A function on 1..k is a sequence of length k.
LEMMA FunctionIsSeq ==
  ASSUME NEW k \in Nat, NEW S, NEW f \in [1..k -> S]
  PROVE  f \in Seq(S) /\ Len(f) = k
OBVIOUS

\* One value more at the end.
LEMMA SeqAppend ==
  ASSUME NEW k \in Nat \ {0}, NEW S, NEW g \in [1..k -> S], NEW f \in [1..(k - 1) -> S],
         \A i \in 1..(k - 1) : f[i] = g[i]
  PROVE  g = Append(f, g[k])
<1>1. g \in Seq(S) /\ Len(g) = k /\ f \in Seq(S) /\ Len(f) = k - 1 /\ g[k] \in S
  BY FunctionIsSeq
<1>2. /\ Append(f, g[k]) \in Seq(S) /\ Len(Append(f, g[k])) = k
      /\ \A i \in 1..k : Append(f, g[k])[i] = IF i = k THEN g[k] ELSE f[i]
  BY <1>1, AppendProperties
<1>3. \A i \in 1..k : g[i] = Append(f, g[k])[i]
  BY <1>2
<1> QED  BY <1>1, <1>2, <1>3, SeqEqual

\* One value more at the front.
LEMMA SeqCons ==
  ASSUME NEW k \in Nat \ {0}, NEW S, NEW g \in [1..k -> S], NEW f \in [1..(k - 1) -> S],
         \A i \in 1..(k - 1) : f[i] = g[i + 1]
  PROVE  g = <<g[1]>> \o f /\ g # <<>> /\ Head(g) = g[1] /\ Tail(g) = f
<1> DEFINE h == <<g[1]>> \o f
<1>1. /\ g \in Seq(S) /\ Len(g) = k /\ f \in Seq(S) /\ Len(f) = k - 1
      /\ <<g[1]>> \in Seq(S) /\ Len(<<g[1]>>) = 1
  BY FunctionIsSeq
<1>2. h \in Seq(S) /\ Len(h) = k
  BY <1>1, ConcatProperties
<1>3. ASSUME NEW i \in 1..k PROVE g[i] = h[i]
  <2>1. h[i] = IF i <= 1 THEN <<g[1]>>[i] ELSE f[i - 1]
    BY <1>1, ConcatProperties
  <2>2. CASE i = 1
    BY <2>1, <2>2
  <2>3. CASE i # 1
    <3>1. i - 1 \in 1..(k - 1) /\ (i - 1) + 1 = i /\ ~(i <= 1)
      BY <2>3
    <3> QED  BY <2>1, <3>1
  <2> QED  BY <2>2, <2>3
<1>4. g = h
  <2> HIDE DEF h
  <2> QED  BY <1>1, <1>2, <1>3, SeqEqual
<1>5. g # <<>>
  BY <1>1
<1>6. Head(g) = g[1]
  BY <1>1, <1>5
<1>7. Tail(g) \in Seq(S) /\ Len(Tail(g)) = k - 1 /\ \A i \in 1..(k - 1) : Tail(g)[i] = g[i + 1]
  BY <1>1, <1>5, HeadTailProperties
<1>8. Tail(g) = f
  BY <1>1, <1>7, SeqEqual
<1> QED  BY <1>4, <1>5, <1>6, <1>8

\* A node in front of the list is a value in front of the sequence.
LEMMA ValuesCons ==
  ASSUME NEW N, NEW val, NEW n \in N, NEW w \in Seq(N), NEW v, v = <<n>> \o w
  PROVE  [i \in DOMAIN v |-> val[v[i]]] = <<val[n]>> \o [i \in DOMAIN w |-> val[w[i]]]
<1> DEFINE S == {val[m] : m \in N}
           g == [i \in DOMAIN v |-> val[v[i]]]
           f == [i \in DOMAIN w |-> val[w[i]]]
           k == Len(w) + 1
<1>1. Len(w) \in Nat /\ DOMAIN w = 1..Len(w) /\ k \in Nat \ {0} /\ k - 1 = Len(w)
  OBVIOUS
<1>2. v \in Seq(N) /\ Len(v) = k /\ DOMAIN v = 1..k /\ v[1] = n /\ \A i \in 1..Len(w) : v[i + 1] = w[i]
  BY <1>1
<1>3. g \in [1..k -> S] /\ f \in [1..(k - 1) -> S]
  BY <1>1, <1>2
<1>4. \A i \in 1..(k - 1) : f[i] = g[i + 1]
  <2>1. \A i \in 1..(k - 1) : i + 1 \in 1..k
    BY <1>1
  <2> QED  BY <1>1, <1>2, <2>1
<1>5. g[1] = val[n]
  <2>1. 1 \in 1..k
    BY <1>1
  <2> QED  BY <1>2, <2>1
<1> HIDE DEF S, g, f, k
<1>6. g = <<g[1]>> \o f
  BY <1>1, <1>3, <1>4, SeqCons
<1> QED  BY <1>5, <1>6 DEF g, f

\* One node less at the front is one value less in the sequence.
LEMMA ValuesTail ==
  ASSUME NEW N, NEW val, NEW w \in Seq(N), w # <<>>
  PROVE  /\ [i \in DOMAIN w |-> val[w[i]]] # <<>>
         /\ Head([i \in DOMAIN w |-> val[w[i]]]) = val[w[1]]
         /\ Tail([i \in DOMAIN w |-> val[w[i]]]) = [i \in DOMAIN Tail(w) |-> val[Tail(w)[i]]]
<1> DEFINE S == {val[m] : m \in N}
           u == Tail(w)
           g == [i \in DOMAIN w |-> val[w[i]]]
           f == [i \in DOMAIN u |-> val[u[i]]]
           k == Len(w)
<1>1. k \in Nat \ {0} /\ DOMAIN w = 1..k
  OBVIOUS
<1>2. u \in Seq(N) /\ Len(u) = k - 1 /\ DOMAIN u = 1..(k - 1) /\ \A i \in 1..(k - 1) : u[i] = w[i + 1]
  <2>1. u \in Seq(N) /\ Len(u) = k - 1 /\ \A i \in 1..Len(u) : u[i] = w[i + 1]
    BY HeadTailProperties
  <2> HIDE DEF u, k
  <2> QED  BY <2>1
<1> HIDE DEF u
<1>3. g \in [1..k -> S] /\ f \in [1..(k - 1) -> S]
  BY <1>1, <1>2
<1>4. \A i \in 1..(k - 1) : f[i] = g[i + 1]
  <2>1. \A i \in 1..(k - 1) : i + 1 \in 1..k
    BY <1>1
  <2> QED  BY <1>1, <1>2, <2>1
<1>5. g[1] = val[w[1]]
  BY <1>1
<1> HIDE DEF S, g, f, k
<1>6. g # <<>> /\ Head(g) = g[1] /\ Tail(g) = f
  BY <1>1, <1>3, <1>4, SeqCons
<1> QED  BY <1>5, <1>6 DEF g, f, u
=============================================================================
