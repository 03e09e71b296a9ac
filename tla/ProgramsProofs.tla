--------------------------- MODULE ProgramsProofs ---------------------------
(***************************************************************************)
(* The small programs, for arrays of any length and any numbers, any list  *)
(* and any consumers: every sort is right at each of its steps, the calls  *)
(* of quick_sort.cpp lose and misplace nothing, and no thread of           *)
(* future.cpp outlives the function that started it.                       *)
(***************************************************************************)
EXTENDS Programs, FiniteSetTheorems, SequenceTheorems, WellFoundedInduction, TLAPS

-----------------------------------------------------------------------------
(* Rearranged arrays *)

\* A way to rearrange what is at the places of D.
Rearrangement(f, D) == /\ f \in [D -> D]
                       /\ \A x, y \in D : f[x] = f[y] => x = y
                       /\ \A y \in D : \E x \in D : f[x] = y

\* b holds what c holds, in some order.
Permutes(b, c) == /\ DOMAIN b = DOMAIN c
                  /\ \E f : /\ Rearrangement(f, DOMAIN c)
                            /\ b = [x \in DOMAIN c |-> c[f[x]]]

\* An array is a rearrangement of itself.
LEMMA PermutesItself ==
  ASSUME NEW D, NEW T, NEW c \in [D -> T]
  PROVE  Permutes(c, c)
<1> DEFINE f == [x \in D |-> x]
<1>1. Rearrangement(f, D)
  BY DEF Rearrangement
<1>2. c = [x \in D |-> c[f[x]]]
  OBVIOUS
<1>3. DOMAIN c = D
  OBVIOUS
<1> HIDE DEF f
<1>4. QED
  BY <1>1, <1>2, <1>3 DEF Permutes

\* A rearrangement of a rearrangement is one.
LEMMA PermutesAgain ==
  ASSUME NEW D, NEW T, NEW c \in [D -> T], NEW b, Permutes(b, c),
         NEW g, Rearrangement(g, D)
  PROVE  /\ b \in [D -> T]
         /\ Permutes([x \in D |-> b[g[x]]], c)
<1>1. DOMAIN c = D
  OBVIOUS
<1>2. PICK f : Rearrangement(f, D) /\ b = [x \in D |-> c[f[x]]]
  BY <1>1 DEF Permutes
<1> DEFINE h == [x \in D |-> f[g[x]]]
           d == [x \in D |-> b[g[x]]]
<1>3. f \in [D -> D] /\ g \in [D -> D]
  BY <1>2 DEF Rearrangement
<1>4. Rearrangement(h, D)
  <2>1. h \in [D -> D]
    BY <1>3
  <2>2. ASSUME NEW x \in D, NEW y \in D, h[x] = h[y] PROVE x = y
    <3>1. f[g[x]] = f[g[y]] /\ g[x] \in D /\ g[y] \in D
      BY <2>2, <1>3
    <3>2. g[x] = g[y]
      BY <3>1, <1>2 DEF Rearrangement
    <3>3. QED
      BY <3>2 DEF Rearrangement
  <2>3. ASSUME NEW y \in D PROVE \E x \in D : h[x] = y
    <3>1. PICK z \in D : f[z] = y
      BY <1>2 DEF Rearrangement
    <3>2. PICK x \in D : g[x] = z
      BY DEF Rearrangement
    <3>3. QED
      BY <3>1, <3>2
  <2> HIDE DEF h
  <2>4. QED
    BY <2>1, <2>2, <2>3 DEF Rearrangement
<1>5. d = [x \in D |-> c[h[x]]]
  BY <1>2, <1>3
<1>6. b \in [D -> T]
  BY <1>2, <1>3
<1>7. DOMAIN d = D
  OBVIOUS
<1> HIDE DEF h, d
<1>8. Permutes(d, c)
  BY <1>1, <1>4, <1>5, <1>7 DEF Permutes
<1>9. QED
  BY <1>6, <1>8 DEF d

\* A rearrangement holds values of the same kind.
LEMMA PermutesType ==
  ASSUME NEW D, NEW T, NEW c \in [D -> T], NEW b, Permutes(b, c)
  PROVE  b \in [D -> T]
<1>1. PICK f : Rearrangement(f, D) /\ b = [x \in D |-> c[f[x]]]
  BY DEF Permutes
<1>2. QED
  BY <1>1 DEF Rearrangement

\* Exchanging two elements rearranges.
LEMMA PermutesSwapped ==
  ASSUME NEW D, NEW T, NEW c \in [D -> T], NEW b, Permutes(b, c),
         NEW x \in D, NEW y \in D
  PROVE  Permutes([b EXCEPT ![x] = b[y], ![y] = b[x]], c)
<1> DEFINE g == [z \in D |-> IF z = x THEN y ELSE IF z = y THEN x ELSE z]
<1>1. Rearrangement(g, D)
  <2>1. g \in [D -> D] /\ \A v, w \in D : g[v] = g[w] => v = w
    OBVIOUS
  <2>2. \A v \in D : g[v] \in D /\ g[g[v]] = v
    OBVIOUS
  <2> HIDE DEF g
  <2>3. QED
    BY <2>1, <2>2 DEF Rearrangement
<1>2. b \in [D -> T]
  BY PermutesType
<1>3. [b EXCEPT ![x] = b[y], ![y] = b[x]] = [z \in D |-> b[g[z]]]
  BY <1>2
<1> HIDE DEF g
<1>4. Permutes([z \in D |-> b[g[z]]], c)
  BY <1>1, PermutesAgain
<1>5. QED
  BY <1>3, <1>4

\* The places of D where b holds a value of S.
Holding(b, D, S) == {x \in D : b[x] \in S}

\* A rearrangement holds as many values of a kind.
LEMMA PermutesCount ==
  ASSUME NEW D, NEW T, NEW c \in [D -> T], NEW b, Permutes(b, c), IsFiniteSet(D), NEW S
  PROVE  /\ IsFiniteSet(Holding(b, D, S)) /\ IsFiniteSet(Holding(c, D, S))
         /\ Cardinality(Holding(b, D, S)) = Cardinality(Holding(c, D, S))
<1> DEFINE B == Holding(b, D, S)
           C == Holding(c, D, S)
<1> USE DEF Holding
<1>1. PICK f : Rearrangement(f, D) /\ b = [x \in D |-> c[f[x]]]
  BY DEF Permutes
<1>2. f \in [D -> D] /\ \A x \in D : b[x] = c[f[x]] /\ f[x] \in D
  BY <1>1 DEF Rearrangement
<1> DEFINE g == [x \in B |-> f[x]]
<1>3. g \in [B -> C]
  BY <1>2
<1>4. \A x, y \in B : g[x] = g[y] => x = y
  BY <1>1 DEF Rearrangement
<1>5. \A y \in C : \E x \in B : g[x] = y
  <2> TAKE y \in C
  <2>1. PICK x \in D : f[x] = y
    BY <1>1 DEF Rearrangement
  <2>2. x \in B
    BY <2>1, <1>2
  <2>3. QED
    BY <2>1, <2>2
<1>6. IsFiniteSet(B) /\ IsFiniteSet(C)
  BY FS_Subset
<1> HIDE DEF B, C, g, Holding
<1>7. g \in Bijection(B, C)
  BY <1>3, <1>4, <1>5 DEF Bijection, Injection, Surjection, IsInjective
<1>8. ExistsBijection(B, C)
  BY <1>7 DEF ExistsBijection
<1>9. Cardinality(B) = Cardinality(C)
  BY <1>6, <1>8, FS_Bijection
<1>10. QED
  BY <1>6, <1>9 DEF B, C

-----------------------------------------------------------------------------
(* Sorted arrays *)

Indices == 0 .. n - 1

\* Nothing before place k of b is greater, and nothing behind it is less.
Placed(b, k) == \A x \in Indices : (x < k => b[x] <= b[k]) /\ (k < x => b[k] <= b[x])

\* The array a program is given has numbers at the indices from 0 to n - 1.
LEMMA ArraySize ==
  ASSUME input \in Arrays
  PROVE  n \in Nat /\ input \in [Indices -> Numbers] /\ input \in [Indices -> Int] /\ IsFiniteSet(Indices)
<1>1. PICK len \in 0..MaxLen : input \in [0..len - 1 -> Numbers]
  BY DEF Arrays
<1>2. len \in Nat /\ DOMAIN input = 0..len - 1
  BY <1>1, ArrayAssumption
<1>3. /\ IsFiniteSet(0..len - 1)
      /\ Cardinality(0..len - 1) = IF 0 > len - 1 THEN 0 ELSE len - 1 - 0 + 1
  BY <1>2, FS_Interval
<1>4. n = len
  BY <1>2, <1>3 DEF n
<1>5. QED
  BY <1>1, <1>2, <1>3, <1>4, ArrayAssumption DEF Indices

\* An interval from 0 has as many members as its end.
LEMMA BeforeSize ==
  ASSUME NEW k \in Nat
  PROVE  IsFiniteSet(0..k - 1) /\ Cardinality(0..k - 1) = k
<1>1. Cardinality(0..k - 1) = IF 0 > k - 1 THEN 0 ELSE k - 1 - 0 + 1
  BY FS_Interval
<1>2. QED
  BY <1>1, FS_Interval

\* What is in order with everything before and behind it is what the sorted
\* array holds there.
LEMMA PlacedBelongs ==
  ASSUME input \in Arrays, NEW b, Permutes(b, input), NEW k \in Indices, Placed(b, k)
  PROVE  Belongs(b[k], k)
<1>1. n \in Nat /\ input \in [Indices -> Int] /\ IsFiniteSet(Indices)
  BY ArraySize
<1>2. b \in [Indices -> Int]
  BY <1>1, PermutesType
<1> DEFINE less == {z \in Int : z < b[k]}
           upto == {z \in Int : z <= b[k]}
           Those(c, S) == Holding(c, Indices, S)
<1>3. k \in Nat /\ k < n /\ b[k] \in Int
  BY <1>1, <1>2 DEF Indices
<1>4. /\ IsFiniteSet(Those(input, less)) /\ Cardinality(Those(b, less)) = Cardinality(Those(input, less))
      /\ IsFiniteSet(Those(input, upto)) /\ Cardinality(Those(b, upto)) = Cardinality(Those(input, upto))
      /\ IsFiniteSet(Those(b, upto))
  BY <1>1, PermutesCount
<1>5. Those(b, less) \subseteq 0..k - 1
  <2> SUFFICES ASSUME NEW x \in Indices, b[x] < b[k] PROVE x \in 0..k - 1
    BY <1>3 DEF Holding
  <2>1. x \in Int /\ x >= 0 /\ b[x] \in Int
    BY <1>1, <1>2 DEF Indices
  <2>2. ~(k <= x)
    BY <2>1, <1>3 DEF Placed
  <2>3. QED
    BY <2>1, <2>2, <1>3
<1>6. 0..k \subseteq Those(b, upto)
  <2> SUFFICES ASSUME NEW x \in 0..k PROVE x \in Indices /\ b[x] \in Int /\ b[x] <= b[k]
    BY DEF Holding
  <2>1. x \in Indices /\ b[x] \in Int
    BY <1>1, <1>2, <1>3 DEF Indices
  <2>2. QED
    BY <2>1, <1>3 DEF Placed
<1>7. /\ {m \in DOMAIN input : input[m] < b[k]} = Those(input, less)
      /\ {m \in DOMAIN input : input[m] <= b[k]} = Those(input, upto)
  BY <1>1 DEF Holding
<1> HIDE DEF less, upto, Those
<1>8. Cardinality(Those(b, less)) <= k
  BY <1>3, <1>5, BeforeSize, FS_Subset
<1>9. k + 1 <= Cardinality(Those(b, upto))
  <2>1. Cardinality(0..k + 1 - 1) = k + 1 /\ k + 1 - 1 = k
    BY <1>3, BeforeSize
  <2>2. Cardinality(0..k) = k + 1
    BY <2>1
  <2>3. QED
    BY <2>2, <1>4, <1>6, FS_Subset
<1>10. Cardinality(Those(b, less)) \in Int /\ Cardinality(Those(b, upto)) \in Int
  BY <1>4, FS_CardinalityType
<1>11. QED
  BY <1>3, <1>4, <1>7, <1>8, <1>9, <1>10 DEF Belongs

\* A rearranged array, in order at the places a program is done with, is what
\* a sorting program promises.
LEMMA PlacedSorting ==
  ASSUME input \in Arrays, NEW finished, finished \subseteq Indices,
         NEW whole, Permutes(whole, input),
         \A k \in finished : Placed(whole, k) /\ whole[k] = arr[k]
  PROVE  Sorting(finished, whole)
<1>1. n \in Nat /\ input \in [Indices -> Int] /\ IsFiniteSet(Indices)
  BY ArraySize
<1>2. whole \in [Indices -> Int]
  BY <1>1, PermutesType
<1>3. ASSUME NEW k \in finished PROVE Belongs(arr[k], k)
  <2>1. Belongs(whole[k], k)
    BY PlacedBelongs
  <2>2. QED
    BY <2>1
<1>4. ASSUME NEW v \in Numbers PROVE Count(v, whole) = Count(v, input)
  <2>1. Cardinality(Holding(whole, Indices, {v})) = Cardinality(Holding(input, Indices, {v}))
    BY <1>1, PermutesCount
  <2>2. /\ Holding(whole, Indices, {v}) = {k \in DOMAIN whole : whole[k] = v}
        /\ Holding(input, Indices, {v}) = {k \in DOMAIN input : input[k] = v}
    BY <1>1, <1>2 DEF Holding
  <2>3. QED
    BY <2>1, <2>2 DEF Count
<1>5. QED
  BY <1>3, <1>4 DEF Sorting

-----------------------------------------------------------------------------
(* BubbleSort, InsertSort, SelectSort *)

\* The array of a sorting program holds what it was given.
InvKept(whole) == input \in Arrays /\ Permutes(whole, input)

\* The elements behind n - i are final, and what the inner loop has passed is not
\* greater than the element it is at.
InvBubble ==
  /\ j >= 1 /\ (j = 1 \/ j <= n - i)
  /\ \A y \in Indices : n - i <= y => Placed(arr, y)
  /\ i < n => \A x \in Indices : x < j => arr[x] <= arr[j - 1]

\* What is in front of i is in order, and what is in front of j not greater than
\* the element at i, which is being inserted.
InvInsert ==
  /\ j \in 0..i
  /\ \A x, y \in Indices : x < y /\ y < i => arr[x] <= arr[y]
  /\ i < n => \A x \in Indices : x < j => arr[x] <= arr[i]

\* The elements in front of i are final, and indx is the least from i on to j.
InvSelect ==
  /\ \A x \in Indices : x < i => Placed(arr, x)
  /\ i < n => /\ j \in i + 1 .. n /\ indx \in i .. j - 1
              /\ \A x \in i .. j - 1 : arr[indx] <= arr[x]

LoopInv == /\ InvKept(arr)
           /\ i \in 0..n /\ j \in Int
           /\ program = "bubble" => InvBubble
           /\ program = "insert" => InvInsert
           /\ program = "select" => InvSelect

\* The loops start with the array they are given.
LEMMA LoopInitInv == LoopInit => LoopInv
<1> SUFFICES ASSUME LoopInit PROVE LoopInv
  OBVIOUS
<1>1. input \in Arrays /\ arr = input /\ i = 0
  BY DEF LoopInit, ArrayInit
<1>2. n \in Nat /\ input \in [Indices -> Int]
  BY <1>1, ArraySize
<1>3. InvKept(arr)
  BY <1>1, <1>2, PermutesItself DEF InvKept
<1>4. /\ \A x \in Indices : 0 <= x /\ x < n /\ x \in Int /\ arr[x] \in Int
      /\ 0 < n => 0 \in Indices
  BY <1>1, <1>2 DEF Indices
<1>5. CASE program = "bubble"
  <2>1. j = 1
    BY <1>5 DEF LoopInit
  <2>2. QED
    BY <1>1, <1>2, <1>3, <1>4, <1>5, <2>1 DEF LoopInv, InvBubble
<1>6. CASE program = "insert"
  BY <1>1, <1>2, <1>3, <1>4, <1>6 DEF LoopInit, LoopInv, InvInsert
<1>7. CASE program = "select"
  <2>1. j = 1 /\ indx = 0
    BY <1>7 DEF LoopInit
  <2>2. QED
    BY <1>1, <1>2, <1>3, <1>4, <1>7, <2>1 DEF LoopInv, InvSelect
<1>8. QED
  BY <1>5, <1>6, <1>7 DEF LoopInit, ArrayInit

\* What a swap leaves where.
LEMMA SwapIs ==
  ASSUME InvKept(arr), NEW x \in Indices, NEW y \in Indices, arr' = Swap(x, y),
         UNCHANGED <<program, input>>
  PROVE  /\ \A z \in Indices : arr'[z] = IF z = x THEN arr[y] ELSE IF z = y THEN arr[x] ELSE arr[z]
         /\ InvKept(arr)'
<1>1. input \in [Indices -> Int]
  BY ArraySize DEF InvKept
<1>2. arr \in [Indices -> Int]
  BY <1>1, PermutesType DEF InvKept
<1>3. Permutes(Swap(x, y), input)
  BY <1>1, PermutesSwapped DEF InvKept, Swap
<1>4. InvKept(Swap(x, y))
  BY <1>3 DEF InvKept
<1>5. InvKept(arr)'
  BY <1>4 DEF InvKept
<1>6. QED
  BY <1>2, <1>5 DEF Swap

\* The array has as many places after a step.
LEMMA SizeKept ==
  ASSUME InvKept(arr), UNCHANGED input
  PROVE  /\ n' = n /\ Indices' = Indices /\ n \in Nat
         /\ \A x \in Indices : x \in Int /\ 0 <= x /\ x < n /\ arr[x] \in Int
         /\ \A x \in Int : 0 <= x /\ x < n => x \in Indices
<1>1. n \in Nat /\ input \in [Indices -> Int]
  BY ArraySize DEF InvKept
<1>2. n' = n
  BY DEF n
<1>3. Indices' = Indices
  BY <1>2 DEF Indices
<1>4. arr \in [Indices -> Int]
  BY <1>1, PermutesType DEF InvKept
<1>5. QED
  BY <1>1, <1>2, <1>3, <1>4 DEF Indices

\* A turn of bubble sort's inner loop carries the largest element so far along.
LEMMA BubbleKeeps ==
  ASSUME LoopInv, program = "bubble", UNCHANGED <<program, input>>, BubbleInner \/ BubbleOuter
  PROVE  LoopInv'
<1>1. /\ n' = n /\ Indices' = Indices /\ n \in Nat
      /\ \A x \in Indices : x \in Int /\ 0 <= x /\ x < n /\ arr[x] \in Int
      /\ \A x \in Int : 0 <= x /\ x < n => x \in Indices
  BY SizeKept DEF LoopInv
<1>2. /\ i \in Int /\ j \in Int /\ 0 <= i /\ i < n /\ j >= 1 /\ (j = 1 \/ j <= n - i)
      /\ \A y \in Indices : n - i <= y =>
           \A x \in Indices : (x < y => arr[x] <= arr[y]) /\ (y < x => arr[y] <= arr[x])
      /\ \A x \in Indices : x < j => arr[x] <= arr[j - 1]
      /\ InvKept(arr)
  BY <1>1 DEF LoopInv, InvBubble, Placed, BubbleInner, BubbleOuter, Inner, Outer
<1>3. CASE BubbleInner
  <2>1. /\ j < n - i /\ j' = j + 1 /\ i' = i
        /\ arr' = IF arr[j - 1] > arr[j] THEN Swap(j - 1, j) ELSE arr
    BY <1>3 DEF BubbleInner, Inner
  <2>2. j \in Indices /\ j - 1 \in Indices
    BY <1>1, <1>2, <2>1
  <2>3. CASE arr[j - 1] > arr[j]
    <3>1. arr' = Swap(j - 1, j)
      BY <2>1, <2>3
    <3>2. /\ \A z \in Indices : arr'[z] = IF z = j - 1 THEN arr[j] ELSE IF z = j THEN arr[j - 1] ELSE arr[z]
          /\ InvKept(arr)'
      BY <1>2, <2>2, <3>1, SwapIs
    <3>3. ASSUME NEW x \in Indices, x < j + 1 PROVE arr'[x] <= arr'[j]
      BY <1>1, <1>2, <2>2, <2>3, <3>2, <3>3
    <3>4. ASSUME NEW y \in Indices, n - i <= y, NEW x \in Indices
          PROVE  (x < y => arr'[x] <= arr'[y]) /\ (y < x => arr'[y] <= arr'[x])
      BY <1>1, <1>2, <2>1, <2>2, <2>3, <3>2, <3>4
    <3>5. InvBubble'
      BY <1>1, <1>2, <2>1, <3>3, <3>4 DEF InvBubble, Placed
    <3>6. QED
      BY <1>1, <1>2, <2>1, <3>2, <3>5 DEF LoopInv
  <2>4. CASE ~(arr[j - 1] > arr[j])
    <3>1. arr' = arr
      BY <2>1, <2>4
    <3>2. ASSUME NEW x \in Indices, x < j + 1 PROVE arr[x] <= arr[j]
      BY <1>1, <1>2, <2>2, <2>4, <3>2
    <3>3. InvBubble'
      BY <1>1, <1>2, <2>1, <3>1, <3>2 DEF InvBubble, Placed
    <3>4. QED
      BY <1>1, <1>2, <2>1, <3>1, <3>3 DEF LoopInv, InvKept
  <2>5. QED
    BY <2>3, <2>4
<1>4. CASE BubbleOuter
  <2>1. j >= n - i /\ i' = i + 1 /\ j' = 1 /\ arr' = arr
    BY <1>4 DEF BubbleOuter, Outer
  <2>2. j = n - i
    BY <1>1, <1>2, <2>1
  <2>3. ASSUME NEW y \in Indices, n - i' <= y PROVE Placed(arr, y)
    <3>1. CASE y = n - i - 1
      BY <1>1, <1>2, <2>2, <3>1 DEF Placed
    <3>2. CASE y # n - i - 1
      BY <1>1, <1>2, <2>1, <2>3, <3>2 DEF Placed
    <3>3. QED
      BY <3>1, <3>2
  <2>4. i + 1 < n => \A x \in Indices : x < 1 => arr[x] <= arr[0]
    BY <1>1
  <2>5. InvBubble'
    BY <1>1, <1>2, <2>1, <2>3, <2>4 DEF InvBubble, Placed
  <2>6. QED
    BY <1>1, <1>2, <2>1, <2>5 DEF LoopInv, InvKept
<1>5. QED
  BY <1>3, <1>4

\* A turn of insertion sort's inner loop moves the element at i to its place.
LEMMA InsertKeeps ==
  ASSUME LoopInv, program = "insert", UNCHANGED <<program, input>>, InsertInner \/ InsertOuter
  PROVE  LoopInv'
<1>1. /\ n' = n /\ Indices' = Indices /\ n \in Nat
      /\ \A x \in Indices : x \in Int /\ 0 <= x /\ x < n /\ arr[x] \in Int
      /\ \A x \in Int : 0 <= x /\ x < n => x \in Indices
  BY SizeKept DEF LoopInv
<1>2. /\ i \in Int /\ j \in Int /\ 0 <= i /\ i < n /\ 0 <= j /\ j <= i
      /\ \A x, y \in Indices : x < y /\ y < i => arr[x] <= arr[y]
      /\ \A x \in Indices : x < j => arr[x] <= arr[i]
      /\ InvKept(arr)
  BY <1>1 DEF LoopInv, InvInsert, InsertInner, InsertOuter, Inner, Outer
<1>3. CASE InsertInner
  <2>1. /\ j < i /\ j' = j + 1 /\ i' = i
        /\ arr' = IF arr[i] < arr[j] THEN Swap(i, j) ELSE arr
    BY <1>3 DEF InsertInner, Inner
  <2>2. j \in Indices /\ i \in Indices
    BY <1>1, <1>2, <2>1
  <2>3. CASE arr[i] < arr[j]
    <3>1. arr' = Swap(i, j)
      BY <2>1, <2>3
    <3>2. /\ \A z \in Indices : arr'[z] = IF z = i THEN arr[j] ELSE IF z = j THEN arr[i] ELSE arr[z]
          /\ InvKept(arr)'
      BY <1>2, <2>2, <3>1, SwapIs
    <3>3. ASSUME NEW x \in Indices, x < j + 1 PROVE arr'[x] <= arr'[i]
      BY <1>1, <1>2, <2>1, <2>2, <2>3, <3>2, <3>3
    <3>4. ASSUME NEW x \in Indices, NEW y \in Indices, x < y, y < i PROVE arr'[x] <= arr'[y]
      BY <1>1, <1>2, <2>1, <2>2, <2>3, <3>2, <3>4
    <3>5. InvInsert'
      BY <1>1, <1>2, <2>1, <3>3, <3>4 DEF InvInsert
    <3>6. QED
      BY <1>1, <1>2, <2>1, <3>2, <3>5 DEF LoopInv
  <2>4. CASE ~(arr[i] < arr[j])
    <3>1. arr' = arr
      BY <2>1, <2>4
    <3>2. ASSUME NEW x \in Indices, x < j + 1 PROVE arr[x] <= arr[i]
      BY <1>1, <1>2, <2>2, <2>4, <3>2
    <3>3. InvInsert'
      BY <1>1, <1>2, <2>1, <3>1, <3>2 DEF InvInsert
    <3>4. QED
      BY <1>1, <1>2, <2>1, <3>1, <3>3 DEF LoopInv, InvKept
  <2>5. QED
    BY <2>3, <2>4
<1>4. CASE InsertOuter
  <2>1. j = i /\ i' = i + 1 /\ j' = 0 /\ arr' = arr
    BY <1>2, <1>4 DEF InsertOuter, Outer
  <2>2. ASSUME NEW x \in Indices, NEW y \in Indices, x < y, y < i + 1 PROVE arr[x] <= arr[y]
    BY <1>1, <1>2, <2>1, <2>2
  <2>3. InvInsert'
    BY <1>1, <1>2, <2>1, <2>2 DEF InvInsert
  <2>4. QED
    BY <1>1, <1>2, <2>1, <2>3 DEF LoopInv, InvKept
<1>5. QED
  BY <1>3, <1>4

\* Selection sort finds the least element that is left, and swaps it to i.
LEMMA SelectKeeps ==
  ASSUME LoopInv, program = "select", UNCHANGED <<program, input>>, SelectInner \/ SelectOuter
  PROVE  LoopInv'
<1>1. /\ n' = n /\ Indices' = Indices /\ n \in Nat
      /\ \A x \in Indices : x \in Int /\ 0 <= x /\ x < n /\ arr[x] \in Int
      /\ \A x \in Int : 0 <= x /\ x < n => x \in Indices
  BY SizeKept DEF LoopInv
<1>2. /\ i \in Int /\ j \in Int /\ 0 <= i /\ i < n /\ i + 1 <= j /\ j <= n
      /\ indx \in Int /\ i <= indx /\ indx < j
      /\ \A x \in Indices : x < i =>
           \A z \in Indices : (z < x => arr[z] <= arr[x]) /\ (x < z => arr[x] <= arr[z])
      /\ \A x \in Int : i <= x /\ x < j => arr[indx] <= arr[x]
      /\ InvKept(arr)
  BY <1>1 DEF LoopInv, InvSelect, Placed, SelectInner, SelectOuter, Inner, Outer
<1>3. CASE SelectInner
  <2>1. /\ j < n /\ j' = j + 1 /\ i' = i /\ arr' = arr
        /\ indx' = IF arr[indx] > arr[j] THEN j ELSE indx
    BY <1>3 DEF SelectInner, Inner
  <2>2. j \in Indices /\ indx \in Indices
    BY <1>1, <1>2, <2>1
  <2>3. ASSUME NEW x \in Int, i <= x, x < j + 1 PROVE arr[indx'] <= arr[x]
    <3>1. x \in Indices
      BY <1>1, <1>2, <2>1, <2>3
    <3>2. QED
      BY <1>1, <1>2, <2>1, <2>2, <2>3, <3>1
  <2>4. InvSelect'
    BY <1>1, <1>2, <2>1, <2>3 DEF InvSelect, Placed
  <2>5. QED
    BY <1>1, <1>2, <2>1, <2>4 DEF LoopInv, InvKept
<1>4. CASE SelectOuter
  <2>1. j = n /\ i' = i + 1 /\ j' = i + 2 /\ indx' = i + 1 /\ arr' = Swap(indx, i)
    BY <1>1, <1>2, <1>4 DEF SelectOuter, Outer
  <2>2. i \in Indices /\ indx \in Indices
    BY <1>1, <1>2, <2>1
  <2>3. /\ \A z \in Indices : arr'[z] = IF z = indx THEN arr[i] ELSE IF z = i THEN arr[indx] ELSE arr[z]
        /\ InvKept(arr)'
    BY <1>2, <2>1, <2>2, SwapIs
  <2>4. ASSUME NEW x \in Indices, x < i + 1, NEW z \in Indices
        PROVE  (z < x => arr'[z] <= arr'[x]) /\ (x < z => arr'[x] <= arr'[z])
    <3>1. CASE x = i
      <4>1. arr'[i] = arr[indx]
        BY <2>2, <2>3
      <4>2. z < i => arr'[z] = arr[z] /\ arr[z] <= arr[indx]
        BY <1>1, <1>2, <2>2, <2>3
      <4>3. i < z => arr[indx] <= arr[z] /\ arr[indx] <= arr[i]
        BY <1>1, <1>2, <2>1, <2>2
      <4>4. i < z => arr[indx] <= arr'[z]
        BY <1>1, <1>2, <2>2, <2>3, <4>3
      <4>5. QED
        BY <3>1, <4>1, <4>2, <4>4
    <3>2. CASE x # i
      BY <1>1, <1>2, <2>1, <2>2, <2>3, <2>4, <3>2
    <3>3. QED
      BY <3>1, <3>2
  <2>5. i + 1 < n => \A x \in i + 1 .. i + 1 : arr'[i + 1] <= arr'[x]
    BY <1>1, <1>2, <2>2, <2>3
  <2>6. InvSelect'
    BY <1>1, <1>2, <2>1, <2>4, <2>5 DEF InvSelect, Placed
  <2>7. QED
    BY <1>1, <1>2, <2>1, <2>3, <2>6 DEF LoopInv
<1>5. QED
  BY <1>3, <1>4

\* Every turn of a loop keeps its invariant.
LEMMA LoopKeeps ==
  ASSUME LoopInv, LoopNext
  PROVE  LoopInv'
<1>1. UNCHANGED <<program, input>>
  BY DEF LoopNext
<1>2. CASE BubbleInner \/ BubbleOuter
  BY <1>1, <1>2, BubbleKeeps DEF BubbleInner, BubbleOuter, Inner, Outer
<1>3. CASE InsertInner \/ InsertOuter
  BY <1>1, <1>3, InsertKeeps DEF InsertInner, InsertOuter, Inner, Outer
<1>4. CASE SelectInner \/ SelectOuter
  BY <1>1, <1>4, SelectKeeps DEF SelectInner, SelectOuter, Inner, Outer
<1>5. QED
  BY <1>2, <1>3, <1>4 DEF LoopNext

\* The invariant is what the loops promise.
LEMMA LoopSorting ==
  ASSUME LoopInv, program \in {"bubble", "insert", "select"}
  PROVE  LoopsSort
<1>1. /\ n \in Nat
      /\ \A x \in Indices : x \in Int /\ 0 <= x /\ x < n /\ arr[x] \in Int
      /\ input \in [Indices -> Int]
  <2>1. n \in Nat /\ input \in [Indices -> Int]
    BY ArraySize DEF LoopInv, InvKept
  <2>2. arr \in [Indices -> Int]
    BY <2>1, PermutesType DEF LoopInv, InvKept
  <2>3. QED
    BY <2>1, <2>2 DEF Indices
<1>2. DOMAIN arr = Indices /\ i \in Int /\ 0 <= i /\ i <= n /\ input \in Arrays /\ Permutes(arr, input)
  BY <1>1 DEF LoopInv, InvKept, Permutes
<1>3. LoopFinished \subseteq Indices /\ \A k \in LoopFinished : Placed(arr, k)
  <2>1. CASE LoopDone
    <3>1. i = n
      BY <1>2, <2>1, <1>1 DEF LoopDone
    <3>2. \A k \in Indices : Placed(arr, k)
      BY <1>1, <3>1 DEF LoopInv, InvBubble, InvInsert, InvSelect, Placed
    <3>3. QED
      BY <1>2, <2>1, <3>2 DEF LoopFinished
  <2>2. CASE ~LoopDone /\ program = "bubble"
    <3>1. LoopFinished = n - i .. n - 1
      BY <2>2 DEF LoopFinished
    <3>2. QED
      BY <1>1, <1>2, <2>2, <3>1 DEF LoopInv, InvBubble, Indices
  <2>3. CASE ~LoopDone /\ program = "select"
    <3>1. LoopFinished = 0 .. i - 1
      BY <2>3 DEF LoopFinished
    <3>2. QED
      BY <1>1, <1>2, <2>3, <3>1 DEF LoopInv, InvSelect, Indices
  <2>4. CASE ~LoopDone /\ program = "insert"
    BY <2>4 DEF LoopFinished
  <2>5. QED
    BY <2>1, <2>2, <2>3, <2>4
<1>4. Sorting(LoopFinished, arr)
  BY <1>2, <1>3, PlacedSorting
<1>5. program = "insert" => \A k, m \in 0 .. i - 1 : k < m => arr[k] <= arr[m]
  BY <1>1, <1>2 DEF LoopInv, InvInsert, Indices
<1>6. QED
  BY <1>4, <1>5 DEF LoopsSort

-----------------------------------------------------------------------------
(* HeapSort *)

\* c is a child of p in the heap.
Child(p, c) == c = 2 * p + 1 \/ c = 2 * p + 2

\* The parents from here on have been moved down.
Base == IF phase = "build" THEN last ELSE 0

InvPhase ==
  /\ n > 0 /\ arr \in [Indices -> Numbers] /\ elem \in Numbers
  /\ phase \in {"build", "extract", "done"}
  /\ phase = "build"   => last \in 0 .. n \div 2 /\ size = n /\ hole \in last .. n - 1
  /\ phase = "extract" => last \in 1 .. n - 1 /\ size = last /\ hole \in 0 .. last - 1
  /\ phase = "done"    => size = 0 /\ hole = 0 /\ elem = arr[0]

\* A parent is not less than its children, but for the element that is on its way
\* down: it is less than what is above it, and so are the children it has yet to
\* pass.
InvHeap ==
  \A p, c \in Indices : Base <= p /\ c < size /\ Child(p, c) =>
    /\ p # hole => Settled[p] >= Settled[c]
    /\ c = hole => \A d \in Indices : d < size /\ Child(hole, d) => Settled[p] >= Settled[d]

\* What is behind the heap is final.
InvBehind == \A y \in Indices : size <= y => Placed(Settled, y)

HeapInv == InvKept(Settled) /\ InvPhase /\ InvHeap /\ InvBehind

\* A set of natural numbers has a least one.
LEMMA LeastNumber ==
  ASSUME NEW S, S \subseteq Nat, S # {}
  PROVE  \E x \in S : \A y \in S : x <= y
<1>1. IsWellFoundedOn(OpToRel(<, Nat), Nat)
  BY NatLessThanWellFounded
<1>2. PICK x \in S : \A y \in S : ~(<<y, x>> \in OpToRel(<, Nat))
  BY <1>1, WFMin
<1>3. ASSUME NEW y \in S PROVE x <= y
  <2>1. x \in Nat /\ y \in Nat
    OBVIOUS
  <2>2. ~(y < x)
    BY <1>2, <2>1 DEF OpToRel
  <2>3. QED
    BY <2>1, <2>2
<1>4. QED
  BY <1>3

\* The root of a heap is its greatest element.
LEMMA RootIsGreatest ==
  ASSUME NEW m \in Nat, NEW b, \A x \in 0 .. m - 1 : b[x] \in Int,
         \A p, c \in 0 .. m - 1 : Child(p, c) => b[p] >= b[c]
  PROVE  \A x \in 0 .. m - 1 : b[0] >= b[x]
<1> DEFINE Above == {x \in 0 .. m - 1 : ~(b[0] >= b[x])}
<1>1. SUFFICES ASSUME Above # {} PROVE FALSE
  OBVIOUS
<1>2. Above \subseteq Nat
  OBVIOUS
<1>3. PICK x \in Above : \A y \in Above : x <= y
  <2> HIDE DEF Above
  <2>1. QED
    BY <1>1, <1>2, LeastNumber
<1>4. x \in Int /\ x >= 0 /\ x < m /\ ~(b[0] >= b[x]) /\ 0 \in 0 .. m - 1
  OBVIOUS
<1>5. x # 0
  BY <1>4
<1>6. PICK p \in 0 .. m - 1 : Child(p, x) /\ p < x
  <2>1. (x - 1) \div 2 \in Int /\ 2 * ((x - 1) \div 2) <= x - 1 /\ x - 1 <= 2 * ((x - 1) \div 2) + 1
    BY <1>4
  <2>2. Child((x - 1) \div 2, x)
    BY <1>4, <2>1 DEF Child
  <2>3. (x - 1) \div 2 \in 0 .. m - 1 /\ (x - 1) \div 2 < x
    BY <1>4, <1>5, <2>1
  <2>4. QED
    BY <2>2, <2>3
<1>7. b[p] >= b[x]
  BY <1>4, <1>6
<1>8. p \notin Above
  <2>1. ~(x <= p)
    BY <1>4, <1>6
  <2>2. QED
    BY <1>3, <2>1
<1>9. b[0] >= b[p]
  BY <1>8
<1>10. QED
  BY <1>4, <1>7, <1>9

\* The array with the element back in it.
LEMMA SettledIs ==
  ASSUME HeapInv
  PROVE  /\ n \in Nat /\ n > 0 /\ Indices = 0 .. n - 1
         /\ hole \in Indices /\ size \in 0..n /\ Base \in Int /\ 0 <= Base
         /\ Settled \in [Indices -> Int] /\ Settled \in [Indices -> Numbers]
         /\ \A x \in Indices : Settled[x] = IF x = hole THEN elem ELSE arr[x]
<1>1. n \in Nat /\ Indices = 0 .. n - 1
  BY ArraySize DEF HeapInv, InvKept, Indices
<1>2. n > 0 /\ hole \in Indices /\ size \in 0..n /\ Base \in Int /\ 0 <= Base
  BY <1>1 DEF HeapInv, InvPhase, Base
<1>3. arr \in [Indices -> Numbers] /\ elem \in Numbers
  BY DEF HeapInv, InvPhase
<1>4. QED
  BY <1>1, <1>2, <1>3, ArrayAssumption DEF Settled

\* When an element does not sink any more, the heap is in order from Base on.
LEMMA HeapInOrder ==
  ASSUME HeapInv, phase # "done", ~Sinks
  PROVE  \A p, c \in Indices : Base <= p /\ c < size /\ Child(p, c) => Settled[p] >= Settled[c]
<1>1. /\ n \in Nat /\ Indices = 0 .. n - 1
      /\ hole \in Indices /\ size \in 0..n
      /\ Settled \in [Indices -> Int]
      /\ \A x \in Indices : Settled[x] = IF x = hole THEN elem ELSE arr[x]
  BY SettledIs
<1>2. ASSUME NEW c \in Indices, c < size, Child(hole, c) PROVE Settled[hole] >= Settled[c]
  <2>1. 2 * hole + 1 < size /\ 2 * hole + 1 \in Indices /\ 2 * hole + 1 # hole
    BY <1>1, <1>2 DEF Child
  <2>2. ~(elem < arr[MaxChild])
    BY <2>1 DEF Sinks
  <2>3. MaxChild \in Indices /\ MaxChild # hole /\ c # hole
    BY <1>1, <1>2, <2>1 DEF MaxChild, Child
  <2>4. \A x \in Indices : x # hole => arr[x] \in Int /\ Settled[x] = arr[x]
    BY <1>1
  <2>5. arr[MaxChild] >= arr[c]
    <3>1. CASE c = 2 * hole + 1
      BY <1>1, <2>1, <2>3, <2>4, <3>1 DEF MaxChild
    <3>2. CASE c = 2 * hole + 2
      <4>1. c = 2 * hole + 1 + 1 /\ 2 * hole + 1 + 1 < size
        BY <1>1, <1>2, <3>2
      <4>2. arr[2 * hole + 1] \in Int /\ arr[c] \in Int
        BY <2>1, <2>3, <2>4
      <4>3. QED
        BY <4>1, <4>2 DEF MaxChild
    <3>3. QED
      BY <1>2, <3>1, <3>2 DEF Child
  <2>6. elem \in Int
    BY <1>1
  <2>7. QED
    BY <1>1, <2>2, <2>3, <2>4, <2>5, <2>6
<1>3. QED
  BY <1>2 DEF HeapInv, InvHeap

\* MaxChild is the greater one of the children.
LEMMA MaxChildIs ==
  ASSUME HeapInv, Sinks
  PROVE  /\ MaxChild \in Indices /\ MaxChild < size /\ Child(hole, MaxChild) /\ hole < MaxChild
         /\ Settled[hole] < Settled[MaxChild] /\ Settled[MaxChild] = arr[MaxChild]
         /\ \A c \in Indices : c < size /\ Child(hole, c) => Settled[MaxChild] >= Settled[c]
<1>1. /\ n \in Nat /\ Indices = 0 .. n - 1
      /\ hole \in Indices /\ size \in 0..n
      /\ Settled \in [Indices -> Int]
      /\ \A x \in Indices : Settled[x] = IF x = hole THEN elem ELSE arr[x]
  BY SettledIs
<1>2. 2 * hole + 1 < size /\ 2 * hole + 1 \in Indices
  BY <1>1 DEF Sinks
<1>3. MaxChild \in Indices /\ MaxChild < size /\ Child(hole, MaxChild) /\ hole < MaxChild
  BY <1>1, <1>2 DEF MaxChild, Child
<1>4. Settled[hole] < Settled[MaxChild] /\ Settled[MaxChild] = arr[MaxChild]
  BY <1>1, <1>3 DEF Sinks
<1>5. ASSUME NEW c \in Indices, c < size, Child(hole, c) PROVE Settled[MaxChild] >= Settled[c]
  <2>1. c # hole /\ \A x \in Indices : x # hole => arr[x] \in Int /\ Settled[x] = arr[x]
    BY <1>1, <1>5 DEF Child
  <2>2. CASE c = 2 * hole + 1
    BY <1>1, <1>2, <1>3, <2>1, <2>2 DEF MaxChild
  <2>3. CASE c = 2 * hole + 2
    <3>1. c = 2 * hole + 1 + 1 /\ 2 * hole + 1 + 1 < size /\ 2 * hole + 1 # hole
      BY <1>1, <1>5, <2>3
    <3>2. arr[2 * hole + 1] \in Int /\ arr[c] \in Int
      BY <1>2, <2>1, <3>1
    <3>3. arr[MaxChild] >= arr[c]
      BY <3>1, <3>2 DEF MaxChild
    <3>4. QED
      BY <1>3, <1>4, <2>1, <3>3
  <2>4. QED
    BY <1>5, <2>2, <2>3 DEF Child
<1>6. QED
  BY <1>3, <1>4, <1>5

\* HeapSort starts with its last parent.
LEMMA HeapInitInv == HeapInit => HeapInv
<1> SUFFICES ASSUME HeapInit PROVE HeapInv
  OBVIOUS
<1>1. input \in Arrays /\ arr = input /\ n > 0 /\ phase = "build" /\ last = n \div 2 /\ hole = last /\ size = n
      /\ elem = arr[hole]
  BY DEF HeapInit, ArrayInit
<1>2. n \in Nat /\ input \in [Indices -> Numbers] /\ Indices = 0 .. n - 1
  BY <1>1, ArraySize DEF Indices
<1>3. last \in Nat /\ last < n /\ n <= 2 * last + 1
  BY <1>1, <1>2
<1>4. Settled = arr
  <2>1. hole \in Indices
    BY <1>1, <1>2, <1>3
  <2>2. QED
    BY <1>1, <1>2, <2>1 DEF Settled
<1>5. InvKept(Settled)
  BY <1>1, <1>2, <1>4, PermutesItself DEF InvKept
<1>6. InvPhase
  <2>1. last \in 0 .. n \div 2 /\ hole \in last .. n - 1 /\ hole \in Indices
    BY <1>1, <1>2, <1>3
  <2>2. QED
    BY <1>1, <1>2, <2>1 DEF InvPhase
<1>7. InvHeap
  <2>1. ASSUME NEW p \in Indices, NEW c \in Indices, Base <= p, c < size, Child(p, c) PROVE FALSE
    BY <1>1, <1>2, <1>3, <2>1 DEF Base, Child
  <2>2. QED
    BY <2>1 DEF InvHeap
<1>8. InvBehind
  BY <1>1, <1>2 DEF InvBehind
<1>9. QED
  BY <1>5, <1>6, <1>7, <1>8 DEF HeapInv

\* A turn of PercDown exchanges the element with its greater child.
LEMMA PercDownKeeps ==
  ASSUME HeapInv, PercDown, UNCHANGED <<program, input>>
  PROVE  HeapInv'
<1> DEFINE m == MaxChild
           S == Settled
<1>1. /\ n \in Nat /\ n > 0 /\ Indices = 0 .. n - 1
      /\ hole \in Indices /\ size \in 0..n /\ Base \in Int
      /\ S \in [Indices -> Int] /\ S \in [Indices -> Numbers]
      /\ \A x \in Indices : S[x] = IF x = hole THEN elem ELSE arr[x]
  BY SettledIs
<1>2. /\ m \in Indices /\ m < size /\ Child(hole, m) /\ hole < m
      /\ S[hole] < S[m] /\ S[m] = arr[m]
      /\ \A c \in Indices : c < size /\ Child(hole, c) => S[m] >= S[c]
  BY MaxChildIs DEF PercDown
<1>3. n' = n /\ Indices' = Indices
  BY DEF n, Indices
<1>4. arr \in [Indices -> Numbers] /\ elem \in Numbers
  BY DEF HeapInv, InvPhase
<1>5. /\ arr' = [arr EXCEPT ![hole] = arr[m]] /\ hole' = m
      /\ UNCHANGED <<phase, last, size, elem>>
  BY DEF PercDown
<1>6. Settled' = [S EXCEPT ![hole] = S[m], ![m] = S[hole]]
  <2> HIDE DEF m
  <2>1. Settled' = [[arr EXCEPT ![hole] = arr[m]] EXCEPT ![m] = elem]
    BY <1>5 DEF Settled
  <2>2. S = [arr EXCEPT ![hole] = elem]
    BY DEF Settled
  <2> HIDE DEF S
  <2>3. QED
    BY <1>1, <1>2, <1>4, <2>1, <2>2
<1> HIDE DEF m
<1>7. InvKept(Settled)'
  <2>1. input \in [Indices -> Int]
    BY ArraySize DEF HeapInv, InvKept
  <2>2. Permutes([S EXCEPT ![hole] = S[m], ![m] = S[hole]], input)
    BY <1>1, <1>2, <2>1, PermutesSwapped DEF HeapInv, InvKept
  <2>3. QED
    BY <1>6, <2>2 DEF HeapInv, InvKept
<1>8. Base' = Base /\ Base <= hole
  BY <1>1, <1>5 DEF Base, HeapInv, InvPhase
<1>9. InvPhase'
  <2>1. arr' \in [Indices -> Numbers] /\ arr[m] \in Numbers
    BY <1>1, <1>2, <1>4, <1>5
  <2>2. phase # "done"
    BY DEF PercDown, Sinks
  <2>3. m \in hole .. size - 1
    BY <1>1, <1>2
  <2>4. phase = "build" => last \in 0 .. n \div 2 /\ size = n /\ m \in last .. n - 1
    BY <1>1, <2>3 DEF HeapInv, InvPhase
  <2>5. phase = "extract" => last \in 1 .. n - 1 /\ size = last /\ m \in 0 .. last - 1
    BY <1>1, <2>3 DEF HeapInv, InvPhase
  <2>6. n > 0 /\ phase \in {"build", "extract", "done"}
    BY DEF HeapInv, InvPhase
  <2>7. QED
    BY <1>3, <1>4, <1>5, <2>1, <2>2, <2>4, <2>5, <2>6 DEF InvPhase
<1> DEFINE T == [S EXCEPT ![hole] = S[m], ![m] = S[hole]]
<1>10. \A x \in Indices : T[x] = IF x = hole THEN S[m] ELSE IF x = m THEN S[hole] ELSE S[x]
  <2> HIDE DEF S
  <2>1. QED
    BY <1>1, <1>2
<1>11. \A p, c \in Indices : Base <= p /\ c < size /\ Child(p, c) =>
         /\ p # hole => S[p] >= S[c]
         /\ c = hole => \A d \in Indices : d < size /\ Child(hole, d) => S[p] >= S[d]
  BY DEF HeapInv, InvHeap
<1>12. \A y \in Indices : size <= y => Placed(S, y)
  BY DEF HeapInv, InvBehind
<1>13. \A x \in Indices : x \in Int /\ x >= 0 /\ S[x] \in Int
  <2> HIDE DEF S
  <2>1. QED
    BY <1>1
<1> HIDE DEF S, T
<1>14. ASSUME NEW p \in Indices, NEW c \in Indices, Base <= p, c < size, Child(p, c)
       PROVE  /\ p # m => T[p] >= T[c]
              /\ c = m => \A d \in Indices : d < size /\ Child(m, d) => T[p] >= T[d]
  <2>1. p < c
    BY <1>13, <1>14 DEF Child
  <2>2. c = m <=> p = hole /\ c = m
    BY <1>1, <1>2, <1>13, <1>14 DEF Child
  <2>3. CASE p = hole
    <3>1. T[p] = S[m] /\ c # hole
      BY <1>10, <1>13, <2>1, <2>3
    <3>2. T[p] >= T[c]
      <4>1. CASE c = m
        BY <1>1, <1>2, <1>10, <1>13, <3>1, <4>1
      <4>2. CASE c # m
        BY <1>2, <1>10, <1>14, <2>3, <3>1, <4>2
      <4>3. QED
        BY <4>1, <4>2
    <3>3. ASSUME NEW d \in Indices, d < size, Child(m, d) PROVE T[p] >= T[d]
      <4>1. d # m /\ d # hole /\ Base <= m
        BY <1>1, <1>2, <1>8, <1>13, <3>3 DEF Child
      <4>2. S[m] >= S[d]
        BY <1>2, <1>11, <1>13, <3>3, <4>1
      <4>3. QED
        BY <1>10, <3>1, <4>1, <4>2
    <3>4. QED
      BY <3>2, <3>3
  <2>4. CASE p # hole
    <3>1. c # m
      BY <2>2, <2>4
    <3>2. ASSUME p # m PROVE T[p] >= T[c]
      <4>1. T[p] = S[p]
        BY <1>10, <2>4, <3>2
      <4>2. CASE c = hole
        BY <1>2, <1>10, <1>11, <1>14, <4>1, <4>2
      <4>3. CASE c # hole
        BY <1>10, <1>11, <1>14, <2>4, <3>1, <4>1, <4>3
      <4>4. QED
        BY <4>2, <4>3
    <3>3. QED
      BY <3>1, <3>2
  <2>5. QED
    BY <2>3, <2>4
<1>15. ASSUME NEW y \in Indices, size <= y PROVE Placed(T, y)
  <2>1. hole < y /\ m < y
    BY <1>1, <1>2, <1>13, <1>15
  <2>2. T[y] = S[y]
    BY <1>10, <1>13, <2>1
  <2>3. \A x \in Indices : x < y => T[x] <= S[y]
    BY <1>2, <1>1, <1>10, <1>12, <1>15, <2>1 DEF Placed
  <2>4. \A x \in Indices : y < x => T[x] = S[x]
    BY <1>1, <1>2, <1>10, <1>13, <2>1
  <2>5. QED
    BY <1>12, <1>15, <2>2, <2>3, <2>4 DEF Placed
<1>16. Settled' = T
  BY <1>6 DEF T, S
<1>17. InvHeap' /\ InvBehind'
  BY <1>3, <1>5, <1>8, <1>14, <1>15, <1>16 DEF InvHeap, InvBehind, Placed
<1>18. QED
  BY <1>7, <1>9, <1>17 DEF HeapInv

\* The next parent is moved down.
LEMMA BuildKeeps ==
  ASSUME HeapInv, BuildNext, UNCHANGED <<program, input>>
  PROVE  HeapInv'
<1> DEFINE S == Settled
<1>1. /\ n \in Nat /\ n > 0 /\ Indices = 0 .. n - 1
      /\ size \in 0..n /\ S \in [Indices -> Numbers]
  BY SettledIs
<1>2. n' = n /\ Indices' = Indices
  BY DEF n, Indices
<1>3. /\ phase = "build" /\ last > 0 /\ arr' = S /\ last' = last - 1 /\ hole' = last' /\ elem' = arr'[hole']
      /\ UNCHANGED <<phase, size>>
  BY DEF BuildNext
<1>4. last \in 0 .. n \div 2 /\ size = n
  BY <1>3 DEF HeapInv, InvPhase
<1>5. /\ last' \in 0 .. n \div 2 /\ hole' \in last' .. n - 1 /\ hole' \in Indices
      /\ last \in Int
  BY <1>1, <1>3, <1>4
<1>6. \A p, c \in Indices : last <= p /\ c < size /\ Child(p, c) => S[p] >= S[c]
  BY <1>3, HeapInOrder DEF BuildNext, Base
<1> HIDE DEF S
<1>7. Settled' = S
  BY <1>1, <1>3, <1>5 DEF Settled
<1>8. InvKept(Settled)'
  BY <1>7 DEF HeapInv, InvKept, S
<1>9. InvPhase'
  BY <1>1, <1>2, <1>3, <1>4, <1>5 DEF InvPhase
<1>10. ASSUME NEW p \in Indices, NEW c \in Indices, last - 1 <= p, c < size, Child(p, c)
       PROVE  (p # hole' => S[p] >= S[c]) /\ c # hole'
  <2>1. p \in Int /\ c \in Int /\ p >= 0
    BY <1>1
  <2>2. c # hole'
    BY <1>3, <1>5, <1>10, <2>1 DEF Child
  <2>3. p # hole' => last <= p
    BY <1>3, <1>5, <1>10, <2>1
  <2>4. QED
    BY <1>6, <1>10, <2>2, <2>3
<1>11. Base' = last - 1
  BY <1>3 DEF Base
<1>12. InvHeap'
  BY <1>2, <1>3, <1>7, <1>10, <1>11 DEF InvHeap
<1>13. InvBehind'
  BY <1>2, <1>3, <1>7 DEF InvBehind, HeapInv, Placed, S
<1>14. QED
  BY <1>8, <1>9, <1>12, <1>13 DEF HeapInv

\* The root is swapped behind the heap, or was the last element of it.
LEMMA ExtractKeeps ==
  ASSUME HeapInv, ExtractNext, UNCHANGED <<program, input>>
  PROVE  HeapInv'
<1> DEFINE S == Settled
           end == (IF phase = "build" THEN n ELSE last) - 1
<1>1. /\ n \in Nat /\ n > 0 /\ Indices = 0 .. n - 1
      /\ size \in 0..n /\ S \in [Indices -> Numbers] /\ S \in [Indices -> Int]
  BY SettledIs
<1>2. n' = n /\ Indices' = Indices
  BY DEF n, Indices
<1>3. /\ phase = "extract" \/ (phase = "build" /\ last = 0)
      /\ arr' = IF end > 0 THEN [S EXCEPT ![0] = S[end], ![end] = S[0]] ELSE S
      /\ phase' = IF end > 0 THEN "extract" ELSE "done"
      /\ last' = end /\ size' = end /\ hole' = 0 /\ elem' = arr'[0]
  BY DEF ExtractNext
<1>4. end = size - 1 /\ end \in Indices /\ Base = 0
  BY <1>1, <1>3 DEF HeapInv, InvPhase, Base
<1>5. \A p, c \in Indices : 0 <= p /\ c < size /\ Child(p, c) => S[p] >= S[c]
  BY <1>3, <1>4, HeapInOrder DEF ExtractNext
<1>6. \A y \in Indices : size <= y => Placed(S, y)
  BY DEF HeapInv, InvBehind
<1> HIDE DEF S, end
<1>7. /\ \A x \in Indices : x \in Int /\ x >= 0 /\ x < n /\ S[x] \in Int
      /\ end \in Int /\ 0 <= end /\ 0 \in Indices
  BY <1>1, <1>4
<1>8. \A x \in Indices : x < size => S[0] >= S[x]
  <2>1. \A x \in 0 .. size - 1 : S[x] \in Int /\ x \in Indices /\ x < size /\ 0 <= x
    BY <1>1
  <2>2. \A p, c \in 0 .. size - 1 : Child(p, c) => S[p] >= S[c]
    BY <1>5, <2>1
  <2>3. \A x \in 0 .. size - 1 : S[0] >= S[x]
    <3>1. size \in Nat /\ \A x \in 0 .. size - 1 : S[x] \in Int
      BY <1>1, <2>1
    <3>2. QED
      BY <2>2, <3>1, RootIsGreatest
  <2>4. QED
    BY <1>1, <1>7, <2>3
<1> DEFINE T == IF end > 0 THEN [S EXCEPT ![0] = S[end], ![end] = S[0]] ELSE S
<1>9. /\ T \in [Indices -> Numbers]
      /\ \A x \in Indices : T[x] = IF x = 0 THEN S[end] ELSE IF x = end THEN S[0] ELSE S[x]
  <2>1. CASE end > 0
    <3>1. T = [S EXCEPT ![0] = S[end], ![end] = S[0]] /\ end # 0
      BY <1>7, <2>1
    <3> HIDE DEF T
    <3>2. QED
      BY <1>1, <1>4, <1>7, <3>1
  <2>2. CASE ~(end > 0)
    <3>1. T = S /\ end = 0
      BY <1>7, <2>2
    <3> HIDE DEF T
    <3>2. QED
      BY <1>1, <1>4, <1>7, <3>1
  <2>3. QED
    BY <2>1, <2>2
<1>10. InvKept(T)
  <2>1. input \in [Indices -> Int]
    BY ArraySize DEF HeapInv, InvKept
  <2>2. Permutes(S, input)
    BY DEF HeapInv, InvKept, S
  <2>3. Permutes([S EXCEPT ![0] = S[end], ![end] = S[0]], input)
    BY <1>4, <1>7, <2>1, <2>2, PermutesSwapped
  <2>4. QED
    BY <2>2, <2>3 DEF HeapInv, InvKept
<1>11. Settled' = T
  <2>1. Settled' = [arr' EXCEPT ![0] = arr'[0]] /\ arr' = T
    BY <1>3 DEF Settled
  <2> HIDE DEF T
  <2>2. QED
    BY <2>1, <1>7, <1>9
<1>12. InvPhase'
  <2>1. arr' = T
    BY <1>3
  <2> HIDE DEF T
  <2>2. elem' \in Numbers
    BY <1>3, <1>7, <1>9, <2>1
  <2>3. CASE end > 0
    <3>1. end \in 1 .. n - 1 /\ 0 \in 0 .. end - 1 /\ phase' = "extract"
      BY <1>1, <1>3, <1>4, <1>7, <2>3
    <3>2. QED
      BY <1>1, <1>2, <1>3, <1>9, <2>1, <2>2, <3>1 DEF InvPhase
  <2>4. CASE ~(end > 0)
    <3>1. end = 0 /\ phase' = "done"
      BY <1>3, <1>7, <2>4
    <3>2. QED
      BY <1>1, <1>2, <1>3, <1>9, <2>1, <2>2, <3>1 DEF InvPhase
  <2>5. QED
    BY <2>3, <2>4
<1> HIDE DEF T
<1>13. InvHeap'
  <2>1. Base' = 0
    BY <1>3 DEF Base
  <2>2. ASSUME NEW p \in Indices, NEW c \in Indices, c < end, Child(p, c)
        PROVE  (p # 0 => T[p] >= T[c]) /\ c # 0
    <3>1. p < c /\ c # 0 /\ c # end /\ p # end /\ c < size /\ 0 <= p
      BY <1>1, <1>4, <1>7, <2>2 DEF Child
    <3>2. QED
      BY <1>5, <1>9, <2>2, <3>1
  <2>3. QED
    BY <1>2, <1>3, <1>11, <2>1, <2>2 DEF InvHeap
<1>14. ASSUME NEW y \in Indices, end <= y PROVE Placed(T, y)
  <2>1. CASE y = end
    <3>1. T[y] = S[0]
      BY <1>9, <2>1
    <3>2. ASSUME NEW x \in Indices, x < y PROVE T[x] <= T[y]
      <4>1. S[x] <= S[0] /\ S[end] <= S[0]
        BY <1>1, <1>4, <1>7, <1>8, <2>1, <3>2
      <4>2. QED
        BY <1>7, <1>9, <2>1, <3>1, <3>2, <4>1
    <3>3. ASSUME NEW x \in Indices, y < x PROVE T[y] <= T[x]
      <4>1. size <= x /\ 0 < x /\ x # end
        BY <1>1, <1>4, <1>7, <2>1, <3>3
      <4>2. S[0] <= S[x]
        BY <1>6, <1>7, <4>1 DEF Placed
      <4>3. QED
        BY <1>9, <3>1, <4>1, <4>2
    <3>4. QED
      BY <3>2, <3>3 DEF Placed
  <2>2. CASE y # end
    <3>1. size <= y /\ 0 < y
      BY <1>1, <1>4, <1>7, <1>14, <2>2
    <3>2. T[y] = S[y]
      BY <1>9, <2>2, <3>1
    <3>3. ASSUME NEW x \in Indices, x < y PROVE T[x] <= T[y]
      <4>1. S[x] <= S[y] /\ S[0] <= S[y] /\ S[end] <= S[y]
        BY <1>1, <1>4, <1>6, <1>7, <3>1, <3>3 DEF Placed
      <4>2. QED
        BY <1>9, <3>2, <4>1
    <3>4. ASSUME NEW x \in Indices, y < x PROVE T[y] <= T[x]
      <4>1. x # 0 /\ x # end
        BY <1>7, <1>14, <3>1, <3>4
      <4>2. QED
        BY <1>6, <1>9, <3>1, <3>2, <3>4, <4>1 DEF Placed
    <3>5. QED
      BY <3>3, <3>4 DEF Placed
  <2>3. QED
    BY <2>1, <2>2
<1>15. InvBehind'
  BY <1>2, <1>3, <1>11, <1>14 DEF InvBehind, Placed
<1>16. InvKept(Settled)'
  BY <1>10, <1>11 DEF InvKept
<1>17. QED
  BY <1>12, <1>13, <1>15, <1>16 DEF HeapInv

\* Every step of HeapSort keeps the invariant.
LEMMA HeapKeeps == HeapInv /\ HeapNext => HeapInv'
<1>1. SUFFICES ASSUME HeapInv, HeapNext PROVE HeapInv'
  OBVIOUS
<1>2. UNCHANGED <<program, input>>
  BY <1>1 DEF HeapNext
<1>3. QED
  BY <1>1, <1>2, PercDownKeeps, BuildKeeps, ExtractKeeps DEF HeapNext

\* The invariant is what HeapSort promises.
LEMMA HeapSorting == HeapInv => HeapSorts
<1> SUFFICES ASSUME HeapInv PROVE HeapSorts
  OBVIOUS
<1>1. /\ n \in Nat /\ n > 0 /\ Indices = 0 .. n - 1
      /\ hole \in Indices /\ size \in 0..n
      /\ \A x \in Indices : Settled[x] = IF x = hole THEN elem ELSE arr[x]
  BY SettledIs
<1>2. DOMAIN arr = Indices
  BY DEF HeapInv, InvPhase
<1>3. HeapFinished \subseteq Indices /\ \A k \in HeapFinished : Placed(Settled, k) /\ Settled[k] = arr[k]
  <2>1. CASE phase = "done"
    <3>1. size = 0 /\ hole = 0 /\ elem = arr[0] /\ HeapFinished = Indices
      BY <1>2, <2>1 DEF HeapInv, InvPhase, HeapFinished, HeapDone
    <3>2. \A k \in Indices : size <= k
      BY <1>1, <3>1
    <3>3. QED
      BY <1>1, <3>1, <3>2 DEF HeapInv, InvBehind
  <2>2. CASE phase = "extract"
    <3>1. /\ HeapFinished = last .. n - 1 /\ size = last /\ hole \in 0 .. last - 1
          /\ last \in 1 .. n - 1
      BY <2>2 DEF HeapInv, InvPhase, HeapFinished, HeapDone
    <3>2. \A k \in last .. n - 1 : k \in Indices /\ size <= k /\ k # hole
      BY <1>1, <3>1
    <3>3. QED
      BY <1>1, <3>1, <3>2 DEF HeapInv, InvBehind
  <2>3. CASE phase = "build"
    BY <2>3 DEF HeapFinished, HeapDone
  <2>4. QED
    BY <2>1, <2>2, <2>3 DEF HeapInv, InvPhase
<1>4. QED
  BY <1>3, PlacedSorting DEF HeapInv, InvKept, HeapSorts

-----------------------------------------------------------------------------
(* MergeSort, fSort *)

Items == [do : {"sort", "merge"}, start : 0..n, mid : Int, end : -1 .. n - 1]

\* What a call or a merge works on lies in the array.
InPlace(c) == /\ program = "quick" => c.do = "sort"
              /\ c.do = "sort" => c.start <= c.end + 1
              /\ c.do = "merge" => c.start < c.mid /\ c.mid <= c.end

\* c is done before d: their parts are apart, or d merges what c prepares.
Before(c, d) == \/ c.end < d.start
                \/ d.end < c.start
                \/ /\ d.do = "merge"
                   /\ \/ d.start <= c.start /\ c.end < d.mid
                      \/ d.mid <= c.start /\ c.end <= d.end

InvStack == /\ stack \in Seq(Items)
            /\ \A p \in DOMAIN stack : InPlace(stack[p])
            /\ \A p, q \in DOMAIN stack : p < q => Before(stack[p], stack[q])

\* It is for c to put x and y in order.
Answers(c, x, y) == /\ c.start <= x /\ y <= c.end
                    /\ c.do = "merge" => x < c.mid /\ c.mid <= y

\* Two elements that are not in order are so only until their turn comes.
InvOrder == \A x, y \in Indices : x < y =>
              arr[x] <= arr[y] \/ \E p \in DOMAIN stack : Answers(stack[p], x, y)

\* The elements of b are those of c at the places in `taken`, each once.
TakenBy(g, taken, b, c) == /\ g \in [DOMAIN b -> taken]
                           /\ \A k, m \in DOMAIN b : g[k] = g[m] => k = m
                           /\ \A y \in taken : \E k \in DOMAIN b : g[k] = y
                           /\ \A k \in DOMAIN b : b[k] = c[g[k]]

\* What is taken is in order, and not greater than what is left of both halves.
InvMerge ==
  at = "merge" =>
    /\ stack # <<>> /\ First.do = "merge"
    /\ l \in First.start .. First.mid /\ r \in First.mid .. First.end + 1
    /\ tmpArr \in Seq(Numbers)
    /\ Len(tmpArr) = (l - First.start) + (r - First.mid)
    /\ \A k, m \in DOMAIN tmpArr : k < m => tmpArr[k] <= tmpArr[m]
    /\ \A k \in DOMAIN tmpArr, x \in (l .. First.mid - 1) \cup (r .. First.end) : tmpArr[k] <= arr[x]
    /\ \E g : TakenBy(g, (First.start .. l - 1) \cup (First.mid .. r - 1), tmpArr, arr)

\* What the scans have passed is on its side of the pivot; l does not leave the
\* part, and r may.
InvScan ==
  at \in {"left", "right", "exchange"} =>
    /\ stack # <<>> /\ First.do = "sort" /\ First.start < First.end
    /\ program = "quick"
    /\ l \in First.start .. First.end /\ r \in Int /\ r < First.end
    /\ \A x \in First.start .. l - 1 : arr[x] < Pivot
    /\ \A x \in First.start .. First.end - 1 : r < x => arr[x] >= Pivot
    /\ at # "left" => arr[l] >= Pivot
    /\ at = "exchange" /\ r >= 0 => arr[r] < Pivot

DivideInv == /\ InvKept(arr)
             /\ program \in {"merge", "quick"}
             /\ at \in {"call", "merge", "left", "right", "exchange"}
             /\ InvStack /\ InvOrder /\ InvMerge /\ InvScan

\* The array, and the first of the things to do.
LEMMA DivideIs ==
  ASSUME DivideInv
  PROVE  /\ n \in Nat /\ Indices = 0 .. n - 1
         /\ \A x \in Indices : x \in Int /\ 0 <= x /\ x < n
         /\ arr \in [Indices -> Numbers] /\ arr \in [Indices -> Int]
         /\ input \in [Indices -> Numbers]
         /\ \A p \in DOMAIN stack : /\ p \in Int /\ 1 <= p /\ stack[p] \in Items /\ InPlace(stack[p])
                                    /\ stack[p].start \in Int /\ stack[p].end \in Int /\ stack[p].mid \in Int
                                    /\ 0 <= stack[p].start /\ stack[p].end < n
         /\ stack # <<>> => First = stack[1] /\ 1 \in DOMAIN stack
<1>1. n \in Nat /\ Indices = 0 .. n - 1 /\ input \in [Indices -> Numbers]
  BY ArraySize DEF DivideInv, InvKept, Indices
<1>2. arr \in [Indices -> Numbers]
  BY <1>1, PermutesType DEF DivideInv, InvKept
<1>3. arr \in [Indices -> Int]
  BY <1>2, ArrayAssumption
<1>4. stack \in Seq(Items)
  BY DEF DivideInv, InvStack
<1>5. ASSUME NEW p \in DOMAIN stack
      PROVE  /\ p \in Int /\ 1 <= p /\ stack[p] \in Items /\ InPlace(stack[p])
             /\ stack[p].start \in Int /\ stack[p].end \in Int /\ stack[p].mid \in Int
             /\ 0 <= stack[p].start /\ stack[p].end < n
  <2>1. p \in Int /\ 1 <= p /\ stack[p] \in Items
    BY <1>4
  <2>2. InPlace(stack[p])
    BY DEF DivideInv, InvStack
  <2>3. stack[p].start \in 0..n /\ stack[p].mid \in Int /\ stack[p].end \in -1 .. n - 1
    BY <2>1 DEF Items
  <2>4. QED
    BY <1>1, <2>1, <2>2, <2>3
<1>6. stack # <<>> => First = stack[1] /\ 1 \in DOMAIN stack
  BY <1>4 DEF First
<1>7. \A x \in Indices : x \in Int /\ 0 <= x /\ x < n
  BY <1>1
<1>8. QED
  BY <1>1, <1>2, <1>3, <1>5, <1>6, <1>7

\* What lies in the part of c comes before whatever c comes before.
LEMMA BeforeWithin ==
  ASSUME NEW b, NEW c, NEW d, Before(c, d),
         b.start \in Int, b.end \in Int, c.start \in Int, c.end \in Int,
         d.start \in Int, d.end \in Int, d.mid \in Int,
         c.start <= b.start, b.end <= c.end
  PROVE  Before(b, d)
<1>1. CASE c.end < d.start
  BY <1>1 DEF Before
<1>2. CASE d.end < c.start
  BY <1>2 DEF Before
<1>3. CASE d.do = "merge" /\ d.start <= c.start /\ c.end < d.mid
  <2>1. d.start <= b.start /\ b.end < d.mid
    BY <1>3
  <2>2. QED
    BY <1>3, <2>1 DEF Before
<1>4. CASE d.do = "merge" /\ d.mid <= c.start /\ c.end <= d.end
  <2>1. d.mid <= b.start /\ b.end <= d.end
    BY <1>4
  <2>2. QED
    BY <1>4, <2>1 DEF Before
<1>5. QED
  BY <1>1, <1>2, <1>3, <1>4 DEF Before

\* The first of the things to do is replaced by what it does first.
LEMMA StackReplaced ==
  ASSUME InvStack, stack # <<>>, UNCHANGED <<program, input>>,
         n \in Nat, \A p \in DOMAIN stack : stack[p].start \in Int /\ stack[p].end \in Int /\ stack[p].mid \in Int,
         NEW new \in Seq(Items), stack' = new \o Tail(stack),
         \A p \in DOMAIN new : /\ InPlace(new[p])
                               /\ new[p].start \in Int /\ new[p].end \in Int /\ new[p].mid \in Int
                               /\ First.start <= new[p].start /\ new[p].end <= First.end,
         \A p, q \in DOMAIN new : p < q => Before(new[p], new[q])
  PROVE  /\ InvStack'
         /\ \A p \in DOMAIN new : p \in DOMAIN stack' /\ stack'[p] = new[p]
         /\ \A p \in DOMAIN stack : p # 1 => \E q \in DOMAIN stack' : stack'[q] = stack[p]
<1>1. stack \in Seq(Items)
  BY DEF InvStack
<1> DEFINE k == Len(new)
<1>2. /\ k \in Nat /\ DOMAIN new = 1..k
      /\ Len(stack) \in Nat /\ Len(stack) >= 1 /\ DOMAIN stack = 1..Len(stack)
      /\ Tail(stack) \in Seq(Items) /\ Len(Tail(stack)) = Len(stack) - 1
      /\ \A p \in 1 .. Len(stack) - 1 : Tail(stack)[p] = stack[p + 1]
      /\ First = stack[1] /\ 1 \in DOMAIN stack
  BY <1>1 DEF First
<1>3. /\ stack' \in Seq(Items)
      /\ DOMAIN stack' = 1 .. k + Len(stack) - 1
      /\ \A p \in 1..k : stack'[p] = new[p]
      /\ \A p \in k + 1 .. k + Len(stack) - 1 : stack'[p] = stack[p - k + 1]
  <2>1. stack' \in Seq(Items) /\ Len(stack') = k + Len(stack) - 1
    BY <1>2
  <2>2. \A p \in 1..k : stack'[p] = new[p]
    BY <1>2
  <2>3. ASSUME NEW p \in k + 1 .. k + Len(stack) - 1 PROVE stack'[p] = stack[p - k + 1]
    <3>1. stack'[p] = Tail(stack)[p - k]
      BY <1>2
    <3>2. p - k \in 1 .. Len(stack) - 1 /\ p - k + 1 = (p - k) + 1
      BY <1>2
    <3>3. QED
      BY <1>2, <3>1, <3>2
  <2>4. DOMAIN stack' = 1 .. k + Len(stack) - 1
    BY <2>1
  <2>5. QED
    BY <2>1, <2>2, <2>3, <2>4
<1> HIDE DEF k
<1>4. ASSUME NEW p \in DOMAIN stack', ~(p \in DOMAIN new)
      PROVE  p > k /\ p - k + 1 \in DOMAIN stack /\ p - k + 1 > 1 /\ stack'[p] = stack[p - k + 1] /\ p \in Int
  BY <1>2, <1>3, <1>4
<1>5. n' = n
  BY DEF n
<1>6. ASSUME NEW p \in DOMAIN stack' PROVE InPlace(stack'[p])
  <2>1. CASE p \in DOMAIN new
    BY <1>2, <1>3, <2>1
  <2>2. CASE ~(p \in DOMAIN new)
    BY <1>4, <2>2 DEF InvStack
  <2>3. QED
    BY <2>1, <2>2
<1>7. ASSUME NEW p \in DOMAIN stack', NEW q \in DOMAIN stack', p < q PROVE Before(stack'[p], stack'[q])
  <2>1. CASE q \in DOMAIN new
    <3>1. p \in DOMAIN new
      BY <1>2, <1>3, <1>7, <2>1
    <3>2. QED
      BY <1>2, <1>3, <1>7, <2>1, <3>1
  <2>2. CASE ~(q \in DOMAIN new) /\ p \in DOMAIN new
    <3>1. PICK m \in DOMAIN stack : 1 < m /\ stack'[q] = stack[m]
      BY <1>4, <2>2
    <3>2. Before(stack[1], stack[m])
      BY <1>2, <3>1 DEF InvStack
    <3>3. stack'[p] = new[p]
      BY <1>2, <1>3, <2>2
    <3>4. Before(new[p], stack[m])
      <4>1. /\ First.start <= new[p].start /\ new[p].end <= First.end
            /\ new[p].start \in Int /\ new[p].end \in Int
        BY <2>2
      <4>2. /\ stack[m].start \in Int /\ stack[m].end \in Int /\ stack[m].mid \in Int
            /\ First.start \in Int /\ First.end \in Int
        BY <1>2
      <4>3. Before(First, stack[m])
        BY <1>2, <3>2
      <4>4. QED
        BY <4>1, <4>2, <4>3, BeforeWithin
    <3>5. QED
      BY <3>1, <3>3, <3>4
  <2>3. CASE ~(q \in DOMAIN new) /\ ~(p \in DOMAIN new)
    <3>1. /\ p - k + 1 \in DOMAIN stack /\ stack'[p] = stack[p - k + 1] /\ p \in Int
          /\ q - k + 1 \in DOMAIN stack /\ stack'[q] = stack[q - k + 1] /\ q \in Int
      BY <1>4, <2>3
    <3>2. p - k + 1 < q - k + 1
      BY <1>2, <1>7, <3>1
    <3>3. QED
      BY <3>1, <3>2 DEF InvStack
  <2>4. QED
    BY <2>1, <2>2, <2>3
<1>8. InvStack'
  <2>1. Items' = Items
    BY <1>5 DEF Items
  <2>2. QED
    BY <1>3, <1>6, <1>7, <2>1 DEF InvStack, InPlace, Before
<1>9. ASSUME NEW p \in DOMAIN stack, p # 1 PROVE \E q \in DOMAIN stack' : stack'[q] = stack[p]
  <2>1. p \in Int /\ 1 < p /\ p <= Len(stack) /\ k \in Int /\ Len(stack) \in Int
    BY <1>2, <1>9
  <2> DEFINE q == p + k - 1
  <2>2. q \in Int /\ k + 1 <= q /\ q <= k + Len(stack) - 1 /\ q - k + 1 = p /\ 1 <= q
    BY <1>2, <2>1
  <2> HIDE DEF q
  <2>3. q \in k + 1 .. k + Len(stack) - 1 /\ q \in DOMAIN stack'
    BY <1>2, <1>3, <2>1, <2>2
  <2>4. stack'[q] = stack[p]
    BY <1>3, <2>2, <2>3
  <2>5. QED
    BY <2>3, <2>4
<1>10. ASSUME NEW p \in DOMAIN new PROVE p \in DOMAIN stack' /\ stack'[p] = new[p]
  <2>1. p \in 1..k /\ k <= k + Len(stack) - 1
    BY <1>2
  <2>2. QED
    BY <1>2, <1>3, <2>1
<1>11. QED
  BY <1>8, <1>9, <1>10

\* Two elements of the part that is worked on wait for nothing else.
LEMMA NotAnswered ==
  ASSUME DivideInv, stack # <<>>, NEW p \in DOMAIN stack, p # 1,
         NEW x \in First.start .. First.end, NEW y \in First.start .. First.end, x < y
  PROVE  ~Answers(stack[p], x, y)
<1>1. /\ First = stack[1] /\ 1 \in DOMAIN stack /\ p \in Int /\ 1 <= p
      /\ First.start \in Int /\ First.end \in Int
      /\ stack[p].start \in Int /\ stack[p].end \in Int /\ stack[p].mid \in Int
  <2>1. \A q \in DOMAIN stack : q \in Int /\ 1 <= q
    BY DivideIs
  <2>2. First = stack[1] /\ 1 \in DOMAIN stack
    BY DivideIs
  <2>3. \A q \in DOMAIN stack : stack[q].start \in Int /\ stack[q].end \in Int /\ stack[q].mid \in Int
    BY DivideIs
  <2>4. QED
    BY <2>1, <2>2, <2>3
<1>2. Before(First, stack[p])
  <2>1. 1 < p
    BY <1>1
  <2>2. QED
    BY <1>1, <2>1 DEF DivideInv, InvStack
<1>3. x \in Int /\ y \in Int /\ First.start <= x /\ x <= First.end /\ First.start <= y /\ y <= First.end
  BY <1>1
<1>4. CASE stack[p].do = "merge" /\ stack[p].start <= First.start /\ First.end < stack[p].mid
  BY <1>1, <1>3, <1>4 DEF Answers
<1>5. CASE stack[p].do = "merge" /\ stack[p].mid <= First.start /\ First.end <= stack[p].end
  BY <1>1, <1>3, <1>5 DEF Answers
<1>6. CASE First.end < stack[p].start \/ stack[p].end < First.start
  BY <1>1, <1>3, <1>6 DEF Answers
<1>7. QED
  BY <1>2, <1>4, <1>5, <1>6 DEF Before

\* What waits for d still does when one of the two moves in the part of c.
LEMMA AnswersMoved ==
  ASSUME NEW c, NEW d, Before(c, d),
         c.start \in Int, c.end \in Int, d.start \in Int, d.end \in Int, d.mid \in Int,
         NEW x \in Int, NEW y \in Int, NEW u \in Int, NEW v \in Int, Answers(d, u, v),
         \/ /\ v = y /\ c.end < y
            /\ c.start <= u /\ u <= c.end /\ c.start <= x /\ x <= c.end
         \/ /\ u = x /\ x < c.start
            /\ c.start <= v /\ v <= c.end /\ c.start <= y /\ y <= c.end
  PROVE  Answers(d, x, y)
<1>1. /\ d.start <= u /\ v <= d.end
      /\ d.do = "merge" => u < d.mid /\ d.mid <= v
  BY DEF Answers
<1>2. ~(c.end < d.start) /\ ~(d.end < c.start)
  BY <1>1
<1>3. d.start <= x /\ y <= d.end /\ d.do = "merge"
  BY <1>1, <1>2 DEF Before
<1>4. x < d.mid /\ d.mid <= y
  BY <1>1, <1>2, <1>3 DEF Before
<1>5. QED
  BY <1>3, <1>4 DEF Answers

\* An element of the part in place of another leaves the order with what is
\* outside of the part as it is.
LEMMA OutsideOrder ==
  ASSUME DivideInv, stack # <<>>, NEW x \in Indices, NEW y \in Indices, x < y,
         NEW u \in Indices, NEW v \in Indices,
         u # x => x \in First.start .. First.end /\ u \in First.start .. First.end,
         v # y => y \in First.start .. First.end /\ v \in First.start .. First.end,
         ~(x \in First.start .. First.end /\ y \in First.start .. First.end)
  PROVE  arr[u] <= arr[v] \/ \E p \in DOMAIN stack : p # 1 /\ Answers(stack[p], x, y)
<1>1. /\ First = stack[1] /\ 1 \in DOMAIN stack
      /\ First.start \in Int /\ First.end \in Int
      /\ x \in Int /\ y \in Int /\ u \in Int /\ v \in Int
  BY DivideIs
<1>2. u < v /\ ~(First.start <= u /\ v <= First.end)
  BY <1>1
<1>3. SUFFICES ASSUME NEW p \in DOMAIN stack, Answers(stack[p], u, v)
               PROVE  p # 1 /\ Answers(stack[p], x, y)
  BY <1>2 DEF DivideInv, InvOrder
<1>4. p # 1
  BY <1>1, <1>2, <1>3 DEF Answers
<1>5. /\ p \in Int /\ 1 < p
      /\ stack[p].start \in Int /\ stack[p].end \in Int /\ stack[p].mid \in Int
  <2>1. /\ p \in Int /\ 1 <= p
        /\ stack[p].start \in Int /\ stack[p].end \in Int /\ stack[p].mid \in Int
    BY DivideIs
  <2>2. QED
    BY <1>4, <2>1
<1>6. Before(First, stack[p])
  BY <1>1, <1>5 DEF DivideInv, InvStack
<1>7. Answers(stack[p], x, y)
  <2>1. CASE x \in First.start .. First.end
    <3>1. v = y /\ First.end < y /\ First.start <= u /\ u <= First.end /\ First.start <= x /\ x <= First.end
      BY <1>1, <2>1
    <3>2. QED
      BY <1>1, <1>3, <1>5, <1>6, <3>1, AnswersMoved
  <2>2. CASE y \in First.start .. First.end
    <3>1. u = x /\ x < First.start /\ First.start <= v /\ v <= First.end /\ First.start <= y /\ y <= First.end
      BY <1>1, <2>2
    <3>2. QED
      BY <1>1, <1>3, <1>5, <1>6, <3>1, AnswersMoved
  <2>3. CASE x \notin First.start .. First.end /\ y \notin First.start .. First.end
    BY <1>3, <2>3
  <2>4. QED
    BY <2>1, <2>2, <2>3
<1>8. QED
  BY <1>4, <1>7

\* The array, rearranged.
Moved(f) == [x \in Indices |-> arr[f[x]]]

\* Elements of the part that is worked on change places.
MovesInPart(f) == \A x \in Indices :
                    /\ f[x] \in Indices
                    /\ f[x] # x => x \in First.start .. First.end /\ f[x] \in First.start .. First.end

\* A step that rearranges the part of the first thing to do, and replaces it,
\* keeps the order if what it leaves unordered in the part is still to be done.
LEMMA OrderKept ==
  ASSUME DivideInv, stack # <<>>, UNCHANGED <<program, input>>,
         NEW f, arr' = Moved(f), MovesInPart(f),
         \A p \in DOMAIN stack : p # 1 => \E q \in DOMAIN stack' : stack'[q] = stack[p],
         \A x, y \in Indices :
           x \in First.start .. First.end /\ y \in First.start .. First.end /\ x < y =>
             arr'[x] <= arr'[y] \/ \E q \in DOMAIN stack' : Answers(stack'[q], x, y)
  PROVE  InvOrder'
<1>1. n' = n /\ Indices' = Indices
  BY DEF n, Indices
<1>2. ASSUME NEW x \in Indices, NEW y \in Indices, x < y
      PROVE  arr'[x] <= arr'[y] \/ \E q \in DOMAIN stack' : Answers(stack'[q], x, y)
  <2>1. CASE x \in First.start .. First.end /\ y \in First.start .. First.end
    BY <1>2, <2>1
  <2>2. CASE ~(x \in First.start .. First.end /\ y \in First.start .. First.end)
    <3>1. arr[f[x]] <= arr[f[y]] \/ \E p \in DOMAIN stack : p # 1 /\ Answers(stack[p], x, y)
      BY <1>2, <2>2, OutsideOrder DEF MovesInPart
    <3>2. arr'[x] = arr[f[x]] /\ arr'[y] = arr[f[y]]
      BY DEF Moved
    <3>3. QED
      BY <3>1, <3>2
  <2>3. QED
    BY <2>1, <2>2
<1>3. QED
  BY <1>1, <1>2 DEF InvOrder, Answers

\* Nothing but the first thing to do is replaced.
LEMMA OrderSplit ==
  ASSUME DivideInv, stack # <<>>, UNCHANGED <<program, input, arr>>,
         \A p \in DOMAIN stack : p # 1 => \E q \in DOMAIN stack' : stack'[q] = stack[p],
         \A x, y \in Indices :
           x < y /\ Answers(First, x, y) => \E q \in DOMAIN stack' : Answers(stack'[q], x, y)
  PROVE  InvOrder'
<1>1. n' = n /\ Indices' = Indices
  BY DEF n, Indices
<1>2. First = stack[1]
  BY DivideIs
<1>3. ASSUME NEW x \in Indices, NEW y \in Indices, x < y, ~(arr[x] <= arr[y])
      PROVE  \E q \in DOMAIN stack' : Answers(stack'[q], x, y)
  <2>1. PICK p \in DOMAIN stack : Answers(stack[p], x, y)
    BY <1>3 DEF DivideInv, InvOrder
  <2>2. QED
    BY <1>2, <1>3, <2>1
<1>4. QED
  BY <1>1, <1>3 DEF InvOrder, Answers

\* A sort starts with a call on the whole array.
LEMMA DivideInitInv == DivideInit => DivideInv
<1> SUFFICES ASSUME DivideInit PROVE DivideInv
  OBVIOUS
<1>1. /\ input \in Arrays /\ arr = input /\ stack = <<Call(0, n - 1)>> /\ at = "call"
      /\ program \in {"merge", "quick"}
  BY DEF DivideInit, ArrayInit
<1>2. n \in Nat /\ input \in [Indices -> Int] /\ Indices = 0 .. n - 1
  BY <1>1, ArraySize DEF Indices
<1>3. InvKept(arr)
  BY <1>1, <1>2, PermutesItself DEF InvKept
<1> DEFINE c == Call(0, n - 1)
<1>4. c.do = "sort" /\ c.start = 0 /\ c.end = n - 1 /\ c \in Items
  BY <1>2 DEF Call, Items
<1>5. stack \in Seq(Items) /\ DOMAIN stack = {1} /\ stack[1] = c
  BY <1>1, <1>4
<1> HIDE DEF c
<1>6. InPlace(c)
  BY <1>2, <1>4 DEF InPlace
<1>7. InvStack
  BY <1>5, <1>6 DEF InvStack
<1>8. InvOrder
  <2>1. \A x, y \in Indices : Answers(c, x, y)
    BY <1>2, <1>4 DEF Answers
  <2>2. QED
    BY <1>5, <2>1 DEF InvOrder
<1>9. QED
  BY <1>1, <1>3, <1>7, <1>8 DEF DivideInv, InvMerge, InvScan

\* The first thing to do is done.
LEMMA StackPopped ==
  ASSUME DivideInv, stack # <<>>, stack' = Tail(stack), UNCHANGED <<program, input>>
  PROVE  /\ InvStack'
         /\ \A p \in DOMAIN stack : p # 1 => \E q \in DOMAIN stack' : stack'[q] = stack[p]
<1>1. n \in Nat /\ First = stack[1] /\ 1 \in DOMAIN stack
  BY DivideIs
<1>2. \A p \in DOMAIN stack : stack[p].start \in Int /\ stack[p].end \in Int /\ stack[p].mid \in Int
  BY DivideIs
<1> DEFINE new == <<>>
<1>3. new \in Seq(Items) /\ DOMAIN new = {} /\ stack' = new \o Tail(stack)
  <2>1. Tail(stack) \in Seq(Items)
    BY DEF DivideInv, InvStack
  <2>2. QED
    BY <2>1
<1> HIDE DEF new
<1>4. InvStack
  BY DEF DivideInv
<1>5. QED
  BY <1>1, <1>2, <1>3, <1>4, StackReplaced

\* A call on at most one element has nothing to do.
LEMMA ReturnKeeps ==
  ASSUME DivideInv, ReturnAtOnce, UNCHANGED <<program, input>>
  PROVE  DivideInv'
<1>1. /\ stack # <<>> /\ at = "call" /\ First.do = "sort" /\ First.start >= First.end
      /\ stack' = Tail(stack) /\ UNCHANGED <<arr, at>>
  BY DEF ReturnAtOnce, ToDo
<1>2. /\ InvStack'
      /\ \A p \in DOMAIN stack : p # 1 => \E q \in DOMAIN stack' : stack'[q] = stack[p]
  BY <1>1, StackPopped
<1>3. ASSUME NEW x \in Indices, NEW y \in Indices, x < y, Answers(First, x, y) PROVE FALSE
  <2>1. First = stack[1] /\ 1 \in DOMAIN stack /\ x \in Int /\ y \in Int
    BY <1>1, DivideIs
  <2>2. First.start \in Int /\ First.end \in Int
    BY <2>1, DivideIs
  <2>3. QED
    BY <1>1, <1>3, <2>1, <2>2 DEF Answers
<1>4. InvOrder'
  BY <1>1, <1>2, <1>3, OrderSplit
<1>5. QED
  BY <1>1, <1>2, <1>4 DEF DivideInv, InvKept, InvMerge, InvScan

\* MergeSort calls itself on the halves before it merges them.
LEMMA MergeSplitKeeps ==
  ASSUME DivideInv, MergeSplit, UNCHANGED <<program, input>>
  PROVE  DivideInv'
<1> DEFINE s == First.start
           e == First.end
           m == (s + e) \div 2
           new == <<Call(s, m), Call(m + 1, e), Merge(s, m + 1, e)>>
<1>1. /\ stack # <<>> /\ at = "call" /\ First.do = "sort" /\ s < e /\ program = "merge"
      /\ stack' = new \o Tail(stack) /\ UNCHANGED <<arr, at>>
  BY DEF MergeSplit, ToDo
<1>2. /\ n \in Nat /\ First = stack[1] /\ 1 \in DOMAIN stack
      /\ \A x \in Indices : x \in Int
  BY <1>1, DivideIs
<1>3. \A p \in DOMAIN stack : stack[p].start \in Int /\ stack[p].end \in Int /\ stack[p].mid \in Int
  BY DivideIs
<1>4. s \in Int /\ e \in Int /\ 0 <= s /\ e < n
  <2>1. \A p \in DOMAIN stack : 0 <= stack[p].start /\ stack[p].end < n
    BY DivideIs
  <2>2. QED
    BY <1>2, <1>3, <2>1
<1> HIDE DEF s, e
<1>5. m \in Int /\ s <= m /\ m < e
  BY <1>1, <1>4
<1> HIDE DEF m
<1>6. /\ s \in 0..n /\ m + 1 \in 0..n /\ m \in -1 .. n - 1 /\ e \in -1 .. n - 1
      /\ m \in Int /\ m + 1 \in Int
  BY <1>2, <1>4, <1>5
<1>7. /\ DOMAIN new = 1..3 /\ new \in Seq(Items)
      /\ new[1] = Call(s, m) /\ new[2] = Call(m + 1, e) /\ new[3] = Merge(s, m + 1, e)
  <2>1. Call(s, m) \in Items /\ Call(m + 1, e) \in Items /\ Merge(s, m + 1, e) \in Items
    BY <1>4, <1>6 DEF Call, Merge, Items
  <2>2. QED
    BY <2>1
<1> HIDE DEF new
<1>8. /\ new[1].do = "sort"  /\ new[1].start = s     /\ new[1].mid = m     /\ new[1].end = m
      /\ new[2].do = "sort"  /\ new[2].start = m + 1 /\ new[2].mid = e     /\ new[2].end = e
      /\ new[3].do = "merge" /\ new[3].start = s     /\ new[3].mid = m + 1 /\ new[3].end = e
  BY <1>7 DEF Call, Merge
<1>9. \A p \in DOMAIN new : p = 1 \/ p = 2 \/ p = 3
  BY <1>7
<1>10. ASSUME NEW p \in DOMAIN new
       PROVE  /\ InPlace(new[p])
              /\ new[p].start \in Int /\ new[p].end \in Int /\ new[p].mid \in Int
              /\ First.start <= new[p].start /\ new[p].end <= First.end
  <2>1. InPlace(new[1]) /\ InPlace(new[2])
    BY <1>1, <1>4, <1>5, <1>8 DEF InPlace
  <2>2. InPlace(new[3])
    BY <1>1, <1>4, <1>5, <1>8 DEF InPlace
  <2>3. /\ s <= new[1].start /\ new[1].end <= e
        /\ s <= new[2].start /\ new[2].end <= e
        /\ s <= new[3].start /\ new[3].end <= e
    BY <1>4, <1>5, <1>8
  <2>4. /\ new[1].start \in Int /\ new[1].end \in Int /\ new[1].mid \in Int
        /\ new[2].start \in Int /\ new[2].end \in Int /\ new[2].mid \in Int
        /\ new[3].start \in Int /\ new[3].end \in Int /\ new[3].mid \in Int
    BY <1>4, <1>6, <1>8
  <2>5. QED
    BY <1>9, <2>1, <2>2, <2>3, <2>4 DEF s, e
<1>11. ASSUME NEW p \in DOMAIN new, NEW q \in DOMAIN new, p < q PROVE Before(new[p], new[q])
  <2>1. Before(new[1], new[2])
    BY <1>4, <1>5, <1>8 DEF Before
  <2>2. Before(new[1], new[3])
    BY <1>4, <1>5, <1>8 DEF Before
  <2>3. Before(new[2], new[3])
    BY <1>4, <1>5, <1>8 DEF Before
  <2>4. (p = 1 /\ q = 2) \/ (p = 1 /\ q = 3) \/ (p = 2 /\ q = 3)
    <3>1. p \in 1..3 /\ q \in 1..3
      BY <1>7
    <3>2. QED
      BY <1>11, <3>1
  <2>5. QED
    BY <2>1, <2>2, <2>3, <2>4
<1>12. /\ InvStack'
       /\ \A p \in DOMAIN new : p \in DOMAIN stack' /\ stack'[p] = new[p]
       /\ \A p \in DOMAIN stack : p # 1 => \E q \in DOMAIN stack' : stack'[q] = stack[p]
  <2>1. InvStack
    BY DEF DivideInv
  <2>2. QED
    BY <1>1, <1>2, <1>3, <1>7, <1>10, <1>11, <2>1, StackReplaced
<1>13. ASSUME NEW x \in Indices, NEW y \in Indices, x < y, Answers(First, x, y)
       PROVE  \E q \in DOMAIN stack' : Answers(stack'[q], x, y)
  <2>1. s <= x /\ y <= e /\ x \in Int /\ y \in Int
    BY <1>2, <1>13 DEF Answers, s, e
  <2>2. \A p \in 1..3 : p \in DOMAIN stack' /\ stack'[p] = new[p]
    BY <1>7, <1>12
  <2>3. Answers(new[1], x, y) \/ Answers(new[2], x, y) \/ Answers(new[3], x, y)
    BY <1>4, <1>5, <1>8, <1>13, <2>1 DEF Answers
  <2>4. 1 \in 1..3 /\ 2 \in 1..3 /\ 3 \in 1..3
    OBVIOUS
  <2>5. QED
    BY <2>2, <2>3, <2>4
<1>14. InvOrder'
  BY <1>1, <1>12, <1>13, OrderSplit
<1>15. QED
  BY <1>1, <1>12, <1>14 DEF DivideInv, InvKept, InvMerge, InvScan

\* The part that is worked on.
LEMMA FirstIs ==
  ASSUME DivideInv, stack # <<>>
  PROVE  /\ First = stack[1] /\ 1 \in DOMAIN stack /\ InPlace(First)
         /\ First.start \in Int /\ First.end \in Int /\ First.mid \in Int
         /\ 0 <= First.start /\ First.end < n /\ n \in Nat
         /\ \A x \in Int : First.start <= x /\ x <= First.end => x \in Indices
<1>1. First = stack[1] /\ 1 \in DOMAIN stack
  BY DivideIs
<1>2. \A p \in DOMAIN stack : /\ InPlace(stack[p])
                              /\ stack[p].start \in Int /\ stack[p].end \in Int /\ stack[p].mid \in Int
                              /\ 0 <= stack[p].start /\ stack[p].end < n
  BY DivideIs
<1>3. /\ InPlace(First)
      /\ First.start \in Int /\ First.end \in Int /\ First.mid \in Int
      /\ 0 <= First.start /\ First.end < n
  BY <1>1, <1>2
<1>4. n \in Nat /\ Indices = 0 .. n - 1
  BY DivideIs
<1>5. QED
  BY <1>1, <1>3, <1>4

\* What a merge puts together is in order by then.
LEMMA HalvesSorted ==
  ASSUME DivideInv, stack # <<>>, First.do = "merge",
         NEW x \in Int, NEW y \in Int, x <= y,
         \/ First.start <= x /\ y < First.mid
         \/ First.mid <= x /\ y <= First.end
  PROVE  arr[x] <= arr[y]
<1>1. /\ First = stack[1] /\ First.start \in Int /\ First.end \in Int /\ First.mid \in Int
      /\ First.start < First.mid /\ First.mid <= First.end
      /\ \A z \in Int : First.start <= z /\ z <= First.end => z \in Indices
  BY FirstIs DEF InPlace
<1>2. First.start <= x /\ y <= First.end /\ ~(x < First.mid /\ First.mid <= y)
  BY <1>1
<1>3. x \in Indices /\ y \in Indices
  BY <1>1, <1>2
<1>4. CASE x = y
  <2>1. arr[x] \in Int
    BY <1>3, DivideIs
  <2>2. QED
    BY <1>4, <2>1
<1>5. CASE x < y
  <2>1. x \in First.start .. First.end /\ y \in First.start .. First.end
    BY <1>1, <1>2, <1>5
  <2>2. ASSUME NEW p \in DOMAIN stack PROVE ~Answers(stack[p], x, y)
    <3>1. CASE p = 1
      BY <1>1, <1>2, <3>1 DEF Answers
    <3>2. CASE p # 1
      BY <1>5, <2>1, <3>2, NotAnswered
    <3>3. QED
      BY <3>1, <3>2
  <2>3. QED
    BY <1>3, <1>5, <2>2 DEF DivideInv, InvOrder
<1>6. QED
  BY <1>4, <1>5

\* A merge starts with nothing taken.
LEMMA MergeStartKeeps ==
  ASSUME DivideInv, MergeStart, UNCHANGED <<program, input>>
  PROVE  DivideInv'
<1>1. /\ stack # <<>> /\ First.do = "merge" /\ l' = First.start /\ r' = First.mid
      /\ at' = "merge" /\ tmpArr' = <<>> /\ UNCHANGED <<arr, stack>>
  BY DEF MergeStart, ToDo
<1>2. /\ First.start \in Int /\ First.end \in Int /\ First.mid \in Int
      /\ First.start < First.mid /\ First.mid <= First.end
  BY <1>1, FirstIs DEF InPlace
<1>3. n' = n /\ Indices' = Indices /\ Items' = Items /\ First' = First
  BY <1>1 DEF n, Indices, Items, First
<1>4. InvStack' /\ InvOrder'
  BY <1>1, <1>3 DEF DivideInv, InvStack, InvOrder, InPlace, Before, Answers
<1>5. \E g : TakenBy(g, (First.start .. First.start - 1) \cup (First.mid .. First.mid - 1), tmpArr', arr')
  <2> DEFINE g == [k \in {} |-> 0]
  <2>1. (First.start .. First.start - 1) \cup (First.mid .. First.mid - 1) = {}
    BY <1>2
  <2>2. DOMAIN tmpArr' = {}
    BY <1>1
  <2>3. TakenBy(g, (First.start .. First.start - 1) \cup (First.mid .. First.mid - 1), tmpArr', arr')
    BY <2>1, <2>2 DEF TakenBy
  <2> HIDE DEF g
  <2>4. QED
    BY <2>3
<1>6. InvMerge'
  <2>1. /\ l' \in First.start .. First.mid /\ r' \in First.mid .. First.end + 1
        /\ tmpArr' \in Seq(Numbers) /\ DOMAIN tmpArr' = {}
        /\ Len(tmpArr') = (l' - First.start) + (r' - First.mid)
    BY <1>1, <1>2
  <2>2. QED
    BY <1>1, <1>3, <1>5, <2>1 DEF InvMerge
<1>7. QED
  BY <1>1, <1>4, <1>6 DEF DivideInv, InvKept, InvScan

\* What merge has taken, one more element included.
LEMMA TakenAppended ==
  ASSUME NEW b \in Seq(Numbers), NEW c, NEW taken, NEW src, src \notin taken, c[src] \in Numbers,
         NEW g, TakenBy(g, taken, b, c)
  PROVE  \E h : TakenBy(h, taken \cup {src}, Append(b, c[src]), c)
<1> DEFINE m == Len(b)
           d == Append(b, c[src])
           h == [k \in 1 .. m + 1 |-> IF k = m + 1 THEN src ELSE g[k]]
<1>1. /\ m \in Nat /\ DOMAIN b = 1..m
      /\ DOMAIN d = 1 .. m + 1
      /\ \A k \in 1..m : d[k] = b[k]
      /\ d[m + 1] = c[src]
  OBVIOUS
<1> HIDE DEF m, d
<1>2. /\ g \in [1..m -> taken]
      /\ \A k, x \in 1..m : g[k] = g[x] => k = x
      /\ \A y \in taken : \E k \in 1..m : g[k] = y
      /\ \A k \in 1..m : b[k] = c[g[k]]
  BY <1>1 DEF TakenBy
<1>3. /\ \A k \in 1 .. m + 1 : k = m + 1 \/ k \in 1..m
      /\ \A k \in 1..m : k # m + 1 /\ k \in 1 .. m + 1
      /\ m + 1 \in 1 .. m + 1
  BY <1>1
<1>4. (\A k \in 1..m : h[k] = g[k] /\ h[k] \in taken) /\ h[m + 1] = src
  BY <1>2, <1>3
<1>5. h \in [1 .. m + 1 -> taken \cup {src}]
  BY <1>2, <1>3
<1> HIDE DEF h
<1>6. \A k, x \in 1 .. m + 1 : h[k] = h[x] => k = x
  BY <1>2, <1>3, <1>4
<1>7. \A y \in taken \cup {src} : \E k \in 1 .. m + 1 : h[k] = y
  BY <1>2, <1>3, <1>4
<1>8. \A k \in 1 .. m + 1 : d[k] = c[h[k]]
  BY <1>1, <1>2, <1>3, <1>4
<1>9. TakenBy(h, taken \cup {src}, d, c)
  BY <1>1, <1>5, <1>6, <1>7, <1>8 DEF TakenBy
<1>10. QED
  BY <1>9 DEF d

\* The smaller head is not greater than what is left of either half.
LEMMA MergeTakeKeeps ==
  ASSUME DivideInv, MergeTake, UNCHANGED <<program, input>>
  PROVE  DivideInv'
<1> DEFINE s == First.start
           m == First.mid
           e == First.end
           fromLeft == l < m /\ (r > e \/ arr[l] < arr[r])
           src == IF fromLeft THEN l ELSE r
           left == (l .. m - 1) \cup (r .. e)
           taken == (s .. l - 1) \cup (m .. r - 1)
<1>1. /\ at = "merge" /\ (l < m \/ r <= e)
      /\ tmpArr' = Append(tmpArr, arr[src])
      /\ l' = (IF fromLeft THEN l + 1 ELSE l)
      /\ r' = (IF fromLeft THEN r ELSE r + 1)
      /\ UNCHANGED <<arr, stack, at>>
  BY DEF MergeTake
<1>2. /\ stack # <<>> /\ First.do = "merge"
      /\ l \in s .. m /\ r \in m .. e + 1
      /\ tmpArr \in Seq(Numbers)
      /\ Len(tmpArr) = (l - s) + (r - m)
      /\ \A k, x \in DOMAIN tmpArr : k < x => tmpArr[k] <= tmpArr[x]
      /\ \A k \in DOMAIN tmpArr, x \in left : tmpArr[k] <= arr[x]
      /\ \E g : TakenBy(g, taken, tmpArr, arr)
  BY <1>1 DEF DivideInv, InvMerge
<1>3. /\ s \in Int /\ e \in Int /\ m \in Int /\ s < m /\ m <= e
      /\ \A x \in Int : s <= x /\ x <= e => x \in Indices
  BY <1>2, FirstIs DEF InPlace
<1>4. n' = n /\ Indices' = Indices /\ Items' = Items /\ First' = First
  BY <1>1 DEF n, Indices, Items, First
<1>5. InvStack' /\ InvOrder'
  BY <1>1, <1>4 DEF DivideInv, InvStack, InvOrder, InPlace, Before, Answers
<1>6. arr \in [Indices -> Numbers] /\ arr \in [Indices -> Int]
  BY DivideIs
<1>7. \A x, y \in Int : x <= y /\ ((s <= x /\ y < m) \/ (m <= x /\ y <= e)) => arr[x] <= arr[y]
  BY <1>2, HalvesSorted
<1> HIDE DEF s, m, e
<1>8. /\ l \in Int /\ s <= l /\ l <= m /\ r \in Int /\ m <= r /\ r <= e + 1
      /\ ~fromLeft => r <= e /\ (l < m => arr[r] <= arr[l])
      /\ fromLeft => l < m /\ (r <= e => arr[l] <= arr[r])
  <2>1. l \in Int /\ s <= l /\ l <= m /\ r \in Int /\ m <= r /\ r <= e + 1
    BY <1>2, <1>3
  <2>2. /\ l < m => arr[l] \in Int
        /\ r <= e => arr[r] \in Int
    BY <1>3, <1>6, <2>1
  <2>3. QED
    BY <1>1, <1>3, <2>1, <2>2
<1>9. \A x \in left : x \in Int /\ x \in Indices /\ arr[x] \in Int
  BY <1>3, <1>6, <1>8
<1>10. src \in left /\ src \in Int /\ src \notin taken /\ arr[src] \in Numbers
  <2>1. src \in left /\ src \notin taken
    BY <1>3, <1>8
  <2> HIDE DEF src, left
  <2>2. QED
    BY <1>6, <1>9, <2>1
<1> DEFINE left2 == (l' .. m - 1) \cup (r' .. e)
<1>11. ASSUME NEW x \in left2 PROVE x \in left /\ arr[src] <= arr[x]
  <2>1. CASE fromLeft
    <3>1. l' = l + 1 /\ r' = r /\ src = l
      BY <1>1, <2>1
    <3>2. CASE x \in l + 1 .. m - 1
      <4>1. x \in Int /\ l <= x /\ x < m /\ x \in left
        BY <1>3, <1>8, <3>2
      <4>2. arr[src] <= arr[x]
        BY <1>7, <1>8, <3>1, <4>1
      <4>3. QED
        BY <4>1, <4>2
    <3>3. CASE x \in r .. e
      <4>1. x \in Int /\ r <= x /\ x <= e /\ r <= e /\ l \in left /\ r \in left /\ x \in left
        BY <1>3, <1>8, <2>1, <3>3
      <4>2. arr[l] <= arr[r] /\ arr[r] <= arr[x]
        BY <1>7, <1>8, <2>1, <4>1
      <4>3. arr[l] \in Int /\ arr[r] \in Int /\ arr[x] \in Int
        BY <1>9, <4>1
      <4>4. QED
        BY <3>1, <4>1, <4>2, <4>3
    <3>4. QED
      BY <1>11, <3>1, <3>2, <3>3
  <2>2. CASE ~fromLeft
    <3>1. l' = l /\ r' = r + 1 /\ src = r
      BY <1>1, <2>2
    <3>2. CASE x \in r + 1 .. e
      <4>1. x \in Int /\ r <= x /\ x <= e /\ x \in left
        BY <1>3, <1>8, <3>2
      <4>2. arr[src] <= arr[x]
        BY <1>7, <1>8, <3>1, <4>1
      <4>3. QED
        BY <4>1, <4>2
    <3>3. CASE x \in l .. m - 1
      <4>1. x \in Int /\ l <= x /\ x < m /\ l < m /\ r <= e /\ l \in left /\ r \in left /\ x \in left
        BY <1>3, <1>8, <2>2, <3>3
      <4>2. arr[r] <= arr[l] /\ arr[l] <= arr[x]
        BY <1>7, <1>8, <2>2, <4>1
      <4>3. arr[l] \in Int /\ arr[r] \in Int /\ arr[x] \in Int
        BY <1>9, <4>1
      <4>4. QED
        BY <3>1, <4>1, <4>2, <4>3
    <3>4. QED
      BY <1>11, <3>1, <3>2, <3>3
  <2>3. QED
    BY <2>1, <2>2
<1>12. /\ l' \in s .. m /\ r' \in m .. e + 1
       /\ (l' - s) + (r' - m) = (l - s) + (r - m) + 1
       /\ (s .. l' - 1) \cup (m .. r' - 1) = taken \cup {src}
  <2>1. CASE fromLeft
    <3>1. l' = l + 1 /\ r' = r /\ src = l /\ l < m
      BY <1>1, <1>8, <2>1
    <3> HIDE DEF src, fromLeft
    <3>2. QED
      BY <1>3, <1>8, <3>1
  <2>2. CASE ~fromLeft
    <3>1. l' = l /\ r' = r + 1 /\ src = r /\ r <= e
      BY <1>1, <1>8, <2>2
    <3> HIDE DEF src, fromLeft
    <3>2. QED
      BY <1>3, <1>8, <3>1
  <2>3. QED
    BY <2>1, <2>2
<1> HIDE DEF src, fromLeft, left, left2, taken
<1>13. /\ tmpArr' \in Seq(Numbers) /\ Len(tmpArr') = Len(tmpArr) + 1
       /\ DOMAIN tmpArr' = 1 .. Len(tmpArr) + 1
       /\ \A k \in DOMAIN tmpArr : tmpArr'[k] = tmpArr[k]
       /\ tmpArr'[Len(tmpArr) + 1] = arr[src]
       /\ DOMAIN tmpArr = 1 .. Len(tmpArr) /\ Len(tmpArr) \in Nat
       /\ \A k \in DOMAIN tmpArr' : k \in Int /\ (k \in DOMAIN tmpArr \/ k = Len(tmpArr) + 1)
  BY <1>1, <1>2, <1>10
<1>14. \A k, x \in DOMAIN tmpArr' : k < x => tmpArr'[k] <= tmpArr'[x]
  <2>1. ASSUME NEW k \in DOMAIN tmpArr', NEW x \in DOMAIN tmpArr', k < x PROVE tmpArr'[k] <= tmpArr'[x]
    <3>1. k \in DOMAIN tmpArr
      BY <1>13, <2>1
    <3>2. CASE x \in DOMAIN tmpArr
      BY <1>2, <1>13, <2>1, <3>1, <3>2
    <3>3. CASE x = Len(tmpArr) + 1
      BY <1>2, <1>10, <1>13, <3>1, <3>3
    <3>4. QED
      BY <1>13, <3>2, <3>3
  <2>2. QED
    BY <2>1
<1>15. \A k \in DOMAIN tmpArr', x \in left2 : tmpArr'[k] <= arr[x]
  BY <1>2, <1>11, <1>13
<1>16. \E h : TakenBy(h, (s .. l' - 1) \cup (m .. r' - 1), tmpArr', arr')
  <2>1. PICK g : TakenBy(g, taken, tmpArr, arr)
    BY <1>2
  <2>2. \E h : TakenBy(h, taken \cup {src}, Append(tmpArr, arr[src]), arr)
    BY <1>2, <1>10, <2>1, TakenAppended
  <2>3. QED
    BY <1>1, <1>12, <2>2
<1>17. InvMerge'
  <2>1. s' = s /\ m' = m /\ e' = e
    BY <1>4 DEF s, m, e
  <2>2. /\ stack' # <<>> /\ First'.do = "merge"
        /\ l' \in s' .. m' /\ r' \in m' .. e' + 1
        /\ tmpArr' \in Seq(Numbers)
        /\ Len(tmpArr') = (l' - s') + (r' - m')
    BY <1>1, <1>2, <1>4, <1>12, <1>13, <2>1
  <2>3. \A k \in DOMAIN tmpArr', x \in (l' .. m' - 1) \cup (r' .. e') : tmpArr'[k] <= arr'[x]
    BY <1>1, <1>15, <2>1 DEF left2
  <2>4. \E h : TakenBy(h, (s' .. l' - 1) \cup (m' .. r' - 1), tmpArr', arr')
    BY <1>16, <2>1
  <2>5. QED
    BY <1>14, <2>2, <2>3, <2>4 DEF InvMerge, s, m, e
<1>18. QED
  BY <1>1, <1>5, <1>17 DEF DivideInv, InvKept, InvScan

\* Copying back rearranges the part that was merged, and leaves it in order.
LEMMA MergeCopyKeeps ==
  ASSUME DivideInv, MergeCopy, UNCHANGED <<program, input>>
  PROVE  DivideInv'
<1> DEFINE s == First.start
           e == First.end
<1>1. /\ at = "merge" /\ l >= First.mid /\ r > e
      /\ arr' = [x \in DOMAIN arr |-> IF x \in s..e THEN tmpArr[x - s + 1] ELSE arr[x]]
      /\ at' = "call" /\ stack' = Tail(stack)
  BY DEF MergeCopy
<1>2. /\ stack # <<>> /\ First.do = "merge"
      /\ l \in s .. First.mid /\ r \in First.mid .. e + 1
      /\ tmpArr \in Seq(Numbers)
      /\ Len(tmpArr) = (l - s) + (r - First.mid)
      /\ \A k, m \in DOMAIN tmpArr : k < m => tmpArr[k] <= tmpArr[m]
      /\ \E g : TakenBy(g, (s .. l - 1) \cup (First.mid .. r - 1), tmpArr, arr)
  BY <1>1 DEF DivideInv, InvMerge
<1>3. /\ s \in Int /\ e \in Int /\ First.mid \in Int /\ s < First.mid /\ First.mid <= e
      /\ \A x \in Int : s <= x /\ x <= e => x \in Indices
  BY <1>2, FirstIs DEF InPlace
<1>4. /\ arr \in [Indices -> Numbers]
      /\ \A x \in Indices : x \in Int
      /\ input \in [Indices -> Numbers]
  BY DivideIs
<1> HIDE DEF s, e
<1>5. /\ (s .. l - 1) \cup (First.mid .. r - 1) = s..e
      /\ DOMAIN tmpArr = 1 .. e - s + 1
  <2>1. l = First.mid /\ r = e + 1
    BY <1>1, <1>2, <1>3
  <2>2. Len(tmpArr) = e - s + 1 /\ DOMAIN tmpArr = 1 .. Len(tmpArr)
    BY <1>2, <1>3, <2>1
  <2>3. (s .. l - 1) \cup (First.mid .. r - 1) = s..e
    BY <1>3, <2>1
  <2>4. QED
    BY <2>2, <2>3
<1>6. PICK g : TakenBy(g, s..e, tmpArr, arr)
  BY <1>2, <1>5
<1>7. /\ \A k \in 1 .. e - s + 1 : g[k] \in s..e /\ tmpArr[k] = arr[g[k]]
      /\ \A k, m \in 1 .. e - s + 1 : g[k] = g[m] => k = m
      /\ \A y \in s..e : \E k \in 1 .. e - s + 1 : g[k] = y
  BY <1>5, <1>6 DEF TakenBy
<1>8. /\ \A x \in s..e : x \in Indices /\ x \in Int /\ s <= x /\ x <= e /\ x - s + 1 \in 1 .. e - s + 1
      /\ \A k \in 1 .. e - s + 1 : k + s - 1 \in s..e /\ (k + s - 1) - s + 1 = k
      /\ \A x, y \in s..e : x - s + 1 = y - s + 1 => x = y
  BY <1>3
<1> DEFINE f == [x \in Indices |-> IF x \in s..e THEN g[x - s + 1] ELSE x]
<1>9. ASSUME NEW x \in Indices
      PROVE  /\ f[x] \in Indices
             /\ x \in s..e => f[x] = g[x - s + 1] /\ f[x] \in s..e
             /\ x \notin s..e => f[x] = x
  BY <1>7, <1>8
<1>10. Rearrangement(f, Indices)
  <2>1. f \in [Indices -> Indices]
    BY <1>9
  <2> HIDE DEF f
  <2>2. ASSUME NEW x \in Indices, NEW y \in Indices, f[x] = f[y] PROVE x = y
    <3>1. CASE x \in s..e
      <4>1. y \in s..e
        BY <1>9, <2>2, <3>1
      <4>2. g[x - s + 1] = g[y - s + 1]
        BY <1>9, <2>2, <3>1, <4>1
      <4>3. x - s + 1 = y - s + 1
        BY <1>7, <1>8, <3>1, <4>1, <4>2
      <4>4. QED
        BY <1>8, <3>1, <4>1, <4>3
    <3>2. CASE x \notin s..e
      BY <1>9, <2>2, <3>2
    <3>3. QED
      BY <3>1, <3>2
  <2>3. ASSUME NEW y \in Indices PROVE \E x \in Indices : f[x] = y
    <3>1. CASE y \in s..e
      <4>1. PICK k \in 1 .. e - s + 1 : g[k] = y
        BY <1>7, <3>1
      <4>2. k + s - 1 \in Indices /\ k + s - 1 \in s..e /\ (k + s - 1) - s + 1 = k
        BY <1>8
      <4>3. f[k + s - 1] = y
        BY <1>9, <4>1, <4>2
      <4>4. QED
        BY <4>2, <4>3
    <3>2. CASE y \notin s..e
      BY <1>9, <3>2
    <3>3. QED
      BY <3>1, <3>2
  <2>4. QED
    BY <2>1, <2>2, <2>3 DEF Rearrangement
<1>11. arr' = [x \in Indices |-> arr[f[x]]]
  <2>1. DOMAIN arr = Indices
    BY <1>4
  <2>2. ASSUME NEW x \in Indices
        PROVE  (IF x \in s..e THEN tmpArr[x - s + 1] ELSE arr[x]) = arr[f[x]]
    <3> HIDE DEF f
    <3>1. CASE x \in s..e
      BY <1>7, <1>8, <1>9, <3>1
    <3>2. CASE x \notin s..e
      BY <1>9, <3>2
    <3>3. QED
      BY <3>1, <3>2
  <2> HIDE DEF f
  <2>3. QED
    BY <1>1, <2>1, <2>2
<1> HIDE DEF f
<1>12. InvKept(arr)'
  <2>1. Permutes(arr', input)
    BY <1>4, <1>10, <1>11, PermutesAgain DEF DivideInv, InvKept
  <2>2. QED
    BY <2>1 DEF DivideInv, InvKept
<1>13. /\ InvStack'
       /\ \A p \in DOMAIN stack : p # 1 => \E q \in DOMAIN stack' : stack'[q] = stack[p]
  BY <1>1, <1>2, StackPopped
<1>14. ASSUME NEW x \in Indices, NEW y \in Indices, x \in s..e, y \in s..e, x < y
       PROVE  arr'[x] <= arr'[y]
  <2>1. arr'[x] = tmpArr[x - s + 1] /\ arr'[y] = tmpArr[y - s + 1]
    BY <1>1, <1>4, <1>14
  <2>2. x - s + 1 \in DOMAIN tmpArr /\ y - s + 1 \in DOMAIN tmpArr
    BY <1>5, <1>8, <1>14
  <2>3. x - s + 1 < y - s + 1
    BY <1>3, <1>8, <1>14
  <2>4. QED
    BY <1>2, <2>1, <2>2, <2>3
<1>15. InvOrder'
  <2>1. arr' = Moved(f) /\ MovesInPart(f)
    BY <1>9, <1>11 DEF Moved, MovesInPart, s, e
  <2>2. QED
    BY <1>2, <1>13, <1>14, <2>1, OrderKept DEF s, e
<1>16. QED
  BY <1>1, <1>12, <1>13, <1>15 DEF DivideInv, InvMerge, InvScan

\* A step that moves no element and takes nothing up.
LEMMA NothingMoved ==
  ASSUME DivideInv, UNCHANGED <<program, input, arr, stack>>
  PROVE  /\ InvKept(arr)' /\ InvStack' /\ InvOrder' /\ First' = First
         /\ program' \in {"merge", "quick"}
<1>1. n' = n /\ Indices' = Indices /\ Items' = Items /\ First' = First
  BY DEF n, Indices, Items, First
<1>2. InvStack' /\ InvOrder'
  BY <1>1 DEF DivideInv, InvStack, InvOrder, InPlace, Before, Answers
<1>3. QED
  BY <1>1, <1>2 DEF DivideInv, InvKept

\* fSort starts its scans at the ends of the part, the pivot left out.
LEMMA PartitionKeeps ==
  ASSUME DivideInv, Partition, UNCHANGED <<program, input>>
  PROVE  DivideInv'
<1>1. /\ program = "quick" /\ stack # <<>> /\ First.do = "sort" /\ First.start < First.end
      /\ l' = First.start /\ r' = First.end - 1 /\ at' = "left" /\ UNCHANGED <<arr, stack>>
  BY DEF Partition, ToDo
<1>2. First.start \in Int /\ First.end \in Int
  BY <1>1, FirstIs
<1>3. InvKept(arr)' /\ InvStack' /\ InvOrder' /\ First' = First
  BY <1>1, NothingMoved
<1>4. InvScan'
  <2>1. /\ First.start .. First.start - 1 = {}
        /\ \A x \in First.start .. First.end - 1 : ~(First.end - 1 < x)
        /\ First.start \in First.start .. First.end /\ First.end - 1 \in Int /\ First.end - 1 < First.end
    BY <1>1, <1>2
  <2>2. QED
    BY <1>1, <1>3, <2>1 DEF InvScan
<1>5. QED
  BY <1>1, <1>3, <1>4 DEF DivideInv, InvMerge

\* The scans of fSort, at its pivot.
LEMMA ScanIs ==
  ASSUME DivideInv, at \in {"left", "right", "exchange"}
  PROVE  /\ stack # <<>> /\ First.do = "sort" /\ First.start < First.end
         /\ program = "quick"
         /\ First.start \in Int /\ First.end \in Int /\ 0 <= First.start
         /\ l \in Int /\ First.start <= l /\ l <= First.end /\ r \in Int /\ r < First.end
         /\ l \in Indices /\ First.end \in Indices
         /\ \A x \in Int : First.start <= x /\ x <= First.end => x \in Indices
         /\ \A x \in Indices : x \in Int /\ 0 <= x /\ arr[x] \in Int
         /\ Pivot = arr[First.end] /\ Pivot \in Int
         /\ \A x \in Int : First.start <= x /\ x < l => arr[x] < Pivot
         /\ \A x \in Int : First.start <= x /\ x < First.end /\ r < x => arr[x] >= Pivot
<1>1. /\ stack # <<>> /\ First.do = "sort" /\ First.start < First.end
      /\ program = "quick"
      /\ l \in First.start .. First.end /\ r \in Int /\ r < First.end
      /\ \A x \in First.start .. l - 1 : arr[x] < Pivot
      /\ \A x \in First.start .. First.end - 1 : r < x => arr[x] >= Pivot
  BY DEF DivideInv, InvScan
<1>2. /\ First.start \in Int /\ First.end \in Int /\ 0 <= First.start
      /\ \A x \in Int : First.start <= x /\ x <= First.end => x \in Indices
  BY <1>1, FirstIs
<1>3. l \in Int /\ First.start <= l /\ l <= First.end
  BY <1>1, <1>2
<1>4. l \in Indices /\ First.end \in Indices
  BY <1>1, <1>2, <1>3
<1>5. \A x \in Indices : x \in Int /\ 0 <= x /\ arr[x] \in Int
  <2>1. arr \in [Indices -> Int] /\ \A x \in Indices : x \in Int /\ 0 <= x
    BY DivideIs
  <2>2. QED
    BY <2>1
<1>6. Pivot = arr[First.end] /\ Pivot \in Int
  BY <1>4, <1>5 DEF Pivot
<1>7. ASSUME NEW x \in Int, First.start <= x, x < l PROVE arr[x] < Pivot
  <2>1. x \in First.start .. l - 1
    BY <1>2, <1>3, <1>7
  <2>2. QED
    BY <1>1, <2>1
<1>8. ASSUME NEW x \in Int, First.start <= x, x < First.end, r < x PROVE arr[x] >= Pivot
  <2>1. x \in First.start .. First.end - 1
    BY <1>2, <1>8
  <2>2. QED
    BY <1>1, <1>8, <2>1
<1>9. QED
  BY <1>1, <1>2, <1>3, <1>4, <1>5, <1>6, <1>7, <1>8

\* The scan from the left stops at the pivot at the latest.
LEMMA ScanLeftKeeps ==
  ASSUME DivideInv, ScanLeft, UNCHANGED <<program, input>>
  PROVE  DivideInv'
<1>1. /\ at = "left" /\ UNCHANGED <<arr, stack, r>>
      /\ l' = (IF arr[l] < Pivot THEN l + 1 ELSE l)
      /\ at' = (IF arr[l] < Pivot THEN "left" ELSE "right")
  BY DEF ScanLeft
<1>2. /\ stack # <<>> /\ First.do = "sort" /\ First.start < First.end
      /\ program = "quick"
      /\ First.start \in Int /\ First.end \in Int /\ 0 <= First.start
      /\ l \in Int /\ First.start <= l /\ l <= First.end /\ r \in Int /\ r < First.end
      /\ l \in Indices /\ First.end \in Indices
      /\ \A x \in Int : First.start <= x /\ x <= First.end => x \in Indices
      /\ \A x \in Indices : x \in Int /\ 0 <= x /\ arr[x] \in Int
      /\ Pivot = arr[First.end] /\ Pivot \in Int
      /\ \A x \in Int : First.start <= x /\ x < l => arr[x] < Pivot
      /\ \A x \in Int : First.start <= x /\ x < First.end /\ r < x => arr[x] >= Pivot
  BY <1>1, ScanIs
<1>3. InvKept(arr)' /\ InvStack' /\ InvOrder' /\ First' = First
  BY <1>1, NothingMoved
<1>4. Pivot' = Pivot
  BY <1>1, <1>3 DEF Pivot
<1>5. /\ l' \in First.start .. First.end
      /\ \A x \in First.start .. l' - 1 : arr[x] < Pivot
      /\ at' # "left" => arr[l'] >= Pivot
  <2>1. CASE arr[l] < Pivot
    <3>1. l' = l + 1 /\ at' = "left" /\ l # First.end
      BY <1>1, <1>2, <2>1
    <3>2. \A x \in First.start .. l' - 1 : x \in Int /\ First.start <= x /\ (x < l \/ x = l)
      BY <1>2, <3>1
    <3>3. QED
      BY <1>2, <2>1, <3>1, <3>2
  <2>2. CASE ~(arr[l] < Pivot)
    <3>1. l' = l /\ arr[l] >= Pivot
      BY <1>1, <1>2, <2>2
    <3>2. \A x \in First.start .. l' - 1 : x \in Int /\ First.start <= x /\ x < l
      BY <1>2, <3>1
    <3>3. QED
      BY <1>2, <3>1, <3>2
  <2>3. QED
    BY <2>1, <2>2
<1>6. \A x \in First.start .. First.end - 1 : r < x => arr[x] >= Pivot
  BY <1>1 DEF DivideInv, InvScan
<1>7. at' \in {"left", "right"}
  BY <1>1
<1>8. InvScan'
  BY <1>1, <1>2, <1>3, <1>4, <1>5, <1>6, <1>7 DEF InvScan
<1>9. QED
  BY <1>1, <1>3, <1>7, <1>8 DEF DivideInv, InvMerge

\* The scan from the right keeps what it passes on the right, wherever it stops.
LEMMA ScanRightKeeps ==
  ASSUME DivideInv, ScanRight, UNCHANGED <<program, input>>
  PROVE  DivideInv'
<1>1. /\ at = "right" /\ UNCHANGED <<arr, stack, l>>
      /\ \E more \in IF r >= 0 THEN {arr[r] >= Pivot} ELSE BOOLEAN :
           /\ r' = (IF more /\ r > -Below THEN r - 1 ELSE r)
           /\ at' = (IF more THEN "right" ELSE "exchange")
  BY DEF ScanRight
<1>2. /\ stack # <<>> /\ First.do = "sort" /\ First.start < First.end
      /\ program = "quick"
      /\ First.start \in Int /\ First.end \in Int /\ 0 <= First.start
      /\ l \in Int /\ First.start <= l /\ l <= First.end /\ r \in Int /\ r < First.end
      /\ l \in Indices /\ First.end \in Indices
      /\ \A x \in Int : First.start <= x /\ x <= First.end => x \in Indices
      /\ \A x \in Indices : x \in Int /\ 0 <= x /\ arr[x] \in Int
      /\ Pivot = arr[First.end] /\ Pivot \in Int
      /\ \A x \in Int : First.start <= x /\ x < First.end /\ r < x => arr[x] >= Pivot
  BY <1>1, ScanIs
<1>3. InvKept(arr)' /\ InvStack' /\ InvOrder' /\ First' = First
  BY <1>1, NothingMoved
<1>4. Pivot' = Pivot
  BY <1>1, <1>3 DEF Pivot
<1>5. r >= 0 => r \in Indices
  <2>1. Indices = 0 .. n - 1 /\ n \in Nat
    BY DivideIs
  <2>2. First.end < n
    BY <1>2, FirstIs
  <2>3. QED
    BY <1>2, <2>1, <2>2
<1>6. \/ r' = r - 1 /\ at' = "right" /\ (r >= 0 => arr[r] >= Pivot)
      \/ r' = r /\ at' = "right" /\ r < 0
      \/ r' = r /\ at' = "exchange" /\ (r >= 0 => arr[r] < Pivot)
  <2>1. CASE r >= 0
    <3>1. arr[r] \in Int
      BY <1>2, <1>5, <2>1
    <3>2. (arr[r] >= Pivot) \/ (arr[r] < Pivot /\ ~(arr[r] >= Pivot))
      BY <1>2, <3>1
    <3>3. r > -Below
      BY <1>2, <2>1, DivideAssumption
    <3>4. /\ r' = (IF arr[r] >= Pivot THEN r - 1 ELSE r)
          /\ at' = (IF arr[r] >= Pivot THEN "right" ELSE "exchange")
      BY <1>1, <2>1, <3>3
    <3>5. QED
      BY <3>2, <3>4
  <2>2. CASE r < 0
    BY <1>1, <1>2, <2>2
  <2>3. QED
    BY <1>2, <2>1, <2>2
<1>7. /\ r' \in Int /\ r' < First.end
      /\ \A x \in First.start .. First.end - 1 : r' < x => arr[x] >= Pivot
      /\ at' = "exchange" /\ r' >= 0 => arr[r'] < Pivot
  <2>1. \A x \in First.start .. First.end - 1 : x \in Int /\ First.start <= x /\ x < First.end
    BY <1>2
  <2>2. CASE r' = r - 1 /\ at' = "right" /\ (r >= 0 => arr[r] >= Pivot)
    <3>1. \A x \in Int : r' < x => r < x \/ x = r
      BY <1>2, <2>2
    <3>2. QED
      BY <1>2, <2>1, <2>2, <3>1
  <2>3. CASE r' = r /\ at' = "right"
    BY <1>2, <2>1, <2>3
  <2>4. CASE r' = r /\ at' = "exchange" /\ (r >= 0 => arr[r] < Pivot)
    BY <1>2, <2>1, <2>4
  <2>5. QED
    BY <1>6, <2>2, <2>3, <2>4
<1>8. /\ l \in First.start .. First.end
      /\ \A x \in First.start .. l - 1 : arr[x] < Pivot
      /\ arr[l] >= Pivot
  BY <1>1 DEF DivideInv, InvScan
<1>9. at' \in {"right", "exchange"}
  BY <1>6
<1>10. InvScan'
  BY <1>1, <1>2, <1>3, <1>4, <1>7, <1>8, <1>9 DEF InvScan
<1>11. QED
  BY <1>1, <1>3, <1>9, <1>10 DEF DivideInv, InvMerge

\* What a swap of two elements of the part leaves where.
LEMMA SwapInPart ==
  ASSUME DivideInv, UNCHANGED <<program, input>>, stack # <<>>,
         NEW u \in Indices, NEW v \in Indices, arr' = Swap(u, v),
         u \in First.start .. First.end, v \in First.start .. First.end
  PROVE  /\ InvKept(arr)'
         /\ \A x \in Indices : arr'[x] = IF x = u THEN arr[v] ELSE IF x = v THEN arr[u] ELSE arr[x]
         /\ \E f : arr' = Moved(f) /\ MovesInPart(f)
<1>1. /\ InvKept(arr)'
      /\ \A x \in Indices : arr'[x] = IF x = u THEN arr[v] ELSE IF x = v THEN arr[u] ELSE arr[x]
  BY SwapIs DEF DivideInv
<1> DEFINE f == [x \in Indices |-> IF x = u THEN v ELSE IF x = v THEN u ELSE x]
<1>2. \A x \in Indices : /\ f[x] \in Indices
                         /\ f[x] # x => x \in First.start .. First.end /\ f[x] \in First.start .. First.end
  OBVIOUS
<1>3. arr' = [x \in Indices |-> arr[f[x]]]
  <2>1. arr \in [Indices -> Int]
    BY DivideIs
  <2>2. arr' \in [Indices -> Int]
    BY <2>1 DEF Swap
  <2>3. \A x \in Indices : arr'[x] = arr[f[x]]
    BY <1>1
  <2> HIDE DEF f
  <2>4. QED
    BY <2>2, <2>3
<1> HIDE DEF f
<1>4. arr' = Moved(f) /\ MovesInPart(f)
  BY <1>2, <1>3 DEF Moved, MovesInPart
<1>5. QED
  BY <1>1, <1>4

\* What is less than the pivot and what is not change sides.
LEMMA ExchangeKeeps ==
  ASSUME DivideInv, Exchange, UNCHANGED <<program, input>>
  PROVE  DivideInv'
<1>1. /\ at = "exchange" /\ l < r /\ arr' = Swap(l, r) /\ at' = "left"
      /\ UNCHANGED <<stack, l, r, tmpArr>>
  BY DEF Exchange
<1>2. /\ stack # <<>> /\ First.do = "sort" /\ First.start < First.end
      /\ program = "quick"
      /\ First.start \in Int /\ First.end \in Int /\ 0 <= First.start
      /\ l \in Int /\ First.start <= l /\ l <= First.end /\ r \in Int /\ r < First.end
      /\ l \in Indices /\ First.end \in Indices
      /\ \A x \in Int : First.start <= x /\ x <= First.end => x \in Indices
      /\ \A x \in Indices : x \in Int /\ 0 <= x /\ arr[x] \in Int
      /\ Pivot = arr[First.end] /\ Pivot \in Int
      /\ \A x \in Int : First.start <= x /\ x < l => arr[x] < Pivot
      /\ \A x \in Int : First.start <= x /\ x < First.end /\ r < x => arr[x] >= Pivot
  BY <1>1, ScanIs
<1>3. /\ r \in Indices /\ First.end # l /\ First.end # r
      /\ l \in First.start .. First.end /\ r \in First.start .. First.end
  BY <1>1, <1>2
<1>4. n' = n /\ Indices' = Indices /\ Items' = Items /\ First' = First
  BY <1>1 DEF n, Indices, Items, First
<1>5. InvStack'
  BY <1>1, <1>4 DEF DivideInv, InvStack, InPlace, Before
<1>6. /\ InvKept(arr)'
      /\ \A x \in Indices : arr'[x] = IF x = l THEN arr[r] ELSE IF x = r THEN arr[l] ELSE arr[x]
  BY <1>1, <1>2, <1>3, SwapInPart
<1>7. InvOrder'
  <2>1. PICK f : arr' = Moved(f) /\ MovesInPart(f)
    BY <1>1, <1>2, <1>3, SwapInPart
  <2>2. First = stack[1] /\ 1 \in DOMAIN stack
    BY <1>2, FirstIs
  <2>3. ASSUME NEW x \in Indices, NEW y \in Indices, x \in First.start .. First.end, y \in First.start .. First.end
        PROVE  Answers(First, x, y)
    BY <1>2, <2>3 DEF Answers
  <2>4. \A x, y \in Indices : x \in First.start .. First.end /\ y \in First.start .. First.end /\ x < y =>
          \E q \in DOMAIN stack' : Answers(stack'[q], x, y)
    BY <1>1, <2>2, <2>3
  <2>5. \A p \in DOMAIN stack : p # 1 => \E q \in DOMAIN stack' : stack'[q] = stack[p]
    BY <1>1
  <2>6. QED
    BY <1>2, <2>1, <2>4, <2>5, OrderKept
<1>8. Pivot' = Pivot
  <2>1. arr'[First.end] = arr[First.end]
    BY <1>2, <1>3, <1>6
  <2>2. QED
    BY <1>4, <2>1 DEF Pivot
<1>9. \A x \in First.start .. l - 1 : arr'[x] < Pivot
  <2>1. \A x \in First.start .. l - 1 : x \in Int /\ First.start <= x /\ x < l /\ x # l /\ x # r /\ x \in Indices
    BY <1>1, <1>2
  <2>2. QED
    BY <1>2, <1>6, <2>1
<1>10. \A x \in First.start .. First.end - 1 : r < x => arr'[x] >= Pivot
  <2>1. ASSUME NEW x \in First.start .. First.end - 1, r < x PROVE arr'[x] >= Pivot
    <3>1. x \in Int /\ First.start <= x /\ x < First.end /\ x # l /\ x # r /\ x \in Indices
      BY <1>1, <1>2, <2>1
    <3>2. QED
      BY <1>2, <1>6, <2>1, <3>1
  <2>2. QED
    BY <2>1
<1>11. InvScan'
  BY <1>1, <1>2, <1>3, <1>4, <1>8, <1>9, <1>10 DEF InvScan
<1>12. QED
  BY <1>1, <1>5, <1>6, <1>7, <1>11 DEF DivideInv, InvMerge

\* The pivot is where it belongs, between the parts.
LEMMA PlacePivotKeeps ==
  ASSUME DivideInv, PlacePivot, UNCHANGED <<program, input>>
  PROVE  DivideInv'
<1> DEFINE s == First.start
           e == First.end
           new == <<Call(s, l - 1), Call(l + 1, e)>>
<1>1. /\ at = "exchange" /\ l >= r /\ arr' = Swap(l, First.end) /\ at' = "call"
      /\ stack' = new \o Tail(stack) /\ UNCHANGED <<l, r, tmpArr>>
  BY DEF PlacePivot
<1>2. /\ stack # <<>> /\ First.do = "sort" /\ s < e
      /\ program = "quick"
      /\ s \in Int /\ e \in Int /\ 0 <= s
      /\ l \in Int /\ s <= l /\ l <= e /\ r \in Int /\ r < e
      /\ l \in Indices /\ e \in Indices
      /\ \A x \in Int : s <= x /\ x <= e => x \in Indices
      /\ \A x \in Indices : x \in Int /\ 0 <= x /\ arr[x] \in Int
      /\ Pivot = arr[e] /\ Pivot \in Int
      /\ \A x \in Int : s <= x /\ x < l => arr[x] < Pivot
      /\ \A x \in Int : s <= x /\ x < e /\ r < x => arr[x] >= Pivot
  BY <1>1, ScanIs
<1>3. arr[l] >= Pivot
  BY <1>1 DEF DivideInv, InvScan
<1>4. /\ n \in Nat /\ First = stack[1] /\ 1 \in DOMAIN stack /\ e < n
      /\ l \in s..e /\ e \in s..e
  <2>1. n \in Nat /\ First = stack[1] /\ 1 \in DOMAIN stack /\ e < n
    BY <1>2, FirstIs
  <2>2. QED
    BY <1>2, <2>1
<1>5. \A p \in DOMAIN stack : stack[p].start \in Int /\ stack[p].end \in Int /\ stack[p].mid \in Int
  BY DivideIs
<1>6. PICK f : arr' = Moved(f) /\ MovesInPart(f)
  BY <1>1, <1>2, <1>4, SwapInPart
<1>7. /\ InvKept(arr)'
      /\ \A x \in Indices : arr'[x] = IF x = l THEN arr[e] ELSE IF x = e THEN arr[l] ELSE arr[x]
  <2>1. /\ arr' = Swap(l, First.end) /\ UNCHANGED <<program, input>> /\ stack # <<>>
        /\ l \in Indices /\ First.end \in Indices
        /\ l \in First.start .. First.end /\ First.end \in First.start .. First.end
    BY <1>1, <1>2, <1>4
  <2> HIDE DEF s, e, new
  <2>2. QED
    BY <2>1, SwapInPart DEF e
<1> HIDE DEF s, e
<1>8. /\ s \in 0..n /\ l - 1 \in -1 .. n - 1 /\ l + 1 \in 0..n /\ e \in -1 .. n - 1
      /\ l - 1 \in Int /\ l + 1 \in Int
  BY <1>2, <1>4
<1>9. /\ DOMAIN new = 1..2 /\ new \in Seq(Items)
      /\ new[1] = Call(s, l - 1) /\ new[2] = Call(l + 1, e)
  <2>1. Call(s, l - 1) \in Items /\ Call(l + 1, e) \in Items
    BY <1>2, <1>8 DEF Call, Items
  <2>2. QED
    BY <2>1
<1> HIDE DEF new
<1>10. /\ new[1].do = "sort" /\ new[1].start = s     /\ new[1].mid = l - 1 /\ new[1].end = l - 1
       /\ new[2].do = "sort" /\ new[2].start = l + 1 /\ new[2].mid = e     /\ new[2].end = e
  BY <1>9 DEF Call
<1>11. \A p \in DOMAIN new : p = 1 \/ p = 2
  BY <1>9
<1>12. ASSUME NEW p \in DOMAIN new
       PROVE  /\ InPlace(new[p])
              /\ new[p].start \in Int /\ new[p].end \in Int /\ new[p].mid \in Int
              /\ First.start <= new[p].start /\ new[p].end <= First.end
  <2>1. InPlace(new[1]) /\ InPlace(new[2])
    BY <1>2, <1>10 DEF InPlace
  <2>2. s <= new[1].start /\ new[1].end <= e /\ s <= new[2].start /\ new[2].end <= e
    BY <1>2, <1>10
  <2>3. /\ new[1].start \in Int /\ new[1].end \in Int /\ new[1].mid \in Int
        /\ new[2].start \in Int /\ new[2].end \in Int /\ new[2].mid \in Int
    BY <1>2, <1>8, <1>10
  <2>4. QED
    BY <1>11, <2>1, <2>2, <2>3 DEF s, e
<1>13. ASSUME NEW p \in DOMAIN new, NEW q \in DOMAIN new, p < q PROVE Before(new[p], new[q])
  <2>1. Before(new[1], new[2])
    BY <1>2, <1>10 DEF Before
  <2>2. p \in 1..2 /\ q \in 1..2
    BY <1>9
  <2>3. p = 1 /\ q = 2
    BY <1>13, <2>2
  <2>4. QED
    BY <2>1, <2>3
<1>14. /\ InvStack'
       /\ \A p \in DOMAIN new : p \in DOMAIN stack' /\ stack'[p] = new[p]
       /\ \A p \in DOMAIN stack : p # 1 => \E q \in DOMAIN stack' : stack'[q] = stack[p]
  <2>1. InvStack
    BY DEF DivideInv
  <2>2. QED
    BY <1>1, <1>2, <1>4, <1>5, <1>9, <1>12, <1>13, <2>1, StackReplaced
<1>15. ASSUME NEW x \in Indices, NEW y \in Indices, x \in s..e, y \in s..e, x < y
       PROVE  arr'[x] <= arr'[y] \/ \E q \in DOMAIN stack' : Answers(stack'[q], x, y)
  <2>1. x \in Int /\ s <= x /\ x <= e /\ y \in Int /\ s <= y /\ y <= e
    BY <1>2, <1>15
  <2>2. 1 \in DOMAIN stack' /\ stack'[1] = new[1] /\ 2 \in DOMAIN stack' /\ stack'[2] = new[2]
    BY <1>9, <1>14
  <2>3. CASE y < l
    <3>1. Answers(new[1], x, y)
      BY <1>2, <1>10, <2>1, <2>3 DEF Answers
    <3>2. QED
      BY <2>2, <3>1
  <2>4. CASE l < x
    <3>1. Answers(new[2], x, y)
      BY <1>2, <1>10, <2>1, <2>4 DEF Answers
    <3>2. QED
      BY <2>2, <3>1
  <2>5. CASE x <= l /\ l <= y
    <3>1. arr'[x] \in Int /\ arr'[x] <= Pivot
      <4>1. CASE x = l
        BY <1>2, <1>7, <4>1
      <4>2. CASE x < l
        <5>1. arr'[x] = arr[x]
          BY <1>2, <1>7, <2>1, <4>2
        <5>2. arr[x] < Pivot /\ arr[x] \in Int
          BY <1>2, <2>1, <4>2
        <5>3. QED
          BY <1>2, <5>1, <5>2
      <4>3. QED
        BY <1>2, <2>1, <2>5, <4>1, <4>2
    <3>2. arr'[y] \in Int /\ Pivot <= arr'[y]
      <4>1. CASE y = l
        BY <1>2, <1>7, <4>1
      <4>2. CASE y = e /\ y # l
        BY <1>2, <1>3, <1>7, <4>2
      <4>3. CASE l < y /\ y < e
        <5>1. arr'[y] = arr[y]
          BY <1>2, <1>7, <2>1, <4>3
        <5>2. arr[y] >= Pivot /\ arr[y] \in Int
          BY <1>1, <1>2, <2>1, <4>3
        <5>3. QED
          BY <1>2, <5>1, <5>2
      <4>4. QED
        BY <1>2, <2>1, <2>5, <4>1, <4>2, <4>3
    <3>3. QED
      BY <1>2, <3>1, <3>2
  <2>6. QED
    BY <1>2, <2>1, <2>3, <2>4, <2>5
<1>16. InvOrder'
  BY <1>2, <1>6, <1>14, <1>15, OrderKept DEF s, e
<1>17. QED
  BY <1>1, <1>7, <1>14, <1>16 DEF DivideInv, InvMerge, InvScan

\* Every step of MergeSort and fSort keeps the invariant.
LEMMA DivideKeeps == DivideInv /\ DivideNext => DivideInv'
<1>1. SUFFICES ASSUME DivideInv, DivideNext PROVE DivideInv'
  OBVIOUS
<1>2. UNCHANGED <<program, input>>
  BY <1>1 DEF DivideNext
<1>3. CASE ReturnAtOnce
  BY <1>1, <1>2, <1>3, ReturnKeeps
<1>4. CASE MergeSplit
  BY <1>1, <1>2, <1>4, MergeSplitKeeps
<1>5. CASE MergeStart
  BY <1>1, <1>2, <1>5, MergeStartKeeps
<1>6. CASE MergeTake
  BY <1>1, <1>2, <1>6, MergeTakeKeeps
<1>7. CASE MergeCopy
  BY <1>1, <1>2, <1>7, MergeCopyKeeps
<1>8. CASE Partition
  BY <1>1, <1>2, <1>8, PartitionKeeps
<1>9. CASE ScanLeft
  BY <1>1, <1>2, <1>9, ScanLeftKeeps
<1>10. CASE ScanRight
  BY <1>1, <1>2, <1>10, ScanRightKeeps
<1>11. CASE Exchange
  BY <1>1, <1>2, <1>11, ExchangeKeeps
<1>12. CASE PlacePivot
  BY <1>1, <1>2, <1>12, PlacePivotKeeps
<1>13. QED
  BY <1>1, <1>3, <1>4, <1>5, <1>6, <1>7, <1>8, <1>9, <1>10, <1>11, <1>12 DEF DivideNext

\* The invariant is what MergeSort and fSort promise.
LEMMA DivideIsSorting == DivideInv => DivideSorting
<1> SUFFICES ASSUME DivideInv PROVE DivideSorting
  OBVIOUS
<1>1. DOMAIN arr = Indices /\ \A x \in Indices : x \in Int /\ arr[x] \in Int
  <2>1. arr \in [Indices -> Int] /\ \A x \in Indices : x \in Int
    BY DivideIs
  <2>2. QED
    BY <2>1
<1>2. input \in Arrays /\ Permutes(arr, input)
  BY DEF DivideInv, InvKept
<1>3. \A x, y \in Indices : x < y => arr[x] <= arr[y] \/ \E p \in DOMAIN stack : Answers(stack[p], x, y)
  BY DEF DivideInv, InvOrder
<1>4. DivideFinished \subseteq Indices
  BY <1>1 DEF DivideFinished
<1>5. ASSUME NEW k \in DivideFinished PROVE Placed(arr, k)
  <2>1. k \in Indices /\ k \in Int
    BY <1>1, <1>4
  <2>2. ASSUME NEW x \in Indices, NEW y \in Indices, x < y, x = k \/ y = k PROVE arr[x] <= arr[y]
    <3>1. SUFFICES ASSUME NEW p \in DOMAIN stack, Answers(stack[p], x, y) PROVE FALSE
      BY <1>3, <2>2
    <3>2. stack # <<>>
      BY <3>1
    <3>3. program = "quick"
      BY <1>5, <3>2 DEF DivideFinished, DivideDone, DivideInv
    <3>4. k \notin stack[p].start .. stack[p].end
      <4>1. stack[p] \in ToSet(stack)
        BY DEF ToSet
      <4>2. QED
        BY <1>5, <3>2, <3>3, <4>1 DEF DivideFinished, DivideDone
    <3>5. stack[p].start \in Int /\ stack[p].end \in Int
      BY DivideIs
    <3>6. QED
      BY <1>1, <2>1, <2>2, <3>1, <3>4, <3>5 DEF Answers
  <2>3. QED
    BY <2>1, <2>2 DEF Placed
<1>6. Sorting(DivideFinished, arr)
  BY <1>2, <1>4, <1>5, PlacedSorting
<1>7. at = "merge" => \A k, m \in DOMAIN tmpArr : k < m => tmpArr[k] <= tmpArr[m]
  BY DEF DivideInv, InvMerge
<1>8. QED
  BY <1>6, <1>7 DEF DivideSorting

-----------------------------------------------------------------------------
(* future.cpp *)

\* A thread is past its start when main has left it behind, and over when main
\* has joined it or got the last of the values it waits for.
FutureInv ==
  /\ demo \in 1..5 /\ main \in {"start", "join", "get", "leave"}
  /\ thread \in [AllThreads -> {"none", "work", "get", "set", "setting", "over", "deferred"}]
  /\ \A t \in AllThreads : thread[t] = "deferred" => t = "async"
  /\ main # "start" => demo # 5 /\ \A t \in ThreadsOf(demo) : thread[t] # "none"
  /\ main \in {"get", "leave"} /\ demo # 1 => \A t \in ThreadsOf(demo) : thread[t] = "over"
  /\ main = "join" => demo # 1
  /\ ScopesOutliveThreads

\* The threads of the four functions.
LEMMA ThreadsAre ==
  /\ DOMAIN Demos = 1..4 /\ Len(Demos) = 4
  /\ ThreadsOf(1) = {"async"}
  /\ ThreadsOf(5) = {}
  /\ \A d \in 1..4 : \A t \in ThreadsOf(d) : t \in AllThreads
  /\ "async" \in AllThreads
<1>1. DOMAIN Demos = 1..4 /\ Len(Demos) = 4 /\ Demos[1] = "async"
  BY DEF Demos
<1>2. ThreadsOf(1) = {"async"}
  BY <1>1 DEF ThreadsOf
<1>3. ThreadsOf(5) = {}
  BY <1>1 DEF ThreadsOf
<1>4. \A d \in 1..4 : \A t \in ThreadsOf(d) : t \in AllThreads
  BY <1>1 DEF AllThreads
<1>5. 1 \in 1..4 /\ "async" \in ThreadsOf(1)
  BY <1>2
<1>6. "async" \in AllThreads
  BY <1>4, <1>5
<1>7. QED
  BY <1>1, <1>2, <1>3, <1>4, <1>6

\* main starts with the first function, and no thread.
LEMMA FutureInitInv == FuturesInit => FutureInv
<1> SUFFICES ASSUME FuturesInit PROVE FutureInv
  OBVIOUS
<1>1. /\ demo = 1 /\ main = "start"
      /\ thread = [t \in AllThreads |-> "none"]
  BY DEF FuturesInit
<1>2. ScopesOutliveThreads
  BY <1>1, ThreadsAre DEF ScopesOutliveThreads
<1>3. QED
  BY <1>1, <1>2 DEF FutureInv

\* A step that leaves main where it is takes no thread back to before its start,
\* and none that is over out of that.
LEMMA ThreadMoves ==
  ASSUME FutureInv, UNCHANGED <<demo, main>>,
         thread' \in [AllThreads -> {"none", "work", "get", "set", "setting", "over", "deferred"}],
         \A t \in AllThreads : /\ thread'[t] = "deferred" => t = "async"
                               /\ thread[t] # "none" => thread'[t] # "none"
                               /\ thread[t] = "over" => thread'[t] = "over"
  PROVE  FutureInv'
<1>1. demo \in 1..4 => \A t \in ThreadsOf(demo) : t \in AllThreads
  BY ThreadsAre
<1>2. demo = 5 \/ demo \in 1..4
  BY DEF FutureInv
<1>3. ScopesOutliveThreads'
  BY ThreadsAre DEF FutureInv, ScopesOutliveThreads
<1>4. main # "start" => demo # 5 /\ \A t \in ThreadsOf(demo) : thread'[t] # "none"
  BY <1>1, <1>2 DEF FutureInv
<1>5. main \in {"get", "leave"} /\ demo # 1 => \A t \in ThreadsOf(demo) : thread'[t] = "over"
  BY <1>1, <1>2 DEF FutureInv
<1>6. QED
  BY <1>3, <1>4, <1>5 DEF FutureInv

\* Every step of main and of the threads keeps the invariant.
LEMMA FutureKeeps == FutureInv /\ FuturesNext => FutureInv'
<1>1. SUFFICES ASSUME FutureInv, FuturesNext PROVE FutureInv'
  OBVIOUS
<1> DEFINE States == {"none", "work", "get", "set", "setting", "over", "deferred"}
<1>2. /\ demo \in 1..5 /\ main \in {"start", "join", "get", "leave"}
      /\ thread \in [AllThreads -> States]
      /\ \A t \in AllThreads : thread[t] = "deferred" => t = "async"
      /\ main # "start" => demo # 5 /\ \A t \in ThreadsOf(demo) : thread[t] # "none"
      /\ main \in {"get", "leave"} /\ demo # 1 => \A t \in ThreadsOf(demo) : thread[t] = "over"
      /\ main = "join" => demo # 1
      /\ ScopesOutliveThreads
  BY <1>1 DEF FutureInv
<1>3. CASE MainWork
  <2>1. /\ main = "start" /\ main' = (IF demo = 1 THEN "get" ELSE "join") /\ demo <= 4
        /\ \A t \in ThreadsOf(demo) : thread[t] # "none"
        /\ UNCHANGED <<demo, thread>>
    BY <1>3, ThreadsAre DEF MainWork, MainGoes
  <2>2. demo # 5
    BY <1>2, <2>1
  <2>3. ScopesOutliveThreads'
    BY <1>2, <2>1 DEF ScopesOutliveThreads
  <2>4. QED
    BY <1>2, <2>1, <2>2, <2>3 DEF FutureInv
<1>4. CASE Join
  <2>1. /\ main = "join" /\ main' = "get"
        /\ \A t \in ThreadsOf(demo) : thread[t] = "over"
        /\ UNCHANGED <<demo, thread>>
    BY <1>4 DEF Join, MainGoes
  <2>2. ScopesOutliveThreads'
    BY <1>2, <2>1 DEF ScopesOutliveThreads
  <2>3. QED
    BY <1>2, <2>1, <2>2 DEF FutureInv
<1>5. CASE MainGet
  <2>1. /\ main = "get" /\ main' = "leave"
        /\ thread' = [t \in AllThreads |-> IF thread[t] = "deferred" THEN "over" ELSE thread[t]]
        /\ UNCHANGED demo
    BY <1>5 DEF MainGet, MainGoes
  <2>2. /\ thread' \in [AllThreads -> States]
        /\ \A t \in AllThreads : /\ thread'[t] = "deferred" => t = "async"
                                 /\ thread[t] # "none" => thread'[t] # "none"
                                 /\ thread[t] = "over" => thread'[t] = "over"
    BY <1>2, <2>1
  <2>3. demo \in 1..4
    BY <1>2, <2>1
  <2>4. \A t \in ThreadsOf(demo) : t \in AllThreads
    BY <2>3, ThreadsAre
  <2>5. ScopesOutliveThreads'
    BY <1>2, <2>1, <2>2, ThreadsAre DEF ScopesOutliveThreads
  <2>6. QED
    BY <1>2, <2>1, <2>2, <2>4, <2>5 DEF FutureInv
<1>6. CASE LeaveScope
  <2>1. /\ main = "leave" /\ main' = "start" /\ demo' = demo + 1 /\ UNCHANGED thread
        /\ demo = 1 => thread["async"] = "over"
    BY <1>6 DEF LeaveScope, MainGoes
  <2>2. demo \in 1..4 /\ demo' \in 1..5
    BY <1>2, <2>1
  <2>3. \A t \in ThreadsOf(demo) : thread[t] = "over"
    BY <1>2, <2>1, ThreadsAre
  <2>4. ASSUME NEW d \in DOMAIN Demos, d < demo', NEW t \in ThreadsOf(d) PROVE thread[t] = "over"
    <3>1. d \in 1..4 /\ (d < demo \/ d = demo)
      BY <2>1, <2>2, <2>4, ThreadsAre
    <3>2. QED
      BY <1>2, <2>3, <2>4, <3>1 DEF ScopesOutliveThreads
  <2>5. ScopesOutliveThreads'
    BY <2>1, <2>4 DEF ScopesOutliveThreads
  <2>6. QED
    BY <1>2, <2>1, <2>2, <2>5 DEF FutureInv
<1>7. ASSUME NEW t \in ThreadsOf(demo), Start(t) PROVE FutureInv'
  <2>1. /\ thread[t] = "none" /\ UNCHANGED <<demo, main>>
        /\ \E state \in CASE t = "async"     -> {"work", "deferred"}
                          [] t \in Consumers -> {"get"}
                          [] OTHER           -> {"work"} :
             thread' = [thread EXCEPT ![t] = state]
    BY <1>7 DEF Start
  <2>2. PICK state : /\ state = "work" \/ state = "get" \/ (state = "deferred" /\ t = "async")
                     /\ thread' = [thread EXCEPT ![t] = state]
    <3>1. CASE t = "async" /\ t \notin Consumers
      BY <2>1, <3>1
    <3>2. CASE t \in Consumers /\ t # "async"
      BY <2>1, <3>2
    <3>3. CASE t # "async" /\ t \notin Consumers
      BY <2>1, <3>3
    <3>4. CASE t = "async" /\ t \in Consumers
      BY <2>1, <3>4
    <3>5. QED
      BY <3>1, <3>2, <3>3, <3>4
  <2>3. /\ thread' \in [AllThreads -> States]
        /\ \A u \in AllThreads : /\ thread'[u] = "deferred" => u = "async"
                                 /\ thread[u] # "none" => thread'[u] # "none"
                                 /\ thread[u] = "over" => thread'[u] = "over"
    BY <1>2, <2>1, <2>2
  <2>4. QED
    BY <1>1, <2>1, <2>3, ThreadMoves
<1>8. ASSUME NEW t \in AllThreads, ThreadWork(t) \/ SetValue(t) \/ SetReturns(t) PROVE FutureInv'
  <2>1. /\ UNCHANGED <<demo, main>>
        /\ \/ thread[t] \in {"work", "get"} /\ thread' = [thread EXCEPT ![t] = "set"]
           \/ thread[t] = "set" /\ thread' = [thread EXCEPT ![t] = "setting"]
           \/ thread[t] = "setting" /\ thread' = [thread EXCEPT ![t] = "over"]
    BY <1>8 DEF ThreadWork, SetValue, SetReturns
  <2>2. /\ thread' \in [AllThreads -> States]
        /\ \A u \in AllThreads : /\ thread'[u] = "deferred" => u = "async"
                                 /\ thread[u] # "none" => thread'[u] # "none"
                                 /\ thread[u] = "over" => thread'[u] = "over"
    BY <1>2, <2>1
  <2>3. QED
    BY <1>1, <2>1, <2>2, ThreadMoves
<1>9. QED
  BY <1>1, <1>3, <1>4, <1>5, <1>6, <1>7, <1>8 DEF FuturesNext

-----------------------------------------------------------------------------
(* quick_sort.cpp *)

Sides == {"low", "high"}

\* d is a call that c has led to.
Under(c, d) == Len(c) < Len(d) /\ \A k \in 1 .. Len(c) : d[k] = c[k]

\* A call has a pivot while its parts are sorted.
Waiting(c) == calls[c].pivot # NoPivot

InvCall(c) ==
  /\ calls[c] \in [list : SUBSET Elements, pivot : Elements \cup {NoPivot},
                   how : {"called", "async", "deferred"},
                   pc : {"divide", "sortOwn", "get", "returned"}, result : Seq(Elements)]
  /\ calls[c].pc # "divide" => calls[c].list = {}
  /\ calls[c].pc # "returned" => calls[c].result = <<>>
  /\ Waiting(c) <=> calls[c].pc \in {"sortOwn", "get"}
  /\ Waiting(c) => Append(c, "low") \in DOMAIN calls /\ Append(c, "high") \in DOMAIN calls
  /\ calls[c].pc = "get" => Returned(Append(c, Own))

\* The calls are a tree, and those within it wait for their parts.
InvTree == /\ DOMAIN calls \subseteq Seq(Sides)
           /\ \A c \in DOMAIN calls : InvCall(c)
           /\ \A c, d \in DOMAIN calls : Under(c, d) => Waiting(c)

\* Whatever is below a call is on its side of the pivot, at every depth.
InvParts == \A c, d \in DOMAIN calls : Under(c, d) =>
              \A e \in Held(d) : InLowPart(e, calls[c].pivot) <=> d[Len(c) + 1] = "low"

QuickInv == /\ function \in Functions /\ value \in [Elements -> Values]
            /\ CallsSort /\ InvTree /\ InvParts

\* The calls that a call leads to are below it, and below what it is below.
LEMMA AppendUnder ==
  ASSUME NEW c \in Seq(Sides), NEW side \in Sides
  PROVE  /\ Append(c, side) \in Seq(Sides) /\ Append(c, side) # c
         /\ Under(c, Append(c, side)) /\ Append(c, side)[Len(c) + 1] = side
         /\ \A b \in Seq(Sides) : Under(b, c) => /\ Under(b, Append(c, side))
                                                 /\ Append(c, side)[Len(b) + 1] = c[Len(b) + 1]
<1> DEFINE d == Append(c, side)
<1>1. /\ d \in Seq(Sides) /\ Len(c) \in Nat /\ Len(d) = Len(c) + 1
      /\ \A k \in 1 .. Len(c) : d[k] = c[k]
      /\ d[Len(c) + 1] = side
  OBVIOUS
<1> HIDE DEF d
<1>2. Len(c) < Len(d) /\ d # c
  BY <1>1
<1>3. Under(c, d)
  BY <1>1, <1>2 DEF Under
<1>4. ASSUME NEW b \in Seq(Sides), Under(b, c) PROVE Under(b, d) /\ d[Len(b) + 1] = c[Len(b) + 1]
  <2>1. Len(b) \in Nat /\ Len(b) < Len(c) /\ \A k \in 1 .. Len(b) : c[k] = b[k]
    BY <1>4 DEF Under
  <2>2. Len(b) < Len(d) /\ Len(b) + 1 \in 1 .. Len(c) /\ \A k \in 1 .. Len(b) : k \in 1 .. Len(c)
    BY <1>1, <2>1
  <2>3. QED
    BY <1>1, <2>1, <2>2 DEF Under
<1>5. QED
  BY <1>1, <1>2, <1>3, <1>4 DEF d

\* The way on from above does not change below.
LEMMA AppendBelow ==
  ASSUME NEW c \in Seq(Sides), NEW side \in Sides, NEW b \in Seq(Sides), Under(b, c)
  PROVE  Append(c, side)[Len(b) + 1] = c[Len(b) + 1]
<1>1. Len(b) + 1 \in 1 .. Len(c)
  BY DEF Under
<1>2. QED
  BY <1>1

\* A call is below what the call is below that led to it, or is led to by it.
LEMMA UnderAppend ==
  ASSUME NEW c \in Seq(Sides), NEW side \in Sides, NEW b \in Seq(Sides), Under(b, Append(c, side))
  PROVE  b = c \/ Under(b, c)
<1> DEFINE d == Append(c, side)
<1>1. /\ Len(c) \in Nat /\ Len(b) \in Nat /\ Len(d) = Len(c) + 1
      /\ \A k \in 1 .. Len(c) : d[k] = c[k]
  OBVIOUS
<1>2. Len(b) < Len(d) /\ \A k \in 1 .. Len(b) : d[k] = b[k]
  BY DEF Under
<1> HIDE DEF d
<1>3. Len(b) <= Len(c) /\ \A k \in 1 .. Len(b) : k \in 1 .. Len(c)
  BY <1>1, <1>2
<1>4. \A k \in 1 .. Len(b) : c[k] = b[k]
  BY <1>1, <1>2, <1>3
<1>5. CASE Len(b) = Len(c)
  <2>1. b = c
    BY <1>4, <1>5, SeqEqual
  <2>2. QED
    BY <2>1
<1>6. CASE Len(b) # Len(c)
  BY <1>1, <1>3, <1>4, <1>6 DEF Under
<1>7. QED
  BY <1>5, <1>6

\* Below is transitive, and nothing is below what is below it.
LEMMA UnderAgain ==
  ASSUME NEW b \in Seq(Sides), NEW c \in Seq(Sides), NEW d \in Seq(Sides), Under(b, c)
  PROVE  (Under(c, d) => Under(b, d)) /\ ~Under(c, b) /\ b # c
<1>1. /\ Len(b) \in Nat /\ Len(c) \in Nat /\ Len(d) \in Nat
      /\ Len(b) < Len(c) /\ \A k \in 1 .. Len(b) : c[k] = b[k] /\ k \in 1 .. Len(c)
  BY DEF Under
<1>2. QED
  BY <1>1 DEF Under

\* A call leads to different calls, and no other call leads to them.
LEMMA AppendOnce ==
  ASSUME NEW c \in Seq(Sides), NEW d \in Seq(Sides), NEW x \in Sides, NEW y \in Sides,
         Append(c, x) = Append(d, y)
  PROVE  c = d /\ x = y
<1>1. /\ Len(Append(c, x)) = Len(c) + 1 /\ Len(Append(d, y)) = Len(d) + 1
      /\ Append(c, x)[Len(c) + 1] = x /\ Append(d, y)[Len(d) + 1] = y
      /\ \A k \in 1 .. Len(c) : Append(c, x)[k] = c[k]
      /\ \A k \in 1 .. Len(d) : Append(d, y)[k] = d[k]
      /\ Len(c) \in Nat /\ Len(d) \in Nat
  OBVIOUS
<1>2. Len(c) = Len(d) /\ x = y /\ \A k \in 1 .. Len(c) : c[k] = d[k]
  BY <1>1
<1>3. c = d
  BY <1>2, SeqEqual
<1>4. QED
  BY <1>2, <1>3

\* What is below a call is what it led to itself or below that.
LEMMA UnderSplit ==
  ASSUME NEW c \in Seq(Sides), NEW d \in Seq(Sides), Under(c, d)
  PROVE  /\ d[Len(c) + 1] \in Sides
         /\ d = Append(c, d[Len(c) + 1]) \/ Under(Append(c, d[Len(c) + 1]), d)
<1>1. Len(c) \in Nat /\ Len(d) \in Nat /\ Len(c) < Len(d) /\ \A k \in 1 .. Len(c) : d[k] = c[k]
  BY DEF Under
<1>2. d[Len(c) + 1] \in Sides
  <2>1. Len(c) + 1 \in 1 .. Len(d)
    BY <1>1
  <2>2. QED
    BY <2>1
<1> DEFINE b == Append(c, d[Len(c) + 1])
<1>3. /\ b \in Seq(Sides) /\ Len(b) = Len(c) + 1
      /\ \A k \in 1 .. Len(c) : b[k] = c[k]
      /\ b[Len(c) + 1] = d[Len(c) + 1]
  BY <1>2
<1> HIDE DEF b
<1>4. \A k \in 1 .. Len(b) : b[k] = d[k]
  <2>1. \A k \in 1 .. Len(b) : k \in 1 .. Len(c) \/ k = Len(c) + 1
    BY <1>1, <1>3
  <2>2. QED
    BY <1>1, <1>3, <2>1
<1>5. CASE Len(d) = Len(b)
  <2>1. d = b
    BY <1>3, <1>4, <1>5, SeqEqual
  <2>2. QED
    BY <1>2, <2>1 DEF b
<1>6. CASE Len(d) # Len(b)
  <2>1. Under(b, d)
    BY <1>1, <1>3, <1>4, <1>6 DEF Under
  <2>2. QED
    BY <1>2, <2>1 DEF b
<1>7. QED
  BY <1>5, <1>6

\* What a call may look like.
LEMMA CallIs ==
  ASSUME QuickInv, NEW c \in DOMAIN calls
  PROVE  /\ c \in Seq(Sides)
         /\ calls[c] \in [list : SUBSET Elements, pivot : Elements \cup {NoPivot},
                          how : {"called", "async", "deferred"},
                          pc : {"divide", "sortOwn", "get", "returned"}, result : Seq(Elements)]
         /\ Held(c) \subseteq Elements
         /\ calls[c].pc # "divide" => calls[c].list = {}
         /\ calls[c].pc # "returned" => calls[c].result = <<>>
         /\ calls[c].pivot # NoPivot <=> calls[c].pc \in {"sortOwn", "get"}
         /\ calls[c].pivot # NoPivot => Append(c, "low") \in DOMAIN calls /\ Append(c, "high") \in DOMAIN calls
         /\ calls[c].pc = "get" => calls[Append(c, Own)].pc = "returned"
<1>1. InvCall(c) /\ c \in Seq(Sides)
  BY DEF QuickInv, InvTree
<1>2. Held(c) \subseteq Elements
  <2>1. calls[c].list \subseteq Elements /\ calls[c].result \in Seq(Elements) /\ calls[c].pivot \in Elements \cup {NoPivot}
    BY <1>1 DEF InvCall
  <2>2. ToSet(calls[c].result) \subseteq Elements
    BY <2>1 DEF ToSet
  <2>3. QED
    BY <2>1, <2>2 DEF Held
<1>3. QED
  BY <1>1, <1>2 DEF InvCall, Waiting, Returned

\* Every element is in the hands of one call.
HeldOnce == /\ \A e \in Elements : \E c \in DOMAIN calls : e \in Held(c)
            /\ \A c, d \in DOMAIN calls : \A e \in Held(c) : e \in Held(d) => c = d

\* What calls return is in order.
InOrder(sorted) == /\ IsInjective(sorted)
                   /\ \A k, m \in DOMAIN sorted : k < m => value[sorted[k]] <= value[sorted[m]]

\* The two halves of CallsSort.
LEMMA CallsSortIs ==
  QuickInv => HeldOnce /\ \A c \in DOMAIN calls : InOrder(calls[c].result)
<1> SUFFICES ASSUME QuickInv PROVE HeldOnce /\ \A c \in DOMAIN calls : InOrder(calls[c].result)
  OBVIOUS
<1>1. \A c \in DOMAIN calls : Held(c) \subseteq Elements
  BY CallIs
<1>2. \A e \in Elements : \E c \in DOMAIN calls : e \in Held(c) /\ \A d \in DOMAIN calls \ {c} : e \notin Held(d)
  BY DEF QuickInv, CallsSort
<1>3. ASSUME NEW c \in DOMAIN calls, NEW d \in DOMAIN calls, NEW e \in Held(c), e \in Held(d) PROVE c = d
  <2>1. PICK b \in DOMAIN calls : \A x \in DOMAIN calls \ {b} : e \notin Held(x)
    BY <1>1, <1>2
  <2>2. QED
    BY <1>3, <2>1
<1>4. QED
  BY <1>2, <1>3 DEF QuickInv, CallsSort, HeldOnce, InOrder

\* A quick sort starts with everything in the hands of one call.
LEMMA QuickInitInv == QuickInit => QuickInv
<1> SUFFICES ASSUME QuickInit PROVE QuickInv
  OBVIOUS
<1> DEFINE root == NewCall(Elements, "called")
<1>1. function \in Functions /\ value \in [Elements -> Values] /\ DOMAIN calls = {<<>>} /\ calls[<<>>] = root
  BY DEF QuickInit
<1>2. /\ root.list = Elements /\ root.pivot = NoPivot /\ root.pc = "divide" /\ root.result = <<>>
      /\ root \in [list : SUBSET Elements, pivot : Elements \cup {NoPivot},
                   how : {"called", "async", "deferred"},
                   pc : {"divide", "sortOwn", "get", "returned"}, result : Seq(Elements)]
  BY DEF NewCall
<1> HIDE DEF root
<1>3. Held(<<>>) = Elements
  BY <1>1, <1>2 DEF Held, ToSet
<1>4. CallsSort
  <2>1. IsInjective(<<>>)
    BY DEF IsInjective
  <2>2. QED
    BY <1>1, <1>2, <1>3, <2>1 DEF CallsSort
<1>5. ~Under(<<>>, <<>>)
  BY DEF Under
<1>6. InvTree /\ InvParts
  BY <1>1, <1>2, <1>5 DEF InvTree, InvParts, InvCall, Waiting, Returned
<1>7. QED
  BY <1>1, <1>4, <1>6 DEF QuickInv

\* A call goes on without touching an element: its list is empty, or the first of
\* its parts is sorted.
LEMMA QuickPcKeeps ==
  ASSUME QuickInv, UNCHANGED <<function, value>>, NEW c \in DOMAIN calls, NEW pc,
         calls' = [calls EXCEPT ![c].pc = pc],
         \/ calls[c].pc = "divide" /\ calls[c].list = {} /\ pc = "returned"
         \/ calls[c].pc = "sortOwn" /\ Returned(Append(c, Own)) /\ pc = "get"
  PROVE  QuickInv'
<1>1. /\ DOMAIN calls' = DOMAIN calls
      /\ \A d \in DOMAIN calls : /\ calls'[d].list = calls[d].list /\ calls'[d].pivot = calls[d].pivot
                                 /\ calls'[d].result = calls[d].result
                                 /\ d # c => calls'[d] = calls[d]
      /\ calls'[c] = [calls[c] EXCEPT !.pc = pc]
      /\ calls'[c].pc = pc
  <2>1. \A d \in DOMAIN calls : calls[d] = [list |-> calls[d].list, pivot |-> calls[d].pivot,
          how |-> calls[d].how, pc |-> calls[d].pc, result |-> calls[d].result]
    BY CallIs
  <2>2. QED
    BY <2>1
<1>2. \A d \in DOMAIN calls : Held(d)' = Held(d) /\ Waiting(d)' = Waiting(d)
  BY <1>1 DEF Held, Waiting
<1>3. Own' = Own /\ \A e, p : InLowPart(e, p)' = InLowPart(e, p)
  BY DEF Own, InLowPart
<1>4. CallsSort'
  <2>1. \A e \in Elements : \E b \in DOMAIN calls' :
          e \in Held(b)' /\ \A d \in DOMAIN calls' \ {b} : e \notin Held(d)'
    BY <1>1, <1>2 DEF QuickInv, CallsSort
  <2>2. \A b \in DOMAIN calls' : InOrder(calls'[b].result)
    BY <1>1, CallsSortIs
  <2>3. QED
    BY <2>1, <2>2 DEF CallsSort, InOrder
<1>5. ASSUME NEW d \in DOMAIN calls PROVE InvCall(d)'
  <2>1. /\ calls[d] \in [list : SUBSET Elements, pivot : Elements \cup {NoPivot},
                         how : {"called", "async", "deferred"},
                         pc : {"divide", "sortOwn", "get", "returned"}, result : Seq(Elements)]
        /\ calls[d].pc # "divide" => calls[d].list = {}
        /\ calls[d].pc # "returned" => calls[d].result = <<>>
        /\ calls[d].pivot # NoPivot <=> calls[d].pc \in {"sortOwn", "get"}
        /\ calls[d].pivot # NoPivot => Append(d, "low") \in DOMAIN calls /\ Append(d, "high") \in DOMAIN calls
        /\ calls[d].pc = "get" => calls[Append(d, Own)].pc = "returned"
    BY CallIs
  <2>2. Own \in Sides
    BY DEF Own, Sides
  <2>3. CASE d = c
    <3>1. pc = "get" => Append(c, Own) \in DOMAIN calls /\ Append(c, Own) # c
      BY <2>1, <2>2, <2>3, AppendUnder, CallIs DEF Own
    <3>2. pc = "get" => calls'[Append(c, Own)].pc = "returned"
      BY <1>1, <3>1 DEF Returned
    <3>3. calls'[c] \in [list : SUBSET Elements, pivot : Elements \cup {NoPivot},
                         how : {"called", "async", "deferred"},
                         pc : {"divide", "sortOwn", "get", "returned"}, result : Seq(Elements)]
      BY <1>1, <2>1, <2>3
    <3>4. QED
      BY <1>1, <1>3, <2>1, <2>3, <3>2, <3>3 DEF InvCall, Waiting, Returned
  <2>4. CASE d # c
    <3>1. calls[d].pc = "get" => calls'[Append(d, Own)].pc = "returned"
      <4>1. calls[d].pc = "get" => Append(d, Own) \in DOMAIN calls
        BY <2>1 DEF Own
      <4>2. QED
        BY <1>1, <2>1, <4>1
    <3>2. QED
      BY <1>1, <1>3, <2>1, <2>4, <3>1 DEF InvCall, Waiting, Returned
  <2>5. QED
    BY <2>3, <2>4
<1>6. InvTree'
  BY <1>1, <1>2, <1>5 DEF QuickInv, InvTree, Under
<1>7. InvParts'
  BY <1>1, <1>2, <1>3 DEF QuickInv, InvParts, Under
<1>8. QED
  BY <1>4, <1>6, <1>7 DEF QuickInv

\* The elements of a part.
LEMMA PartIs ==
  ASSUME QuickInv, NEW c \in DOMAIN calls, NEW pivot \in calls[c].list
  PROVE  /\ \A e \in Part(c, pivot, "low") : e \in calls[c].list /\ e # pivot /\ InLowPart(e, pivot)
         /\ \A e \in Part(c, pivot, "high") : e \in calls[c].list /\ e # pivot /\ ~InLowPart(e, pivot)
         /\ \A e \in calls[c].list : e = pivot \/ e \in Part(c, pivot, "low") \/ e \in Part(c, pivot, "high")
<1> DEFINE low == {e \in calls[c].list \ {pivot} : InLowPart(e, pivot)}
<1>1. Part(c, pivot, "low") = low /\ Part(c, pivot, "high") = (calls[c].list \ {pivot}) \ low
  BY DEF Part
<1>2. \A e : e \in low <=> e \in calls[c].list /\ e # pivot /\ InLowPart(e, pivot)
  OBVIOUS
<1> HIDE DEF low
<1>3. QED
  BY <1>1, <1>2

\* What Divide leaves where, when it takes an element for the pivot.
Leaves(c, pivot) == /\ calls'[c] = [calls[c] EXCEPT !.pc = "sortOwn", !.pivot = pivot, !.list = {}]
                    /\ \E how \in {"called", "async", "deferred"} :
                         calls'[Append(c, "low")] = NewCall(Part(c, pivot, "low"), how)
                    /\ \E how \in {"called", "async", "deferred"} :
                         calls'[Append(c, "high")] = NewCall(Part(c, pivot, "high"), how)

\* What Divide changes.
LEMMA DivideLeaves ==
  ASSUME QuickInv, UNCHANGED <<function, value>>, NEW c \in DOMAIN calls, Divide(c)
  PROVE  /\ calls[c].pc = "divide"
         /\ DOMAIN calls' = DOMAIN calls \cup {Append(c, "low"), Append(c, "high")}
         /\ Append(c, "low") \notin DOMAIN calls /\ Append(c, "high") \notin DOMAIN calls
         /\ \A d \in DOMAIN calls \ {c} : calls'[d] = calls[d]
         /\ \E pivot \in calls[c].list : Leaves(c, pivot)
<1> DEFINE low  == Append(c, "low")
           high == Append(c, "high")
<1>1. PICK pivot \in calls[c].list, how \in Ways :
        calls' = [d \in DOMAIN calls \cup {Append(c, Own), Append(c, Other)} |->
                    IF d = c THEN [calls[c] EXCEPT !.pc = "sortOwn", !.pivot = pivot, !.list = {}]
                    ELSE IF d = Append(c, Own)   THEN NewCall(Part(c, pivot, Own), "called")
                    ELSE IF d = Append(c, Other) THEN NewCall(Part(c, pivot, Other), how)
                    ELSE calls[d]]
  BY Zenon DEF Divide
<1>2. calls[c].pc = "divide" /\ how \in {"async", "deferred"}
  BY <1>1 DEF Divide, Ways
<1>3. c \in Seq(Sides) /\ "low" \in Sides /\ "high" \in Sides /\ "low" # "high"
  BY CallIs DEF Sides
<1>4. low # c /\ high # c /\ low # high /\ Under(c, low) /\ Under(c, high)
  <2>1. low # c /\ high # c /\ Under(c, low) /\ Under(c, high)
    BY <1>3, AppendUnder
  <2>2. low # high
    BY <1>3, AppendOnce
  <2>3. QED
    BY <2>1, <2>2
<1>5. low \notin DOMAIN calls /\ high \notin DOMAIN calls
  <2>1. ~Waiting(c)
    BY <1>2, CallIs DEF Waiting
  <2>2. QED
    BY <1>4, <2>1 DEF QuickInv, InvTree
<1>6. CASE Own = "low" /\ Other = "high"
  <2>1. calls' = [d \in DOMAIN calls \cup {low, high} |->
                    IF d = c THEN [calls[c] EXCEPT !.pc = "sortOwn", !.pivot = pivot, !.list = {}]
                    ELSE IF d = low  THEN NewCall(Part(c, pivot, "low"), "called")
                    ELSE IF d = high THEN NewCall(Part(c, pivot, "high"), how)
                    ELSE calls[d]]
    BY <1>1, <1>6, Zenon
  <2> HIDE DEF low, high
  <2>2. /\ DOMAIN calls' = DOMAIN calls \cup {low, high}
        /\ calls'[c] = [calls[c] EXCEPT !.pc = "sortOwn", !.pivot = pivot, !.list = {}]
        /\ calls'[low] = NewCall(Part(c, pivot, "low"), "called")
        /\ calls'[high] = NewCall(Part(c, pivot, "high"), how)
        /\ \A d \in DOMAIN calls \ {c} : calls'[d] = calls[d]
    BY <1>4, <1>5, <2>1, Zenon
  <2>3. Leaves(c, pivot)
    BY <1>2, <2>2, Zenon DEF Leaves, low, high
  <2>4. QED
    BY <1>2, <1>5, <2>2, <2>3, Zenon DEF low, high
<1>7. CASE Own = "high" /\ Other = "low"
  <2>1. calls' = [d \in DOMAIN calls \cup {low, high} |->
                    IF d = c THEN [calls[c] EXCEPT !.pc = "sortOwn", !.pivot = pivot, !.list = {}]
                    ELSE IF d = high THEN NewCall(Part(c, pivot, "high"), "called")
                    ELSE IF d = low  THEN NewCall(Part(c, pivot, "low"), how)
                    ELSE calls[d]]
    <3>1. DOMAIN calls \cup {high, low} = DOMAIN calls \cup {low, high}
      OBVIOUS
    <3>2. QED
      BY <1>1, <1>7, <3>1, Zenon
  <2> HIDE DEF low, high
  <2>2. /\ DOMAIN calls' = DOMAIN calls \cup {low, high}
        /\ calls'[c] = [calls[c] EXCEPT !.pc = "sortOwn", !.pivot = pivot, !.list = {}]
        /\ calls'[low] = NewCall(Part(c, pivot, "low"), how)
        /\ calls'[high] = NewCall(Part(c, pivot, "high"), "called")
        /\ \A d \in DOMAIN calls \ {c} : calls'[d] = calls[d]
    BY <1>4, <1>5, <2>1, Zenon
  <2>3. Leaves(c, pivot)
    BY <1>2, <2>2, Zenon DEF Leaves, low, high
  <2>4. QED
    BY <1>2, <1>5, <2>2, <2>3, Zenon DEF low, high
<1>8. (Own = "low" /\ Other = "high") \/ (Own = "high" /\ Other = "low")
  BY DEF Own, Other
<1>9. QED
  BY <1>6, <1>7, <1>8, Zenon

\* What is in whose hands after Divide.
AfterDivide(c, pivot) ==
  /\ Held(c) = calls[c].list /\ pivot \in Elements
  /\ Held(c)' = {pivot} /\ calls'[c].pivot = pivot
  /\ calls'[c].pc = "sortOwn" /\ calls'[c].list = {} /\ calls'[c].result = <<>>
  /\ calls'[c].how \in {"called", "async", "deferred"}
  /\ calls'[c] = [list |-> {}, pivot |-> pivot, how |-> calls'[c].how, pc |-> "sortOwn", result |-> <<>>]
  /\ \A side \in Sides :
       /\ Held(Append(c, side))' = Part(c, pivot, side) /\ Part(c, pivot, side) \subseteq Elements
       /\ \E how \in {"called", "async", "deferred"} :
            calls'[Append(c, side)] = NewCall(Part(c, pivot, side), how)

\* Divide takes the elements from the hands of its call into those of its parts.
LEMMA DivideHolds ==
  ASSUME QuickInv, NEW c \in DOMAIN calls, calls[c].pc = "divide",
         NEW pivot \in calls[c].list, Leaves(c, pivot)
  PROVE  AfterDivide(c, pivot)
<1>1. calls[c].list \subseteq Elements /\ calls[c].result = <<>> /\ calls[c].pivot = NoPivot /\ calls[c].how \in {"called", "async", "deferred"}
      /\ calls[c] = [list |-> calls[c].list, pivot |-> calls[c].pivot, how |-> calls[c].how, pc |-> calls[c].pc, result |-> calls[c].result]
  BY CallIs
<1>2. pivot \in Elements /\ pivot # NoPivot
  BY <1>1, QuickAssumption
<1>3. ToSet(<<>>) = {}
  BY DEF ToSet
<1>4. Held(c) = calls[c].list
  BY <1>1, <1>3 DEF Held
<1>5. /\ calls'[c] = [list |-> {}, pivot |-> pivot, how |-> calls[c].how, pc |-> "sortOwn", result |-> <<>>]
  <2>1. calls'[c] = [calls[c] EXCEPT !.pc = "sortOwn", !.pivot = pivot, !.list = {}]
    BY DEF Leaves
  <2>2. QED
    BY <1>1, <2>1
<1>6. Held(c)' = {pivot}
  BY <1>2, <1>3, <1>5 DEF Held
<1>7. ASSUME NEW side \in Sides
      PROVE  /\ Held(Append(c, side))' = Part(c, pivot, side) /\ Part(c, pivot, side) \subseteq Elements
             /\ \E how \in {"called", "async", "deferred"} :
                  calls'[Append(c, side)] = NewCall(Part(c, pivot, side), how)
  <2> DEFINE d == Append(c, side)
  <2>1. PICK how \in {"called", "async", "deferred"} : calls'[d] = NewCall(Part(c, pivot, side), how)
    <3>1. CASE side = "low"
      BY <3>1, Zenon DEF Leaves
    <3>2. CASE side = "high"
      BY <3>2, Zenon DEF Leaves
    <3>3. QED
      BY <3>1, <3>2 DEF Sides
  <2>2. calls'[d].list = Part(c, pivot, side) /\ calls'[d].pivot = NoPivot /\ calls'[d].result = <<>>
    BY <2>1 DEF NewCall
  <2>3. Held(d)' = Part(c, pivot, side)
    <3> HIDE DEF d
    <3>1. QED
      BY <1>3, <2>2 DEF Held
  <2>4. Part(c, pivot, side) \subseteq Elements
    <3>1. \A e \in Part(c, pivot, side) : e \in calls[c].list
      BY PartIs DEF Sides
    <3>2. QED
      BY <1>1, <3>1
  <2>5. QED
    BY <2>1, <2>3, <2>4, Zenon
<1>8. /\ calls'[c].pc = "sortOwn" /\ calls'[c].list = {} /\ calls'[c].result = <<>>
      /\ calls'[c].how = calls[c].how /\ calls'[c].pivot = pivot
  BY <1>5
<1>9. /\ calls'[c].how \in {"called", "async", "deferred"}
      /\ calls'[c] = [list |-> {}, pivot |-> pivot, how |-> calls'[c].how, pc |-> "sortOwn", result |-> <<>>]
  BY <1>1, <1>5, <1>8, Zenon
<1>10. QED
  BY <1>1, <1>2, <1>4, <1>6, <1>7, <1>8, <1>9, Zenon DEF AfterDivide

\* Divide leaves every element with one call.
LEMMA DivideHeldOnce ==
  ASSUME QuickInv, UNCHANGED <<function, value>>, NEW c \in DOMAIN calls, Divide(c)
  PROVE  CallsSort'
<1> DEFINE low  == Append(c, "low")
           high == Append(c, "high")
<1>1. /\ DOMAIN calls' = DOMAIN calls \cup {low, high} /\ low \notin DOMAIN calls /\ high \notin DOMAIN calls
      /\ \A d \in DOMAIN calls \ {c} : calls'[d] = calls[d]
  BY DivideLeaves
<1>2. PICK pivot \in calls[c].list : Leaves(c, pivot)
  BY DivideLeaves
<1> DEFINE PL == Part(c, pivot, "low")
           PH == Part(c, pivot, "high")
<1>3. /\ Held(c) = calls[c].list /\ Held(c)' = {pivot} /\ Held(low)' = PL /\ Held(high)' = PH
      /\ calls'[c].result = <<>>
      /\ \E how \in {"called", "async", "deferred"} : calls'[low] = NewCall(PL, how)
      /\ \E how \in {"called", "async", "deferred"} : calls'[high] = NewCall(PH, how)
  <2>1. calls[c].pc = "divide" /\ "low" \in Sides /\ "high" \in Sides
    BY DivideLeaves DEF Sides
  <2>2. AfterDivide(c, pivot)
    BY <1>2, <2>1, DivideHolds, Zenon
  <2>3. QED
    BY <2>1, <2>2, Zenon DEF AfterDivide
<1>4. calls'[low].result = <<>> /\ calls'[high].result = <<>>
  BY <1>3 DEF NewCall
<1>5. low # high /\ low # c /\ high # c
  <2>1. low # c /\ high # c
    BY <1>1
  <2>2. low # high
    BY AppendOnce, CallIs DEF Sides
  <2>3. QED
    BY <2>1, <2>2
<1>6. /\ \A e \in PL : e \in calls[c].list /\ e # pivot /\ InLowPart(e, pivot)
      /\ \A e \in PH : e \in calls[c].list /\ e # pivot /\ ~InLowPart(e, pivot)
      /\ \A e \in calls[c].list : e = pivot \/ e \in PL \/ e \in PH
  BY PartIs
<1>7. \A d \in DOMAIN calls \ {c} : Held(d)' = Held(d)
  BY <1>1 DEF Held
<1> HIDE DEF low, high, PL, PH
<1>8. ASSUME NEW e \in Elements
      PROVE  \E b \in DOMAIN calls' : e \in Held(b)' /\ \A d \in DOMAIN calls' \ {b} : e \notin Held(d)'
  <2>1. PICK b \in DOMAIN calls : e \in Held(b) /\ \A d \in DOMAIN calls : e \in Held(d) => d = b
    BY CallsSortIs DEF HeldOnce
  <2>2. CASE b # c
    <3>1. e \notin calls[c].list
      BY <1>3, <2>1, <2>2
    <3>2. e \in Held(b)' /\ \A d \in DOMAIN calls' \ {b} : e \notin Held(d)'
      BY <1>1, <1>2, <1>3, <1>6, <1>7, <2>1, <2>2, <3>1
    <3>3. QED
      BY <1>1, <3>2
  <2>3. CASE b = c
    <3>1. e \in calls[c].list /\ \A d \in DOMAIN calls \ {c} : e \notin Held(d)'
      BY <1>3, <1>7, <2>1, <2>3
    <3>2. CASE e = pivot
      BY <1>1, <1>3, <1>6, <3>1, <3>2
    <3>3. CASE e \in PL
      <4>1. e # pivot /\ e \notin PH
        BY <1>6, <3>3
      <4>2. QED
        BY <1>1, <1>3, <1>5, <3>1, <3>3, <4>1
    <3>4. CASE e \in PH
      <4>1. e # pivot /\ e \notin PL
        BY <1>6, <3>4
      <4>2. QED
        BY <1>1, <1>3, <1>5, <3>1, <3>4, <4>1
    <3>5. QED
      BY <1>6, <3>1, <3>2, <3>3, <3>4
  <2>4. QED
    BY <2>2, <2>3
<1>9. InOrder(<<>>)
  BY DEF InOrder, IsInjective
<1>10. ASSUME NEW d \in DOMAIN calls' PROVE InOrder(calls'[d].result)
  <2>1. CASE d \in DOMAIN calls \ {c}
    BY <1>1, <2>1, CallsSortIs
  <2>2. CASE d \in {c, low, high}
    BY <1>3, <1>4, <1>9, <2>2
  <2>3. QED
    BY <1>1, <2>1, <2>2
<1>11. QED
  BY <1>8, <1>10 DEF CallsSort, InOrder

\* The parts that Divide leaves are below what it divided, and below what that is
\* below; nothing is below them.
LEMMA DivideUnder ==
  ASSUME QuickInv, NEW c \in DOMAIN calls, calls[c].pc = "divide",
         DOMAIN calls' = DOMAIN calls \cup {Append(c, "low"), Append(c, "high")},
         NEW b \in DOMAIN calls', NEW d \in DOMAIN calls', Under(b, d)
  PROVE  \/ b \in DOMAIN calls \ {c} /\ d \in DOMAIN calls
         \/ b = c /\ \E side \in Sides : d = Append(c, side)
         \/ b \in DOMAIN calls \ {c} /\ Under(b, c) /\ \E side \in Sides : d = Append(c, side)
<1>1. ~Waiting(c) /\ "low" \in Sides /\ "high" \in Sides
  BY CallIs DEF Waiting, Sides
<1>2. DOMAIN calls \subseteq Seq(Sides) /\ \A x, y \in DOMAIN calls : Under(x, y) => Waiting(x)
  BY DEF QuickInv, InvTree
<1>3. c \in Seq(Sides) /\ \A side \in Sides : Append(c, side) \in Seq(Sides) /\ Under(c, Append(c, side))
  BY <1>2, AppendUnder
<1>4. b \in Seq(Sides) /\ d \in Seq(Sides)
  <2>1. \A x \in DOMAIN calls' : x \in DOMAIN calls \/ x = Append(c, "low") \/ x = Append(c, "high")
    OBVIOUS
  <2>2. \A x \in DOMAIN calls' : x \in Seq(Sides)
    BY <1>1, <1>2, <1>3, <2>1
  <2>3. QED
    BY <2>2
<1>5. (b \in DOMAIN calls \/ \E side \in Sides : b = Append(c, side))
      /\ (d \in DOMAIN calls \/ \E side \in Sides : d = Append(c, side))
  BY <1>1
<1>6. CASE \E side \in Sides : b = Append(c, side)
  <2>1. PICK x \in Sides : b = Append(c, x)
    BY <1>6
  <2>2. Under(c, b)
    BY <1>3, <2>1
  <2>3. Under(c, d)
    BY <1>3, <1>4, <2>2, UnderAgain
  <2>4. d \notin DOMAIN calls
    BY <1>1, <1>2, <2>3
  <2>5. PICK y \in Sides : d = Append(c, y)
    BY <1>5, <2>4
  <2>6. b = c \/ Under(b, c)
    BY <1>3, <1>4, <2>5, UnderAppend
  <2>7. ~Under(b, c) /\ b # c
    BY <1>3, <1>4, <2>2, UnderAgain
  <2>8. QED
    BY <2>6, <2>7
<1>7. CASE b \in DOMAIN calls
  <2>1. CASE d \in DOMAIN calls
    <3>1. b # c
      BY <1>1, <1>2, <1>7, <2>1
    <3>2. QED
      BY <1>7, <2>1, <3>1
  <2>2. CASE \E side \in Sides : d = Append(c, side)
    <3>1. PICK y \in Sides : d = Append(c, y)
      BY <2>2
    <3>2. b = c \/ Under(b, c)
      BY <1>3, <1>4, <3>1, UnderAppend
    <3>3. b = c \/ (b \in DOMAIN calls \ {c} /\ Under(b, c))
      BY <1>7, <3>2
    <3>4. QED
      BY <2>2, <3>3
  <2>3. QED
    BY <1>5, <2>1, <2>2
<1>8. QED
  BY <1>5, <1>6, <1>7

\* A new call.
LEMMA NewCallIs ==
  ASSUME QuickAssumption, NEW elements \in SUBSET Elements, NEW how \in {"called", "async", "deferred"}
  PROVE  LET new == NewCall(elements, how) IN
         /\ new \in [list : SUBSET Elements, pivot : Elements \cup {NoPivot},
                     how : {"called", "async", "deferred"},
                     pc : {"divide", "sortOwn", "get", "returned"}, result : Seq(Elements)]
         /\ new.pc = "divide" /\ new.result = <<>> /\ new.pivot = NoPivot /\ new.list = elements
<1>1. <<>> \in Seq(Elements)
  OBVIOUS
<1>2. QED
  BY <1>1 DEF NewCall

\* Divide keeps the calls a tree.
LEMMA DivideTree ==
  ASSUME QuickInv, UNCHANGED <<function, value>>, NEW c \in DOMAIN calls, Divide(c)
  PROVE  InvTree'
<1> DEFINE low  == Append(c, "low")
           high == Append(c, "high")
<1>1. /\ DOMAIN calls' = DOMAIN calls \cup {low, high} /\ low \notin DOMAIN calls /\ high \notin DOMAIN calls
      /\ \A d \in DOMAIN calls \ {c} : calls'[d] = calls[d]
      /\ calls[c].pc = "divide"
  BY DivideLeaves
<1>2. PICK pivot \in calls[c].list : Leaves(c, pivot)
  BY DivideLeaves
<1>3. AfterDivide(c, pivot)
  BY <1>1, <1>2, DivideHolds, Zenon
<1>4. /\ c \in Seq(Sides) /\ "low" \in Sides /\ "high" \in Sides /\ Own' = Own
      /\ \A side \in Sides : Append(c, side) \in Seq(Sides)
      /\ DOMAIN calls \subseteq Seq(Sides)
  BY CallIs, AppendUnder DEF Sides, Own, QuickInv, InvTree
<1>5. pivot # NoPivot /\ pivot \in Elements
  BY <1>3, QuickAssumption DEF AfterDivide
<1>6. ASSUME NEW d \in DOMAIN calls \ {c} PROVE InvCall(d)'
  <2>1. calls'[d] = calls[d] /\ InvCall(d)
    BY <1>1 DEF QuickInv, InvTree
  <2>2. Waiting(d)' <=> Waiting(d)
    BY <2>1 DEF Waiting
  <2>3. calls[d].pc = "get" => Returned(Append(d, Own))'
    <3>1. SUFFICES ASSUME calls[d].pc = "get" PROVE Returned(Append(d, Own))'
      OBVIOUS
    <3>2. Append(d, Own) \in DOMAIN calls /\ calls[Append(d, Own)].pc = "returned"
      BY <2>1, <3>1 DEF InvCall, Waiting, Returned, Own
    <3>3. Append(d, Own) # c
      BY <1>1, <3>2
    <3>4. QED
      BY <1>1, <1>4, <3>2, <3>3 DEF Returned
  <2>4. QED
    BY <1>1, <1>4, <2>1, <2>2, <2>3 DEF InvCall, Returned
<1>7. InvCall(c)'
  <2>1. /\ calls'[c].pivot = pivot /\ calls'[c].pc = "sortOwn" /\ calls'[c].list = {} /\ calls'[c].result = <<>>
        /\ calls'[c] \in [list : SUBSET Elements, pivot : Elements \cup {NoPivot},
                          how : {"called", "async", "deferred"},
                          pc : {"divide", "sortOwn", "get", "returned"}, result : Seq(Elements)]
    <3>1. /\ calls'[c] = [list |-> {}, pivot |-> pivot, how |-> calls'[c].how, pc |-> "sortOwn", result |-> <<>>]
          /\ calls'[c].how \in {"called", "async", "deferred"}
          /\ calls'[c].pivot = pivot /\ calls'[c].pc = "sortOwn" /\ calls'[c].list = {} /\ calls'[c].result = <<>>
      BY <1>3 DEF AfterDivide
    <3>2. {} \in SUBSET Elements /\ <<>> \in Seq(Elements)
      OBVIOUS
    <3> DEFINE how == calls'[c].how
    <3>3. how \in {"called", "async", "deferred"}
      BY <3>1
    <3> HIDE DEF how
    <3>4. [list |-> {}, pivot |-> pivot, how |-> how, pc |-> "sortOwn", result |-> <<>>]
            \in [list : SUBSET Elements, pivot : Elements \cup {NoPivot},
                 how : {"called", "async", "deferred"},
                 pc : {"divide", "sortOwn", "get", "returned"}, result : Seq(Elements)]
      BY <1>5, <3>2, <3>3
    <3>5. QED
      BY <3>1, <3>4, Zenon DEF how
  <2>2. QED
    BY <1>1, <1>5, <2>1 DEF InvCall, Waiting
<1>8. ASSUME NEW side \in Sides PROVE InvCall(Append(c, side))'
  <2> DEFINE d == Append(c, side)
             elements == Part(c, pivot, side)
  <2>1. PICK how \in {"called", "async", "deferred"} : calls'[d] = NewCall(elements, how)
    BY <1>3, Zenon DEF AfterDivide
  <2>2. elements \in SUBSET Elements
    BY <1>3 DEF AfterDivide
  <2> HIDE DEF d, elements
  <2>3. /\ calls'[d] \in [list : SUBSET Elements, pivot : Elements \cup {NoPivot},
                          how : {"called", "async", "deferred"},
                          pc : {"divide", "sortOwn", "get", "returned"}, result : Seq(Elements)]
        /\ calls'[d].pc = "divide" /\ calls'[d].result = <<>> /\ calls'[d].pivot = NoPivot
    BY <2>1, <2>2, QuickAssumption, NewCallIs
  <2>4. InvCall(d)'
    BY <2>3 DEF InvCall, Waiting
  <2>5. QED
    BY <2>4 DEF d
<1>9. ASSUME NEW d \in DOMAIN calls' PROVE InvCall(d)'
  <2>1. d \in DOMAIN calls \ {c} \/ d = c \/ d = low \/ d = high
    BY <1>1
  <2>2. InvCall(low)' /\ InvCall(high)'
    BY <1>4, <1>8
  <2> HIDE DEF low, high
  <2>3. QED
    BY <1>6, <1>7, <2>1, <2>2
<1>10. ASSUME NEW b \in DOMAIN calls', NEW d \in DOMAIN calls', Under(b, d) PROVE Waiting(b)'
  <2>1. Waiting(c)'
    BY <1>3, <1>5 DEF AfterDivide, Waiting
  <2>2. \/ b \in DOMAIN calls \ {c} /\ d \in DOMAIN calls
        \/ b = c
        \/ b \in DOMAIN calls \ {c} /\ Under(b, c)
    BY <1>1, <1>10, DivideUnder
  <2>3. b \in DOMAIN calls \ {c} => Waiting(b)
    BY <1>10, <2>2 DEF QuickInv, InvTree
  <2>4. b \in DOMAIN calls \ {c} => Waiting(b)'
    BY <1>1, <2>3 DEF Waiting
  <2>5. QED
    BY <2>1, <2>2, <2>4
<1>11. DOMAIN calls' \subseteq Seq(Sides)
  BY <1>1, <1>4
<1>12. QED
  BY <1>9, <1>10, <1>11 DEF InvTree, Under

\* Divide puts every element on its side of the pivot, and of the pivots above.
LEMMA DivideParts ==
  ASSUME QuickInv, UNCHANGED <<function, value>>, NEW c \in DOMAIN calls, Divide(c)
  PROVE  InvParts'
<1> DEFINE low  == Append(c, "low")
           high == Append(c, "high")
<1>1. /\ DOMAIN calls' = DOMAIN calls \cup {low, high} /\ low \notin DOMAIN calls /\ high \notin DOMAIN calls
      /\ \A d \in DOMAIN calls \ {c} : calls'[d] = calls[d]
      /\ calls[c].pc = "divide"
  BY DivideLeaves
<1>2. PICK pivot \in calls[c].list : Leaves(c, pivot)
  BY DivideLeaves
<1>3. AfterDivide(c, pivot)
  BY <1>1, <1>2, DivideHolds, Zenon
<1>4. Held(c) = calls[c].list /\ Held(c)' = {pivot} /\ calls'[c].pivot = pivot
      /\ \A side \in Sides : Held(Append(c, side))' = Part(c, pivot, side)
  BY <1>3, Zenon DEF AfterDivide
<1>5. /\ \A e \in Part(c, pivot, "low") : e \in calls[c].list /\ InLowPart(e, pivot)
      /\ \A e \in Part(c, pivot, "high") : e \in calls[c].list /\ ~InLowPart(e, pivot)
  BY PartIs
<1>6. c \in Seq(Sides) /\ DOMAIN calls \subseteq Seq(Sides)
  BY CallIs DEF QuickInv, InvTree
<1>7. ASSUME NEW x \in DOMAIN calls, NEW d \in DOMAIN calls, Under(x, d), NEW e \in Held(d)
      PROVE  InLowPart(e, calls[x].pivot) <=> d[Len(x) + 1] = "low"
  BY <1>7 DEF QuickInv, InvParts
<1>8. ASSUME NEW side \in Sides, NEW e \in Part(c, pivot, side)
      PROVE  e \in Held(c) /\ (InLowPart(e, pivot) <=> side = "low")
  <2>1. CASE side = "low"
    BY <1>4, <1>5, <2>1
  <2>2. CASE side = "high"
    BY <1>4, <1>5, <2>2
  <2>3. QED
    BY <2>1, <2>2 DEF Sides
<1>9. \A d \in DOMAIN calls \ {c} : Held(d)' = Held(d)
  BY <1>1 DEF Held
<1>10. ASSUME NEW b \in DOMAIN calls', NEW d \in DOMAIN calls', Under(b, d), NEW e \in Held(d)'
       PROVE  InLowPart(e, calls'[b].pivot) <=> d[Len(b) + 1] = "low"
  <2>1. \/ b \in DOMAIN calls \ {c} /\ d \in DOMAIN calls
        \/ b = c /\ \E side \in Sides : d = Append(c, side)
        \/ b \in DOMAIN calls \ {c} /\ Under(b, c) /\ \E side \in Sides : d = Append(c, side)
    BY <1>1, <1>10, DivideUnder
  <2>2. CASE b \in DOMAIN calls \ {c} /\ d \in DOMAIN calls
    <3>1. e \in Held(d)
      BY <1>2, <1>4, <1>9, <1>10, <2>2
    <3>2. calls'[b] = calls[b]
      BY <1>1, <2>2
    <3>3. QED
      BY <1>7, <1>10, <2>2, <3>1, <3>2
  <2>3. CASE b = c /\ \E side \in Sides : d = Append(c, side)
    <3>1. PICK side \in Sides : d = Append(c, side)
      BY <2>3
    <3>2. e \in Part(c, pivot, side)
      BY <1>4, <1>10, <3>1
    <3>3. d[Len(c) + 1] = side
      BY <1>6, <3>1, AppendUnder
    <3>4. InLowPart(e, pivot) <=> side = "low"
      BY <1>8, <3>2
    <3>5. QED
      BY <1>4, <2>3, <3>3, <3>4
  <2>4. CASE b \in DOMAIN calls \ {c} /\ Under(b, c) /\ \E side \in Sides : d = Append(c, side)
    <3>1. PICK side \in Sides : d = Append(c, side)
      BY <2>4
    <3>2. e \in Held(c)
      BY <1>4, <1>8, <1>10, <3>1
    <3>3. d[Len(b) + 1] = c[Len(b) + 1]
      <4>1. b \in Seq(Sides)
        BY <1>6, <2>4
      <4>2. QED
        BY <1>6, <2>4, <3>1, <4>1, AppendBelow
    <3>4. calls'[b] = calls[b]
      BY <1>1, <2>4
    <3>5. InLowPart(e, calls[b].pivot) <=> c[Len(b) + 1] = "low"
      BY <1>7, <2>4, <3>2
    <3>6. QED
      BY <3>3, <3>4, <3>5
  <2>5. QED
    BY <2>1, <2>2, <2>3, <2>4
<1>11. \A e, p : InLowPart(e, p)' = InLowPart(e, p)
  BY DEF InLowPart
<1>12. QED
  BY <1>10, <1>11 DEF InvParts, Under

\* Divide keeps the invariant.
LEMMA QuickDivideKeeps ==
  ASSUME QuickInv, UNCHANGED <<function, value>>, NEW c \in DOMAIN calls, Divide(c)
  PROVE  QuickInv'
<1>1. CallsSort' /\ InvTree' /\ InvParts'
  BY DivideHeldOnce, DivideTree, DivideParts
<1>2. QED
  BY <1>1 DEF QuickInv

\* A list, a pivot and another list put together.
LEMMA WholeIs ==
  ASSUME NEW s \in Seq(Elements), NEW p \in Elements, NEW t \in Seq(Elements)
  PROVE  LET whole == s \o <<p>> \o t IN
         /\ whole \in Seq(Elements) /\ Len(whole) = Len(s) + 1 + Len(t)
         /\ \A k \in 1 .. Len(whole) : /\ k <= Len(s) => k \in 1 .. Len(s) /\ whole[k] = s[k]
                                       /\ k = Len(s) + 1 => whole[k] = p
                                       /\ k > Len(s) + 1 => /\ k - (Len(s) + 1) \in 1 .. Len(t)
                                                            /\ whole[k] = t[k - (Len(s) + 1)]
<1> DEFINE q == s \o <<p>>
<1>1. <<p>> \in Seq(Elements) /\ Len(<<p>>) = 1 /\ <<p>>[1] = p /\ Len(s) \in Nat /\ Len(t) \in Nat
  OBVIOUS
<1>2. /\ q \in Seq(Elements) /\ Len(q) = Len(s) + 1
      /\ \A k \in 1 .. Len(q) : q[k] = IF k <= Len(s) THEN s[k] ELSE <<p>>[k - Len(s)]
  BY <1>1
<1> HIDE DEF q
<1> DEFINE whole == q \o t
<1>3. /\ whole \in Seq(Elements) /\ Len(whole) = Len(q) + Len(t)
      /\ \A k \in 1 .. Len(whole) : whole[k] = IF k <= Len(q) THEN q[k] ELSE t[k - Len(q)]
  <2>1. q \in Seq(Elements)
    BY <1>2
  <2>2. QED
    BY <2>1, ConcatProperties
<1> HIDE DEF whole
<1>4. ASSUME NEW k \in 1 .. Len(whole), k <= Len(s) PROVE k \in 1 .. Len(s) /\ whole[k] = s[k]
  <2>1. k \in 1 .. Len(s) /\ k \in 1 .. Len(q) /\ k <= Len(q)
    BY <1>1, <1>2, <1>3, <1>4
  <2>2. whole[k] = q[k] /\ q[k] = s[k]
    BY <1>2, <1>3, <1>4, <2>1
  <2>3. QED
    BY <2>1, <2>2
<1>5. ASSUME NEW k \in 1 .. Len(whole), k = Len(s) + 1 PROVE whole[k] = p
  <2>1. k \in 1 .. Len(q) /\ k <= Len(q) /\ ~(k <= Len(s)) /\ k - Len(s) = 1
    BY <1>1, <1>2, <1>3, <1>5
  <2>2. whole[k] = q[k] /\ q[k] = <<p>>[k - Len(s)]
    BY <1>2, <1>3, <2>1
  <2>3. QED
    BY <1>1, <2>1, <2>2
<1>6. ASSUME NEW k \in 1 .. Len(whole), k > Len(s) + 1
      PROVE  k - (Len(s) + 1) \in 1 .. Len(t) /\ whole[k] = t[k - (Len(s) + 1)]
  <2>1. k - (Len(s) + 1) \in 1 .. Len(t) /\ ~(k <= Len(q))
    BY <1>1, <1>2, <1>3, <1>6
  <2>2. whole[k] = t[k - Len(q)]
    BY <1>3, <2>1
  <2>3. QED
    BY <1>2, <2>1, <2>2
<1>7. Len(whole) = Len(s) + 1 + Len(t)
  BY <1>1, <1>2, <1>3
<1>8. QED
  BY <1>3, <1>4, <1>5, <1>6, <1>7 DEF whole, q

\* Two lists in order, all of the one before and of the other after the pivot, are
\* in order when they are put together.
LEMMA WholeInOrder ==
  ASSUME NEW s \in Seq(Elements), NEW p \in Elements, NEW t \in Seq(Elements),
         QuickAssumption, value \in [Elements -> Values], InOrder(s), InOrder(t),
         \A k \in 1 .. Len(s) : s[k] # p /\ value[s[k]] <= value[p],
         \A k \in 1 .. Len(t) : t[k] # p /\ value[p] <= value[t[k]],
         \A k \in 1 .. Len(s) : \A m \in 1 .. Len(t) : s[k] # t[m]
  PROVE  LET whole == s \o <<p>> \o t IN
         /\ whole \in Seq(Elements) /\ InOrder(whole)
         /\ \A e : e \in ToSet(whole) <=> e \in ToSet(s) \/ e = p \/ e \in ToSet(t)
<1> DEFINE whole == s \o <<p>> \o t
           n1 == Len(s) + 1
<1>1. /\ whole \in Seq(Elements) /\ Len(whole) = n1 + Len(t)
      /\ \A k \in 1 .. Len(whole) : /\ k < n1 => k \in 1 .. Len(s) /\ whole[k] = s[k]
                                    /\ k = n1 => whole[k] = p
                                    /\ k > n1 => k - n1 \in 1 .. Len(t) /\ whole[k] = t[k - n1]
  <2>1. Len(s) \in Nat
    OBVIOUS
  <2>2. /\ whole \in Seq(Elements) /\ Len(whole) = Len(s) + 1 + Len(t)
        /\ \A k \in 1 .. Len(whole) : /\ k <= Len(s) => k \in 1 .. Len(s) /\ whole[k] = s[k]
                                      /\ k = Len(s) + 1 => whole[k] = p
                                      /\ k > Len(s) + 1 => /\ k - (Len(s) + 1) \in 1 .. Len(t)
                                                           /\ whole[k] = t[k - (Len(s) + 1)]
    BY WholeIs
  <2> HIDE DEF whole
  <2>3. QED
    BY <2>1, <2>2
<1>2. Len(s) \in Nat /\ Len(t) \in Nat /\ n1 \in Nat /\ n1 = Len(s) + 1
      /\ DOMAIN s = 1 .. Len(s) /\ DOMAIN t = 1 .. Len(t) /\ DOMAIN whole = 1 .. Len(whole)
  BY <1>1
<1> HIDE DEF whole, n1
<1>3. \A e \in Elements : value[e] \in Int
  BY DEF QuickAssumption
<1>4. \A k \in 1 .. Len(s) : s[k] \in Elements
  OBVIOUS
<1>5. \A k \in 1 .. Len(t) : t[k] \in Elements
  OBVIOUS
<1>6. /\ \A k, m \in 1 .. Len(s) : (s[k] = s[m] => k = m) /\ (k < m => value[s[k]] <= value[s[m]])
      /\ \A k, m \in 1 .. Len(t) : (t[k] = t[m] => k = m) /\ (k < m => value[t[k]] <= value[t[m]])
  BY <1>2 DEF InOrder, IsInjective
<1>7. ASSUME NEW k \in 1 .. Len(whole), NEW m \in 1 .. Len(whole), k < m
      PROVE  whole[k] # whole[m] /\ value[whole[k]] <= value[whole[m]]
  <2>1. CASE m < n1
    <3>1. k < n1 /\ k \in 1 .. Len(s) /\ m \in 1 .. Len(s)
      BY <1>1, <1>2, <1>7, <2>1
    <3>2. whole[k] = s[k] /\ whole[m] = s[m]
      BY <1>1, <2>1, <3>1
    <3>3. QED
      BY <1>6, <1>7, <3>1, <3>2
  <2>2. CASE m = n1
    <3>1. k < n1
      BY <1>2, <1>7, <2>2
    <3>2. k \in 1 .. Len(s) /\ whole[k] = s[k] /\ whole[m] = p
      BY <1>1, <2>2, <3>1
    <3>3. QED
      BY <3>2
  <2>3. CASE m > n1
    <3>1. m - n1 \in 1 .. Len(t) /\ whole[m] = t[m - n1]
      BY <1>1, <2>3
    <3>2. CASE k < n1
      <4>1. k \in 1 .. Len(s) /\ whole[k] = s[k]
        BY <1>1, <3>2
      <4>2. s[k] # t[m - n1] /\ value[s[k]] <= value[p] /\ value[p] <= value[t[m - n1]]
        BY <3>1, <4>1
      <4>3. value[s[k]] \in Int /\ value[p] \in Int /\ value[t[m - n1]] \in Int
        BY <1>3, <1>4, <1>5, <3>1, <4>1
      <4>4. QED
        BY <3>1, <4>1, <4>2, <4>3
    <3>3. CASE k = n1
      BY <1>1, <3>1, <3>3
    <3>4. CASE k > n1
      <4>1. k - n1 \in 1 .. Len(t) /\ whole[k] = t[k - n1]
        BY <1>1, <3>4
      <4>2. k - n1 < m - n1 /\ k - n1 # m - n1
        BY <1>2, <1>7
      <4>3. QED
        BY <1>6, <3>1, <4>1, <4>2
    <3>5. QED
      BY <1>2, <3>2, <3>3, <3>4
  <2>4. QED
    BY <1>2, <2>1, <2>2, <2>3
<1>8. InOrder(whole)
  <2>1. \A k, m \in 1 .. Len(whole) : k = m \/ k < m \/ m < k
    BY <1>1, <1>2
  <2>2. IsInjective(whole)
    BY <1>2, <1>7, <2>1 DEF IsInjective
  <2>3. QED
    BY <1>2, <1>7, <2>2 DEF InOrder
<1>9. ASSUME NEW e PROVE e \in ToSet(whole) <=> e \in ToSet(s) \/ e = p \/ e \in ToSet(t)
  <2>1. ASSUME NEW k \in 1 .. Len(whole) PROVE whole[k] \in ToSet(s) \/ whole[k] = p \/ whole[k] \in ToSet(t)
    <3>1. k < n1 \/ k = n1 \/ k > n1
      BY <1>2
    <3>2. QED
      BY <1>1, <1>2, <3>1 DEF ToSet
  <2>2. ASSUME NEW k \in 1 .. Len(s) PROVE s[k] \in ToSet(whole)
    <3>1. k \in 1 .. Len(whole) /\ k < n1
      BY <1>1, <1>2
    <3>2. QED
      BY <1>1, <1>2, <3>1 DEF ToSet
  <2>3. ASSUME NEW k \in 1 .. Len(t) PROVE t[k] \in ToSet(whole)
    <3>1. k + n1 \in 1 .. Len(whole) /\ k + n1 > n1 /\ k + n1 - n1 = k
      BY <1>1, <1>2
    <3>2. whole[k + n1] = t[k]
      <4> DEFINE m == k + n1
      <4>1. m \in 1 .. Len(whole) /\ m > n1 /\ m - n1 = k
        BY <1>2, <3>1
      <4> HIDE DEF m
      <4>2. whole[m] = t[m - n1]
        BY <1>1, <4>1
      <4>3. QED
        BY <4>1, <4>2 DEF m
    <3>3. QED
      BY <1>2, <3>1, <3>2 DEF ToSet
  <2>4. p \in ToSet(whole)
    <3>1. n1 \in 1 .. Len(whole)
      BY <1>1, <1>2
    <3>2. QED
      BY <1>1, <1>2, <3>1 DEF ToSet
  <2>5. QED
    BY <1>2, <2>1, <2>2, <2>3, <2>4 DEF ToSet
<1>10. QED
  BY <1>1, <1>8, <1>9 DEF whole

\* When the parts of a call have returned, everything they hold is in what they
\* return, on their side of its pivot.
LEMMA PartsReturned ==
  ASSUME QuickInv, NEW c \in DOMAIN calls, Get(c)
  PROVE  /\ c \in Seq(Sides) /\ calls[c].pivot \in Elements /\ Held(c) = {calls[c].pivot}
         /\ \A side \in Sides :
              /\ Append(c, side) \in DOMAIN calls /\ Append(c, side) # c
              /\ ~Waiting(Append(c, side))
              /\ Held(Append(c, side)) = ToSet(calls[Append(c, side)].result)
              /\ calls[Append(c, side)].result \in Seq(Elements)
              /\ InOrder(calls[Append(c, side)].result)
              /\ \A e \in Held(Append(c, side)) :
                   InLowPart(e, calls[c].pivot) <=> side = "low"
<1>1. /\ calls[c].pc = "get" /\ Returned(Append(c, Other))
  BY DEF Get
<1>2. /\ c \in Seq(Sides) /\ calls[c].pivot \in Elements \cup {NoPivot} /\ calls[c].list = {}
      /\ calls[c].result = <<>> /\ calls[c].pivot # NoPivot
      /\ Append(c, "low") \in DOMAIN calls /\ Append(c, "high") \in DOMAIN calls
      /\ calls[Append(c, Own)].pc = "returned"
  BY <1>1, CallIs
<1>3. ToSet(<<>>) = {}
  BY DEF ToSet
<1>4. calls[c].pivot \in Elements /\ Held(c) = {calls[c].pivot}
  BY <1>2, <1>3 DEF Held
<1>5. ASSUME NEW side \in Sides
      PROVE  /\ Append(c, side) \in DOMAIN calls /\ Append(c, side) # c
             /\ ~Waiting(Append(c, side))
             /\ Held(Append(c, side)) = ToSet(calls[Append(c, side)].result)
             /\ calls[Append(c, side)].result \in Seq(Elements)
             /\ InOrder(calls[Append(c, side)].result)
             /\ \A e \in Held(Append(c, side)) :
                  InLowPart(e, calls[c].pivot) <=> side = "low"
  <2> DEFINE d == Append(c, side)
  <2>1. d \in DOMAIN calls /\ calls[d].pc = "returned"
    <3>1. CASE side = Own
      BY <1>2, <3>1 DEF Own
    <3>2. CASE side = Other
      BY <1>1, <1>2, <3>2 DEF Other, Returned
    <3>3. side = Own \/ side = Other
      BY DEF Sides, Own, Other
    <3>4. QED
      BY <3>1, <3>2, <3>3
  <2>2. d # c /\ Under(c, d) /\ d[Len(c) + 1] = side
    BY <1>2, AppendUnder
  <2> HIDE DEF d
  <2>3. calls[d].list = {} /\ calls[d].pivot = NoPivot /\ calls[d].result \in Seq(Elements)
    BY <2>1, CallIs
  <2>4. ~Waiting(d) /\ Held(d) = ToSet(calls[d].result)
    BY <2>3 DEF Waiting, Held
  <2>5. InOrder(calls[d].result)
    BY <2>1, CallsSortIs
  <2>6. \A e \in Held(d) : InLowPart(e, calls[c].pivot) <=> side = "low"
    BY <2>1, <2>2 DEF QuickInv, InvParts
  <2>7. QED
    BY <2>1, <2>2, <2>3, <2>4, <2>5, <2>6 DEF d
<1>6. QED
  BY <1>2, <1>4, <1>5, Zenon

\* What get puts together.
AfterGet(c) ==
  /\ DOMAIN calls' = DOMAIN calls \ {Append(c, "low"), Append(c, "high")}
  /\ c \in DOMAIN calls'
  /\ \A d \in DOMAIN calls' \ {c} : calls'[d] = calls[d]
  /\ calls'[c].pc = "returned" /\ calls'[c].pivot = NoPivot /\ calls'[c].list = {}
  /\ calls'[c].result \in Seq(Elements) /\ InOrder(calls'[c].result)
  /\ calls'[c] \in [list : SUBSET Elements, pivot : Elements \cup {NoPivot},
                    how : {"called", "async", "deferred"},
                    pc : {"divide", "sortOwn", "get", "returned"}, result : Seq(Elements)]
  /\ \A e : e \in Held(c)' <=> e \in Held(c) \/ \E side \in Sides : e \in Held(Append(c, side))

\* What a call returns when both its parts have returned is in order, and it is
\* everything its parts and it itself held.
LEMMA GetHolds ==
  ASSUME QuickInv, NEW c \in DOMAIN calls, Get(c)
  PROVE  AfterGet(c)
<1> DEFINE low  == Append(c, "low")
           high == Append(c, "high")
           s == calls[low].result
           t == calls[high].result
           p == calls[c].pivot
           whole == s \o <<p>> \o t
<1>1. /\ p \in Elements /\ Held(c) = {p}
      /\ low \in DOMAIN calls /\ low # c /\ high \in DOMAIN calls /\ high # c
      /\ Held(low) = ToSet(s) /\ s \in Seq(Elements) /\ InOrder(s)
      /\ Held(high) = ToSet(t) /\ t \in Seq(Elements) /\ InOrder(t)
      /\ \A e \in Held(low) : InLowPart(e, p)
      /\ \A e \in Held(high) : ~InLowPart(e, p)
  <2>1. /\ calls[c].pivot \in Elements /\ Held(c) = {calls[c].pivot}
        /\ \A side \in Sides :
             /\ Append(c, side) \in DOMAIN calls /\ Append(c, side) # c
             /\ Held(Append(c, side)) = ToSet(calls[Append(c, side)].result)
             /\ calls[Append(c, side)].result \in Seq(Elements)
             /\ InOrder(calls[Append(c, side)].result)
             /\ \A e \in Held(Append(c, side)) :
                  InLowPart(e, calls[c].pivot) <=> side = "low"
    BY PartsReturned
  <2>2. "low" \in Sides /\ "high" \in Sides /\ "high" # "low"
    BY DEF Sides
  <2>3. QED
    BY <2>1, <2>2
<1>2. calls' = [d \in DOMAIN calls \ {low, high} |->
                  IF d = c THEN [calls[c] EXCEPT !.pc = "returned", !.pivot = NoPivot, !.result = whole]
                  ELSE calls[d]]
  BY Zenon DEF Get, Combine
<1>3. /\ calls[c].list = {} /\ calls[c].how \in {"called", "async", "deferred"}
      /\ calls[c] = [list |-> calls[c].list, pivot |-> calls[c].pivot, how |-> calls[c].how,
                     pc |-> calls[c].pc, result |-> calls[c].result]
  <2>1. calls[c].pc = "get"
    BY DEF Get
  <2>2. QED
    BY <2>1, CallIs
<1>4. low # high
  BY CallIs, AppendOnce DEF Sides
<1>5. \A e \in Elements : value[e] \in Int
  BY QuickAssumption DEF QuickInv, QuickAssumption
<1>6. HeldOnce
  BY CallsSortIs
<1> HIDE DEF low, high
<1>7. \A e \in ToSet(s) : e # p /\ value[e] <= value[p] /\ e \notin ToSet(t)
  <2>1. ASSUME NEW e \in ToSet(s) PROVE e # p /\ e \notin ToSet(t)
    BY <1>1, <1>4, <1>6 DEF HeldOnce
  <2>2. ASSUME NEW e \in ToSet(s) PROVE value[e] <= value[p]
    <3>1. InLowPart(e, p) /\ e \in Elements
      BY <1>1 DEF ToSet
    <3>2. QED
      BY <1>1, <1>5, <3>1 DEF InLowPart
  <2>3. QED
    BY <2>1, <2>2
<1>8. \A e \in ToSet(t) : e # p /\ value[p] <= value[e]
  <2>1. ASSUME NEW e \in ToSet(t) PROVE e # p
    BY <1>1, <1>6 DEF HeldOnce
  <2>2. ASSUME NEW e \in ToSet(t) PROVE value[p] <= value[e]
    <3>1. ~InLowPart(e, p) /\ e \in Elements
      BY <1>1 DEF ToSet
    <3>2. QED
      BY <1>1, <1>5, <3>1 DEF InLowPart
  <2>3. QED
    BY <2>1, <2>2
<1>9. /\ whole \in Seq(Elements) /\ InOrder(whole)
      /\ \A e : e \in ToSet(whole) <=> e \in ToSet(s) \/ e = p \/ e \in ToSet(t)
  <2> HIDE DEF s, t, p
  <2>1. (\A k \in 1 .. Len(s) : s[k] \in ToSet(s)) /\ (\A k \in 1 .. Len(t) : t[k] \in ToSet(t))
    BY <1>1 DEF ToSet
  <2>2. /\ \A k \in 1 .. Len(s) : s[k] # p /\ value[s[k]] <= value[p]
        /\ \A k \in 1 .. Len(t) : t[k] # p /\ value[p] <= value[t[k]]
        /\ \A k \in 1 .. Len(s) : \A m \in 1 .. Len(t) : s[k] # t[m]
    BY <1>7, <1>8, <2>1
  <2>3. value \in [Elements -> Values]
    BY DEF QuickInv
  <2>4. QED
    BY <1>1, <2>2, <2>3, QuickAssumption, WholeInOrder
<1> HIDE DEF whole, s, t, p
<1>10. /\ DOMAIN calls' = DOMAIN calls \ {low, high} /\ c \in DOMAIN calls'
       /\ \A d \in DOMAIN calls' \ {c} : calls'[d] = calls[d]
       /\ calls'[c] = [calls[c] EXCEPT !.pc = "returned", !.pivot = NoPivot, !.result = whole]
  BY <1>1, <1>2
<1>11. calls'[c] = [list |-> {}, pivot |-> NoPivot, how |-> calls[c].how, pc |-> "returned", result |-> whole]
  BY <1>3, <1>10
<1>12. /\ calls'[c].pc = "returned" /\ calls'[c].pivot = NoPivot /\ calls'[c].list = {}
       /\ calls'[c].result = whole
  BY <1>11
<1>13. calls'[c] \in [list : SUBSET Elements, pivot : Elements \cup {NoPivot},
                      how : {"called", "async", "deferred"},
                      pc : {"divide", "sortOwn", "get", "returned"}, result : Seq(Elements)]
  BY <1>3, <1>9, <1>11
<1>14. Held(c)' = ToSet(whole)
  BY <1>12 DEF Held
<1>15. \A e : e \in Held(c)' <=> e \in Held(c) \/ \E side \in Sides : e \in Held(Append(c, side))
  <2>1. \A e : (\E side \in Sides : e \in Held(Append(c, side))) <=> e \in Held(low) \/ e \in Held(high)
    BY DEF Sides, low, high
  <2>2. QED
    BY <1>1, <1>9, <1>14, <2>1
<1>16. QED
  BY <1>9, <1>10, <1>12, <1>13, <1>15, Zenon DEF AfterGet, low, high

\* Get leaves every element with one call, and puts what is returned in order.
LEMMA GetHeldOnce ==
  ASSUME QuickInv, UNCHANGED <<function, value>>, NEW c \in DOMAIN calls, Get(c)
  PROVE  CallsSort'
<1>1. /\ \A d \in DOMAIN calls' : d \in DOMAIN calls /\ \A side \in Sides : d # Append(c, side)
      /\ \A d \in DOMAIN calls : d \in DOMAIN calls' \/ \E side \in Sides : d = Append(c, side)
      /\ c \in DOMAIN calls'
      /\ \A d \in DOMAIN calls' \ {c} : calls'[d] = calls[d]
      /\ InOrder(calls'[c].result)
      /\ \A e : e \in Held(c)' <=> e \in Held(c) \/ \E side \in Sides : e \in Held(Append(c, side))
  <2>1. AfterGet(c)
    BY GetHolds
  <2>2. DOMAIN calls' = DOMAIN calls \ {Append(c, "low"), Append(c, "high")}
    BY <2>1 DEF AfterGet
  <2>3. /\ \A d \in DOMAIN calls' : d \in DOMAIN calls /\ \A side \in Sides : d # Append(c, side)
        /\ \A d \in DOMAIN calls : d \in DOMAIN calls' \/ \E side \in Sides : d = Append(c, side)
    BY <2>2, Zenon DEF Sides
  <2>4. QED
    BY <2>1, <2>3, Zenon DEF AfterGet
<1>2. \A side \in Sides : Append(c, side) \in DOMAIN calls
  BY PartsReturned
<1>3. \A d \in DOMAIN calls' \ {c} : Held(d)' = Held(d)
  BY <1>1 DEF Held
<1>4. ASSUME NEW e \in Elements
      PROVE  \E b \in DOMAIN calls' : e \in Held(b)' /\ \A d \in DOMAIN calls' \ {b} : e \notin Held(d)'
  <2>1. PICK b \in DOMAIN calls : e \in Held(b) /\ \A d \in DOMAIN calls : e \in Held(d) => d = b
    BY CallsSortIs DEF HeldOnce
  <2>2. CASE b = c \/ \E side \in Sides : b = Append(c, side)
    <3>1. e \in Held(c)'
      BY <1>1, <2>1, <2>2
    <3>2. \A d \in DOMAIN calls' \ {c} : d # b
      BY <1>1, <2>2
    <3>3. \A d \in DOMAIN calls' \ {c} : e \notin Held(d)'
      BY <1>1, <1>3, <2>1, <3>2
    <3>4. QED
      BY <1>1, <3>1, <3>3
  <2>3. CASE b # c /\ \A side \in Sides : b # Append(c, side)
    <3>1. b \in DOMAIN calls' \ {c} /\ e \in Held(b)'
      BY <1>1, <1>3, <2>1, <2>3
    <3>2. e \notin Held(c)'
      BY <1>1, <1>2, <2>1, <2>3
    <3>3. \A d \in DOMAIN calls' \ {b} : e \notin Held(d)'
      BY <1>1, <1>3, <2>1, <3>2
    <3>4. QED
      BY <3>1, <3>3
  <2>4. QED
    BY <2>2, <2>3
<1>5. ASSUME NEW d \in DOMAIN calls' PROVE InOrder(calls'[d].result)
  <2>1. CASE d # c
    BY <1>1, <2>1, CallsSortIs
  <2>2. CASE d = c
    BY <1>1, <2>2
  <2>3. QED
    BY <2>1, <2>2
<1>6. QED
  BY <1>4, <1>5 DEF CallsSort, InOrder

\* Get takes two calls with nothing below them out of the tree.
LEMMA GetTree ==
  ASSUME QuickInv, UNCHANGED <<function, value>>, NEW c \in DOMAIN calls, Get(c)
  PROVE  InvTree'
<1>1. /\ \A d \in DOMAIN calls' : d \in DOMAIN calls /\ \A side \in Sides : d # Append(c, side)
      /\ \A d \in DOMAIN calls : d \in DOMAIN calls' \/ \E side \in Sides : d = Append(c, side)
      /\ c \in DOMAIN calls'
      /\ \A d \in DOMAIN calls' \ {c} : calls'[d] = calls[d]
      /\ calls'[c].pc = "returned" /\ calls'[c].pivot = NoPivot /\ calls'[c].list = {}
      /\ calls'[c] \in [list : SUBSET Elements, pivot : Elements \cup {NoPivot},
                        how : {"called", "async", "deferred"},
                        pc : {"divide", "sortOwn", "get", "returned"}, result : Seq(Elements)]
  <2>1. AfterGet(c)
    BY GetHolds
  <2>2. DOMAIN calls' = DOMAIN calls \ {Append(c, "low"), Append(c, "high")}
    BY <2>1 DEF AfterGet
  <2>3. /\ \A d \in DOMAIN calls' : d \in DOMAIN calls /\ \A side \in Sides : d # Append(c, side)
        /\ \A d \in DOMAIN calls : d \in DOMAIN calls' \/ \E side \in Sides : d = Append(c, side)
    BY <2>2, Zenon DEF Sides
  <2>4. QED
    BY <2>1, <2>3, Zenon DEF AfterGet
<1>2. /\ DOMAIN calls \subseteq Seq(Sides) /\ c \in Seq(Sides)
      /\ \A d \in DOMAIN calls : InvCall(d)
      /\ \A b, d \in DOMAIN calls : Under(b, d) => Waiting(b)
  BY DEF QuickInv, InvTree
<1>3. \A side \in Sides : Append(c, side) \in DOMAIN calls /\ ~Waiting(Append(c, side))
  BY PartsReturned
<1>4. Own' = Own /\ Own \in Sides /\ "low" \in Sides /\ "high" \in Sides
  BY DEF Own, Sides
<1>5. ASSUME NEW d \in DOMAIN calls', d # c PROVE InvCall(d)'
  <2>1. InvCall(d) /\ calls'[d] = calls[d] /\ d \in DOMAIN calls /\ d \in Seq(Sides)
    BY <1>1, <1>2, <1>5
  <2>2. Waiting(d)' <=> Waiting(d)
    BY <2>1 DEF Waiting
  <2>3. ASSUME NEW side \in Sides, Append(d, side) \in DOMAIN calls PROVE Append(d, side) \in DOMAIN calls'
    <3>1. \A x \in Sides : Append(d, side) # Append(c, x)
      BY <1>2, <1>5, <2>1, AppendOnce
    <3>2. QED
      BY <1>1, <2>3, <3>1
  <2>4. Waiting(d) => Append(d, "low") \in DOMAIN calls' /\ Append(d, "high") \in DOMAIN calls'
    BY <1>4, <2>1, <2>3 DEF InvCall
  <2>5. calls[d].pc = "get" => Returned(Append(d, Own))'
    <3>1. SUFFICES ASSUME calls[d].pc = "get" PROVE Returned(Append(d, Own))'
      OBVIOUS
    <3>2. Append(d, Own) \in DOMAIN calls /\ calls[Append(d, Own)].pc = "returned"
      BY <2>1, <3>1 DEF InvCall, Waiting, Returned, Own
    <3>3. Append(d, Own) \in DOMAIN calls'
      BY <1>4, <2>3, <3>2
    <3>4. calls'[Append(d, Own)].pc = "returned"
      BY <1>1, <3>2, <3>3
    <3>5. QED
      BY <1>4, <3>4 DEF Returned
  <2>6. QED
    BY <2>1, <2>2, <2>4, <2>5 DEF InvCall
<1>6. InvCall(c)'
  BY <1>1 DEF InvCall, Waiting
<1>7. ASSUME NEW b \in DOMAIN calls', NEW d \in DOMAIN calls', Under(b, d) PROVE Waiting(b)'
  <2>1. b \in DOMAIN calls /\ d \in DOMAIN calls /\ b \in Seq(Sides) /\ d \in Seq(Sides) /\ Waiting(b)
    BY <1>1, <1>2, <1>7
  <2>2. b # c
    <3>1. SUFFICES ASSUME b = c PROVE FALSE
      OBVIOUS
    <3> DEFINE side == d[Len(c) + 1]
    <3>2. side \in Sides /\ (d = Append(c, side) \/ Under(Append(c, side), d))
      BY <1>2, <1>7, <2>1, <3>1, UnderSplit
    <3> HIDE DEF side
    <3>3. d # Append(c, side)
      BY <1>1, <3>2
    <3>4. Waiting(Append(c, side))
      BY <1>2, <1>3, <2>1, <3>2, <3>3
    <3>5. QED
      BY <1>3, <3>2, <3>4
  <2>3. calls'[b] = calls[b]
    BY <1>1, <2>2
  <2>4. QED
    BY <2>1, <2>3 DEF Waiting
<1>8. DOMAIN calls' \subseteq Seq(Sides)
  BY <1>1, <1>2
<1>9. QED
  BY <1>5, <1>6, <1>7, <1>8 DEF InvTree, Under

\* Get leaves every element on its side of the pivots that are still waited with.
LEMMA GetParts ==
  ASSUME QuickInv, UNCHANGED <<function, value>>, NEW c \in DOMAIN calls, Get(c)
  PROVE  InvParts'
<1>1. /\ \A d \in DOMAIN calls' : d \in DOMAIN calls
      /\ \A d \in DOMAIN calls' \ {c} : calls'[d] = calls[d]
      /\ calls'[c].pivot = NoPivot
      /\ \A e : e \in Held(c)' <=> e \in Held(c) \/ \E side \in Sides : e \in Held(Append(c, side))
  BY GetHolds DEF AfterGet
<1>2. c \in Seq(Sides) /\ \A side \in Sides : Append(c, side) \in DOMAIN calls
  BY PartsReturned
<1>3. DOMAIN calls \subseteq Seq(Sides)
  BY DEF QuickInv, InvTree
<1>4. ASSUME NEW x \in DOMAIN calls, NEW d \in DOMAIN calls, Under(x, d), NEW e \in Held(d)
      PROVE  InLowPart(e, calls[x].pivot) <=> d[Len(x) + 1] = "low"
  BY <1>4 DEF QuickInv, InvParts
<1>5. ASSUME NEW b \in DOMAIN calls', NEW d \in DOMAIN calls', Under(b, d), NEW e \in Held(d)'
      PROVE  InLowPart(e, calls'[b].pivot) <=> d[Len(b) + 1] = "low"
  <2>1. b \in DOMAIN calls /\ d \in DOMAIN calls /\ b \in Seq(Sides)
    BY <1>1, <1>3
  <2>2. b # c
    <3>1. InvTree' /\ ~Waiting(c)'
      BY <1>1, GetTree DEF Waiting
    <3>2. Waiting(b)'
      BY <1>5, <3>1 DEF InvTree, Under
    <3>3. QED
      BY <3>1, <3>2
  <2>3. calls'[b] = calls[b]
    BY <1>1, <2>2
  <2>4. CASE d # c
    <3>1. e \in Held(d)
      BY <1>1, <1>5, <2>4 DEF Held
    <3>2. QED
      BY <1>4, <1>5, <2>1, <2>3, <3>1
  <2>5. CASE d = c
    <3>1. CASE e \in Held(c)
      BY <1>4, <1>5, <2>1, <2>3, <2>5, <3>1
    <3>2. CASE \E side \in Sides : e \in Held(Append(c, side))
      <4>1. PICK side \in Sides : e \in Held(Append(c, side))
        BY <3>2
      <4>2. Under(b, c)
        BY <1>5, <2>5
      <4>3. Under(b, Append(c, side)) /\ Append(c, side)[Len(b) + 1] = c[Len(b) + 1]
        <5>1. Under(b, Append(c, side))
          BY <1>2, <2>1, <4>2, AppendUnder
        <5>2. QED
          BY <1>2, <2>1, <4>2, <5>1, AppendBelow
      <4>4. QED
        BY <1>2, <1>4, <2>1, <2>3, <2>5, <4>1, <4>3
    <3>3. QED
      BY <1>1, <1>5, <2>5, <3>1, <3>2
  <2>6. QED
    BY <2>4, <2>5
<1>6. \A e, p : InLowPart(e, p)' = InLowPart(e, p)
  BY DEF InLowPart
<1>7. QED
  BY <1>5, <1>6 DEF InvParts, Under

\* The calls keep the invariant.
LEMMA QuickKeeps == QuickInv /\ QuickNext => QuickInv'
<1> SUFFICES ASSUME QuickInv, QuickNext PROVE QuickInv'
  OBVIOUS
<1>1. UNCHANGED <<function, value>>
  BY DEF QuickNext
<1>2. PICK c \in DOMAIN calls : ReturnEmpty(c) \/ Divide(c) \/ OwnReturned(c) \/ Get(c)
  BY DEF QuickNext
<1>3. CASE ReturnEmpty(c)
  BY <1>1, <1>3, QuickPcKeeps DEF ReturnEmpty
<1>4. CASE Divide(c)
  BY <1>1, <1>4, QuickDivideKeeps
<1>5. CASE OwnReturned(c)
  BY <1>1, <1>5, QuickPcKeeps DEF OwnReturned
<1>6. CASE Get(c)
  <2>1. CallsSort' /\ InvTree' /\ InvParts'
    BY <1>1, <1>6, GetHeldOnce, GetTree, GetParts
  <2>2. QED
    BY <1>1, <2>1 DEF QuickInv
<1>7. QED
  BY <1>2, <1>3, <1>4, <1>5, <1>6

-----------------------------------------------------------------------------
(* The programs, side by side *)

\* The loops' invariant is about the loops' variables only.
LEMMA LoopStutters ==
  ASSUME LoopInv, UNCHANGED <<arrayVars, loopVars>>
  PROVE  LoopInv'
<1>1. UNCHANGED <<program, input, arr, i, j, indx>>
  BY DEF arrayVars, loopVars
<1>2. InvKept(arr)'
  BY <1>1 DEF LoopInv, InvKept
<1>3. n' = n /\ Indices' = Indices /\ \A y : Placed(arr, y)' = Placed(arr, y)
  BY <1>1 DEF n, Indices, Placed
<1>4. /\ program = "bubble" => InvBubble'
      /\ program = "insert" => InvInsert'
      /\ program = "select" => InvSelect'
  BY <1>1, <1>3 DEF LoopInv, InvBubble, InvInsert, InvSelect
<1>5. QED
  BY <1>1, <1>2, <1>3, <1>4 DEF LoopInv

\* The same of heap sort.
LEMMA HeapStutters ==
  ASSUME HeapInv, UNCHANGED <<arrayVars, heapVars>>
  PROVE  HeapInv'
<1>1. UNCHANGED <<program, input, arr, phase, last, hole, size, elem>>
  BY DEF arrayVars, heapVars
<1>2. n' = n /\ Indices' = Indices /\ Settled' = Settled /\ Base' = Base
  BY <1>1 DEF n, Indices, Settled, Base
<1>3. InvKept(Settled)' /\ \A y : Placed(Settled, y)' = Placed(Settled, y)
  BY <1>1, <1>2 DEF HeapInv, InvKept, Placed
<1>4. InvPhase'
  BY <1>1, <1>2 DEF HeapInv, InvPhase
<1>5. InvHeap'
  BY <1>1, <1>2 DEF HeapInv, InvHeap, Child
<1>6. InvBehind'
  BY <1>1, <1>2, <1>3 DEF HeapInv, InvBehind
<1>7. QED
  BY <1>3, <1>4, <1>5, <1>6 DEF HeapInv

\* The same of merge sort and fSort.
LEMMA DivideStutters ==
  ASSUME DivideInv, UNCHANGED <<arrayVars, divideVars>>
  PROVE  DivideInv'
<1>1. UNCHANGED <<program, input, arr, stack, at, l, r, tmpArr>>
  BY DEF arrayVars, divideVars
<1>2. n' = n /\ Indices' = Indices /\ Items' = Items /\ First' = First /\ Pivot' = Pivot
  BY <1>1 DEF n, Indices, Items, First, Pivot
<1>3. InvKept(arr)'
  BY <1>1 DEF DivideInv, InvKept
<1>4. InvStack'
  BY <1>1, <1>2 DEF DivideInv, InvStack, InPlace, Before
<1>5. InvOrder'
  BY <1>1, <1>2 DEF DivideInv, InvOrder, Answers
<1>6. InvMerge'
  <2>1. SUFFICES ASSUME at = "merge" PROVE InvMerge'
    BY <1>1 DEF InvMerge
  <2>2. PICK g : TakenBy(g, (First.start .. l - 1) \cup (First.mid .. r - 1), tmpArr, arr)
    BY <2>1 DEF DivideInv, InvMerge
  <2>3. TakenBy(g, (First.start .. l - 1) \cup (First.mid .. r - 1), tmpArr, arr)'
    BY <1>1, <1>2, <2>2, Zenon
  <2>4. QED
    BY <1>1, <1>2, <2>1, <2>3 DEF DivideInv, InvMerge
<1>7. InvScan'
  BY <1>1, <1>2 DEF DivideInv, InvScan
<1>8. QED
  BY <1>1, <1>3, <1>4, <1>5, <1>6, <1>7 DEF DivideInv

\* The same of the calls of quick_sort.cpp.
LEMMA QuickStutters ==
  ASSUME QuickInv, UNCHANGED quickVars
  PROVE  QuickInv'
<1>1. UNCHANGED <<function, value, calls>>
  BY DEF quickVars
<1>2. Own' = Own /\ \A e, p : InLowPart(e, p)' = InLowPart(e, p)
  BY <1>1 DEF Own, InLowPart
<1>3. \A c : Held(c)' = Held(c) /\ Waiting(c)' = Waiting(c) /\ Returned(c)' = Returned(c)
  BY <1>1 DEF Held, Waiting, Returned
<1>4. CallsSort'
  BY <1>1, <1>3 DEF QuickInv, CallsSort
<1>5. InvTree'
  BY <1>1, <1>2, <1>3 DEF QuickInv, InvTree, InvCall, Under
<1>6. InvParts'
  BY <1>1, <1>2, <1>3 DEF QuickInv, InvParts, Under
<1>7. QED
  BY <1>1, <1>4, <1>5, <1>6 DEF QuickInv

\* The same of the functions of future.cpp.
LEMMA FutureStutters ==
  ASSUME FutureInv, UNCHANGED futureVars
  PROVE  FutureInv'
BY DEF futureVars, FutureInv, ScopesOutliveThreads, ThreadsOf

\* What holds of the program that runs.
ProgramsInv == /\ program \in {"bubble", "insert", "select"} => LoopInv
               /\ program = "heap" => HeapInv
               /\ program \in {"merge", "quick"} => DivideInv
               /\ program = "quick_sort" => QuickInv
               /\ program = "future" => FutureInv

\* Every program starts as its invariant says.
LEMMA ProgramsInitInv == Init => ProgramsInv
<1> SUFFICES ASSUME Init PROVE ProgramsInv
  OBVIOUS
<1>1. CASE LoopInit
  <2>1. program \in {"bubble", "insert", "select"}
    BY <1>1 DEF LoopInit, ArrayInit
  <2>2. QED
    BY <1>1, <2>1, LoopInitInv DEF ProgramsInv
<1>2. CASE HeapInit
  <2>1. program = "heap"
    BY <1>2 DEF HeapInit, ArrayInit
  <2>2. QED
    BY <1>2, <2>1, HeapInitInv DEF ProgramsInv
<1>3. CASE DivideInit
  <2>1. program \in {"merge", "quick"}
    BY <1>3 DEF DivideInit, ArrayInit
  <2>2. QED
    BY <1>3, <2>1, DivideInitInv DEF ProgramsInv
<1>4. CASE program \in {"GetFactorNum", "condition_variable"}
  BY <1>4 DEF ProgramsInv
<1>5. CASE program = "quick_sort" /\ QuickInit
  BY <1>5, QuickInitInv DEF ProgramsInv
<1>6. CASE program = "future" /\ FuturesInit
  BY <1>6, FutureInitInv DEF ProgramsInv
<1>7. QED
  BY <1>1, <1>2, <1>3, <1>4, <1>5, <1>6 DEF Init, NoArray

\* A step of the program that runs keeps its invariant, and another program does
\* not begin.
LEMMA ProgramsStepInv == ProgramsInv /\ [Next]_vars => ProgramsInv'
<1> SUFFICES ASSUME ProgramsInv, [Next]_vars PROVE ProgramsInv'
  OBVIOUS
<1>1. CASE program \in {"bubble", "insert", "select"} /\ LoopNext
  <2>1. program' = program /\ LoopInv'
    BY <1>1, LoopKeeps DEF ProgramsInv, LoopNext
  <2>2. QED
    BY <1>1, <2>1 DEF ProgramsInv
<1>2. CASE program = "heap" /\ HeapNext
  <2>1. program' = program /\ HeapInv'
    BY <1>2, HeapKeeps DEF ProgramsInv, HeapNext
  <2>2. QED
    BY <1>2, <2>1 DEF ProgramsInv
<1>3. CASE program \in {"merge", "quick"} /\ DivideNext
  <2>1. program' = program /\ DivideInv'
    BY <1>3, DivideKeeps DEF ProgramsInv, DivideNext
  <2>2. QED
    BY <1>3, <2>1 DEF ProgramsInv
<1>4. CASE program \in {"GetFactorNum", "condition_variable"} /\ program' = program
  BY <1>4 DEF ProgramsInv
<1>5. CASE program = "quick_sort" /\ QuickNext /\ program' = program
  <2>1. QuickInv'
    BY <1>5, QuickKeeps DEF ProgramsInv
  <2>2. QED
    BY <1>5, <2>1 DEF ProgramsInv
<1>6. CASE program = "future" /\ FuturesNext /\ program' = program
  <2>1. FutureInv'
    BY <1>6, FutureKeeps DEF ProgramsInv
  <2>2. QED
    BY <1>6, <2>1 DEF ProgramsInv
<1>7. CASE UNCHANGED vars
  <2>1. /\ program' = program
        /\ UNCHANGED <<arrayVars, loopVars>> /\ UNCHANGED <<arrayVars, heapVars>>
        /\ UNCHANGED <<arrayVars, divideVars>> /\ UNCHANGED quickVars /\ UNCHANGED futureVars
    BY <1>7 DEF vars, noSort, arrayVars
  <2>2. /\ LoopInv => LoopInv'
        /\ HeapInv => HeapInv'
        /\ DivideInv => DivideInv'
        /\ QuickInv => QuickInv'
        /\ FutureInv => FutureInv'
    BY <2>1, LoopStutters, HeapStutters, DivideStutters, QuickStutters, FutureStutters
  <2>3. QED
    BY <2>1, <2>2 DEF ProgramsInv
<1>8. QED
  BY <1>1, <1>2, <1>3, <1>4, <1>5, <1>6, <1>7 DEF Next, noSort, arrayVars

\* The invariant holds throughout.
THEOREM ProgramsInvariance == Spec => []ProgramsInv
BY ProgramsInitInv, ProgramsStepInv, PTL DEF Spec

\* Whatever the array holds, a sorting program never loses or doubles an element,
\* and every place it is done with holds what belongs there.
THEOREM SortsAreRight == Spec => []ArraysSorted
<1>1. ProgramsInv => ArraysSorted
  BY LoopSorting, HeapSorting, DivideIsSorting DEF ProgramsInv, ArraysSorted
<1> QED  BY <1>1, ProgramsInvariance, PTL

\* Whichever element is the pivot and whichever thread goes on, the calls of
\* quick_sort.cpp lose and double no element and return what is in order.
THEOREM CallsAreRight == Spec => []ParallelCallsSort
<1>1. ProgramsInv => ParallelCallsSort
  BY DEF ProgramsInv, ParallelCallsSort, QuickInv
<1> QED  BY <1>1, ProgramsInvariance, PTL

\* However many consumers share a future, a function of future.cpp ends when its
\* threads have ended.
THEOREM ThreadsEndInScope == Spec => []NoThreadOutlivesScope
<1>1. ProgramsInv => NoThreadOutlivesScope
  BY DEF ProgramsInv, NoThreadOutlivesScope, FutureInv
<1> QED  BY <1>1, ProgramsInvariance, PTL

=============================================================================
