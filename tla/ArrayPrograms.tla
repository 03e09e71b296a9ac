--------------------------- MODULE ArrayPrograms ---------------------------
(***************************************************************************)
(* What the sorting programs have in common: an array of numbers, indexed  *)
(* from 0, and what it means to have sorted it.  (algorithm/code_sort)     *)
(***************************************************************************)
EXTENDS Integers, FiniteSets

CONSTANTS Numbers,  \* what an array holds
          MaxLen    \* bounds the run: the length of the longest array

ASSUME ArrayAssumption == Numbers \subseteq Int /\ MaxLen \in Nat

VARIABLES program,  \* the program that runs
          input,    \* the array it is given
          arr       \* arr

n == Cardinality(DOMAIN input)

Arrays == UNION {[0..len - 1 -> Numbers] : len \in 0..MaxLen}

ArrayInit(sorts) == /\ program \in sorts
                    /\ input \in Arrays
                    /\ arr = input

Swap(a, b) == [arr EXCEPT ![a] = arr[b], ![b] = arr[a]]

\* v belongs to position k of the sorted array.
Belongs(v, k) == /\ Cardinality({m \in DOMAIN input : input[m] < v}) <= k
                 /\ Cardinality({m \in DOMAIN input : input[m] <= v}) > k

Count(v, a) == Cardinality({k \in DOMAIN a : a[k] = v})

\* The positions in `finished` hold what they hold in the sorted array, and
\* `whole` has every element of the input as often as the input.
Sorting(finished, whole) == /\ \A k \in finished : Belongs(arr[k], k)
                            /\ \A v \in Numbers : Count(v, whole) = Count(v, input)
=============================================================================
