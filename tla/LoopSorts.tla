----------------------------- MODULE LoopSorts -----------------------------
(***************************************************************************)
(* BubbleSort, InsertSort and SelectSort: two nested loops over the array. *)
(* A step is a turn of the inner loop, or its end.                         *)
(***************************************************************************)
EXTENDS ArrayPrograms

VARIABLES i, j,  \* the loop variables
          indx   \* SelectSort: the smallest element found

loopVars == <<i, j, indx>>

LoopInit == /\ ArrayInit({"bubble", "insert", "select"})
            /\ i = 0
            /\ j = IF program = "insert" THEN 0 ELSE 1
            /\ indx = 0

\* The inner loop is at its turn j < to, or over; `from` is where it starts next.
Inner(name, to)       == program = name /\ i < n /\ j < to /\ j' = j + 1 /\ i' = i
Outer(name, to, from) == program = name /\ i < n /\ j >= to /\ i' = i + 1 /\ j' = from

BubbleInner == /\ Inner("bubble", n - i)
               /\ arr' = IF arr[j - 1] > arr[j] THEN Swap(j - 1, j) ELSE arr
               /\ UNCHANGED indx

BubbleOuter == Outer("bubble", n - i, 1) /\ UNCHANGED <<arr, indx>>

InsertInner == /\ Inner("insert", i)
               /\ arr' = IF arr[i] < arr[j] THEN Swap(i, j) ELSE arr
               /\ UNCHANGED indx

InsertOuter == Outer("insert", i, 0) /\ UNCHANGED <<arr, indx>>

SelectInner_KeepsFirst == Inner("select", n) /\ UNCHANGED <<arr, indx>>

SelectInner == /\ Inner("select", n)
               /\ indx' = IF arr[indx] > arr[j] THEN j ELSE indx
               /\ UNCHANGED arr

SelectOuter == /\ Outer("select", n, i + 2)
               /\ arr' = Swap(indx, i)
               /\ indx' = i + 1

LoopNext == /\ \/ BubbleInner \/ BubbleOuter \/ InsertInner \/ InsertOuter
               \/ SelectInner \/ SelectOuter
            /\ UNCHANGED <<program, input>>

LoopDone == i >= n

-----------------------------------------------------------------------------
\* Bubble sort's largest elements and selection sort's smallest are final from
\* the turn of the outer loop that found them.
LoopFinished == IF LoopDone THEN DOMAIN arr
                ELSE CASE program = "bubble" -> n - i .. n - 1
                       [] program = "select" -> 0 .. i - 1
                       [] OTHER              -> {}

\* A turn of a loop never loses or doubles an element, and every position a
\* program is done with holds what belongs there; for insertion sort, what is
\* in front of i is in order.
LoopsSort == /\ Sorting(LoopFinished, arr)
             /\ program = "insert" => \A k, m \in 0 .. i - 1 : k < m => arr[k] <= arr[m]
=============================================================================
