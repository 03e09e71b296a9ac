------------------------------ MODULE HeapSort ------------------------------
(***************************************************************************)
(* HeapSort: every parent, from the last to the first, is moved down to    *)
(* its place in the heap; then the largest element is swapped behind the   *)
(* heap and the new root moved down, until one is left.                    *)
(***************************************************************************)
EXTENDS ArrayPrograms

VARIABLES phase,  \* "build" and "extract", the two loops, or "done"
          last,   \* i of HeapSort
          hole,   \* i of PercDown
          size,   \* n of PercDown
          elem    \* elementPercDown

heapVars == <<phase, last, hole, size, elem>>

\* With no elements PercDown would write arr[0]; main has 22.
HeapInit == /\ ArrayInit({"heap"}) /\ n > 0
            /\ phase = "build"
            /\ last = n \div 2 /\ hole = last
            /\ size = n
            /\ elem = arr[hole]

MaxChild_Left == 2 * hole + 1

MaxChild == LET left == 2 * hole + 1 IN
            IF left + 1 < size /\ arr[left] < arr[left + 1] THEN left + 1 ELSE left

Sinks == phase # "done" /\ 2 * hole + 1 < size /\ elem < arr[MaxChild]

\* A turn of PercDown's loop: the larger child moves up into the hole.
PercDown == /\ Sinks
            /\ arr' = [arr EXCEPT ![hole] = arr[MaxChild]]
            /\ hole' = MaxChild
            /\ UNCHANGED <<phase, last, size, elem>>

\* PercDown ends: the element goes into the hole.
Settled == [arr EXCEPT ![hole] = elem]

BuildNext == /\ phase = "build" /\ last > 0 /\ ~Sinks
             /\ arr' = Settled
             /\ last' = last - 1 /\ hole' = last'
             /\ elem' = arr'[hole']
             /\ UNCHANGED <<phase, size>>

\* The next swap of the root with the last element of the heap, if there is one:
\* after the first loop the heap is the whole array.
ExtractNext == LET end == (IF phase = "build" THEN n ELSE last) - 1 IN
  /\ phase = "extract" \/ (phase = "build" /\ last = 0)
  /\ ~Sinks
  /\ arr' = IF end > 0 THEN [Settled EXCEPT ![0] = Settled[end], ![end] = Settled[0]] ELSE Settled
  /\ phase' = IF end > 0 THEN "extract" ELSE "done"
  /\ last' = end /\ size' = end /\ hole' = 0
  /\ elem' = arr'[0]

HeapNext == (PercDown \/ BuildNext \/ ExtractNext) /\ UNCHANGED <<program, input>>

HeapDone == phase = "done"

-----------------------------------------------------------------------------
\* The elements behind the heap.
HeapFinished == CASE HeapDone          -> DOMAIN arr
                  [] phase = "extract" -> last .. n - 1
                  [] OTHER             -> {}

\* What is behind the heap is final and no element is lost, the one that
\* PercDown has taken out of the array included.
HeapSorts == Sorting(HeapFinished, Settled)
=============================================================================
