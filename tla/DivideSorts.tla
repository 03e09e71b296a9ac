---------------------------- MODULE DivideSorts ----------------------------
(***************************************************************************)
(* MergeSort and FastSort's fSort, which call themselves on two parts of   *)
(* the array.  The calls that are still to be made, and the merges, wait   *)
(* on a stack.                                                             *)
(***************************************************************************)
EXTENDS ArrayPrograms, SequencesExt

CONSTANT Below  \* -Below is the last index below the array that is told apart

ASSUME DivideAssumption == Below \in Nat \ {0}

VARIABLES stack,  \* what is to be done, the next thing first
          at,     \* where in it
          l, r,   \* i and j of merge and of fSort
          tmpArr  \* tmpArr; tmp_p is the next index

divideVars == <<stack, at, l, r, tmpArr>>

Call(start, end)       == [do |-> "sort", start |-> start, mid |-> end, end |-> end]
Merge(start, mid, end) == [do |-> "merge", start |-> start, mid |-> mid, end |-> end]

\* main calls MergeSort on the whole array, so that the buffer is as large.
DivideInit == /\ ArrayInit({"merge", "quick"})
              /\ stack = <<Call(0, n - 1)>>
              /\ at = "call"
              /\ l = 0 /\ r = 0
              /\ tmpArr = <<>>

First == Head(stack)
ToDo(what) == stack # <<>> /\ at = "call" /\ First.do = what

\* A call on at most one element returns.
ReturnAtOnce == /\ ToDo("sort") /\ First.start >= First.end
                /\ stack' = Tail(stack)
                /\ UNCHANGED <<arr, at, l, r, tmpArr>>

MergeSplit == LET mid == (First.start + First.end) \div 2 IN
  /\ program = "merge" /\ ToDo("sort") /\ First.start < First.end
  /\ stack' = <<Call(First.start, mid), Call(mid + 1, First.end),
                Merge(First.start, mid + 1, First.end)>> \o Tail(stack)
  /\ UNCHANGED <<arr, at, l, r, tmpArr>>

MergeStart == /\ ToDo("merge")
              /\ l' = First.start /\ r' = First.mid
              /\ at' = "merge"
              /\ tmpArr' = <<>>
              /\ UNCHANGED <<arr, stack>>
\* A turn of one of merge's three loops: the smaller head is taken, or that of
\* the half that is left.
MergeTake == LET fromLeft == l < First.mid /\ (r > First.end \/ arr[l] < arr[r]) IN
  /\ at = "merge"
  /\ l < First.mid \/ r <= First.end
  /\ tmpArr' = Append(tmpArr, arr[IF fromLeft THEN l ELSE r])
  /\ l' = IF fromLeft THEN l + 1 ELSE l
  /\ r' = IF fromLeft THEN r ELSE r + 1
  /\ UNCHANGED <<arr, stack, at>>

\* The elements are copied back.
MergeCopy == /\ at = "merge"
             /\ l >= First.mid /\ r > First.end
             /\ arr' = [k \in DOMAIN arr |-> IF k \in First.start..First.end
                                             THEN tmpArr[k - First.start + 1] ELSE arr[k]]
             /\ at' = "call"
             /\ stack' = Tail(stack)
             /\ UNCHANGED <<l, r, tmpArr>>

-----------------------------------------------------------------------------
(* fSort *)

Pivot == arr[First.end]

Partition == /\ program = "quick" /\ ToDo("sort") /\ First.start < First.end
             /\ l' = First.start /\ r' = First.end - 1
             /\ at' = "left"
             /\ UNCHANGED <<arr, stack, tmpArr>>

ScanLeft == /\ at = "left"
            /\ l' = IF arr[l] < Pivot THEN l + 1 ELSE l
            /\ at' = IF arr[l] < Pivot THEN "left" ELSE "right"
            /\ UNCHANGED <<arr, stack, r, tmpArr>>

\* Nothing stops this scan where the part begins, or the array.  Below the array it
\* goes on or not as the memory there has it, any number of times: -Below stands for
\* that place and all the further ones.
ScanRight == LET goesOn == IF r >= 0 THEN {arr[r] >= Pivot} ELSE BOOLEAN IN
  /\ at = "right"
  /\ \E more \in goesOn : /\ r' = IF more /\ r > -Below THEN r - 1 ELSE r
                          /\ at' = IF more THEN "right" ELSE "exchange"
  /\ UNCHANGED <<arr, stack, l, tmpArr>>

\* The next read of the scan is undefined, and need not stop it.
BelowArray == at = "right" /\ r < 0

Exchange_Moves == /\ at = "exchange" /\ l < r
                  /\ arr' = Swap(l, r)
                  /\ at' = "right"
                  /\ UNCHANGED <<stack, l, r, tmpArr>>

Exchange == /\ at = "exchange" /\ l < r
            /\ arr' = Swap(l, r)
            /\ at' = "left"
            /\ UNCHANGED <<stack, l, r, tmpArr>>

\* The pivot goes to where the scans met, and fSort calls itself on both sides.
PlacePivot == /\ at = "exchange" /\ l >= r
              /\ arr' = Swap(l, First.end)
              /\ at' = "call"
              /\ stack' = <<Call(First.start, l - 1), Call(l + 1, First.end)>> \o Tail(stack)
              /\ UNCHANGED <<l, r, tmpArr>>

-----------------------------------------------------------------------------
DivideNext == /\ \/ ReturnAtOnce \/ MergeSplit \/ MergeStart \/ MergeTake \/ MergeCopy
                 \/ Partition \/ ScanLeft \/ ScanRight \/ Exchange \/ PlacePivot
              /\ UNCHANGED <<program, input>>

DivideDone == stack = <<>>

\* fSort's pivots: the positions that are in no part still to be sorted.
DivideFinished == IF DivideDone THEN DOMAIN arr
                  ELSE IF program = "merge" THEN {}
                  ELSE {k \in DOMAIN arr : \A c \in ToSet(stack) : k \notin c.start..c.end}

\* No element is lost, a pivot is final from the moment it is placed, and what
\* is merged is in order, whatever fSort reads below the array.
DivideSorting ==
  /\ Sorting(DivideFinished, arr)
  /\ at = "merge" => \A k, m \in DOMAIN tmpArr : k < m => tmpArr[k] <= tmpArr[m]
=============================================================================
