------------------------------ MODULE Programs ------------------------------
(***************************************************************************)
(* The small programs, side by side: a behaviour runs one of them.  The    *)
(* variables of the others stay as they are.                               *)
(***************************************************************************)
EXTENDS LoopSorts, HeapSort, DivideSorts, FactorCount, ParallelQuickSort,
        Futures, BatchProcessing

arrayVars == <<program, input, arr>>

\* A program that does not sort an array.
NoArray(name) == program = name /\ input = <<>> /\ arr = <<>>

LoopOff    == i = 0 /\ j = 0 /\ indx = 0
HeapOff    == phase = "off" /\ last = 0 /\ hole = 0 /\ size = 0 /\ elem = 0
DivideOff  == stack = <<>> /\ at = "off" /\ l = 0 /\ r = 0 /\ tmpArr = <<>>
FactorOff  == a = 0 /\ col = 0 /\ dp = <<>>
QuickOff   == function = "off" /\ value = <<>> /\ calls = <<>>
FuturesOff == demo = 0 /\ main = "off" /\ thread = <<>> /\ ready = {}
BatchOff   == owner = "off" /\ data = 0 /\ pos = 0 /\ prepare = "off" /\ process = "off"

Init == \/ /\ LoopInit
           /\ HeapOff /\ DivideOff /\ FactorOff /\ QuickOff /\ FuturesOff /\ BatchOff
        \/ /\ HeapInit
           /\ LoopOff /\ DivideOff /\ FactorOff /\ QuickOff /\ FuturesOff /\ BatchOff
        \/ /\ DivideInit
           /\ LoopOff /\ HeapOff /\ FactorOff /\ QuickOff /\ FuturesOff /\ BatchOff
        \/ /\ NoArray("GetFactorNum") /\ FactorInit
           /\ LoopOff /\ HeapOff /\ DivideOff /\ QuickOff /\ FuturesOff /\ BatchOff
        \/ /\ NoArray("quick_sort") /\ QuickInit
           /\ LoopOff /\ HeapOff /\ DivideOff /\ FactorOff /\ FuturesOff /\ BatchOff
        \/ /\ NoArray("future") /\ FuturesInit
           /\ LoopOff /\ HeapOff /\ DivideOff /\ FactorOff /\ QuickOff /\ BatchOff
        \/ /\ NoArray("condition_variable") /\ BatchInit
           /\ LoopOff /\ HeapOff /\ DivideOff /\ FactorOff /\ QuickOff /\ FuturesOff

noSort == <<arrayVars, loopVars, heapVars, divideVars>>

Next ==
  \/ /\ program \in {"bubble", "insert", "select"} /\ LoopNext
     /\ UNCHANGED <<heapVars, divideVars, factorVars, quickVars, futureVars, batchVars>>
  \/ /\ program = "heap" /\ HeapNext
     /\ UNCHANGED <<loopVars, divideVars, factorVars, quickVars, futureVars, batchVars>>
  \/ /\ program \in {"merge", "quick"} /\ DivideNext
     /\ UNCHANGED <<loopVars, heapVars, factorVars, quickVars, futureVars, batchVars>>
  \/ /\ program = "GetFactorNum" /\ FactorNext
     /\ UNCHANGED <<noSort, quickVars, futureVars, batchVars>>
  \/ /\ program = "quick_sort" /\ QuickNext
     /\ UNCHANGED <<noSort, factorVars, futureVars, batchVars>>
  \/ /\ program = "future" /\ FuturesNext
     /\ UNCHANGED <<noSort, factorVars, quickVars, batchVars>>
  \/ /\ program = "condition_variable" /\ BatchNext
     /\ UNCHANGED <<noSort, factorVars, quickVars, futureVars>>

vars == <<noSort, factorVars, quickVars, futureVars, batchVars>>

BatchPart == UNCHANGED <<noSort, factorVars, quickVars, futureVars>>

\* A program that ends goes on while it can, but nothing in fSort makes a scan that is
\* below the array come to a stop; the two threads of condition_variable are each
\* scheduled, and get the mutex in the end, but wait need not wake up by itself.
Spec == /\ Init /\ [][Next]_vars
        /\ WF_vars(program # "condition_variable" /\ ~BelowArray /\ Next)
        /\ SF_vars(program = "condition_variable" /\ PrepareNext /\ BatchPart)
        /\ SF_vars(program = "condition_variable" /\ ProcessNext /\ BatchPart)

-----------------------------------------------------------------------------
\* Each sorting program is right about the part of the array it is done with,
\* after every step, for every small array: BubbleSort, InsertSort, SelectSort,
\* HeapSort, MergeSort and fSort.
ArraysSorted == /\ program \in {"bubble", "insert", "select"} => LoopsSort
                /\ program = "heap" => HeapSorts
                /\ program \in {"merge", "quick"} => DivideSorting

\* main's table and recursion of GetFactorNum agree with the definition.
FactorsCounted == program = "GetFactorNum" => CountsAgree

\* The calls of quick_sort.cpp, threads of their own or not, lose, double and
\* misplace no element.
ParallelCallsSort == program = "quick_sort" => CallsSort

\* main of future.cpp leaves no function with a thread of it under way.
NoThreadOutlivesScope == program = "future" => ScopesOutliveThreads

Ended == CASE program \in {"bubble", "insert", "select"} -> LoopDone
           [] program = "heap"                -> HeapDone
           [] program \in {"merge", "quick"}  -> DivideDone
           [] program = "GetFactorNum"        -> FactorDone
           [] program = "quick_sort"          -> QuickDone
           [] program = "future"              -> FuturesDone
           [] program = "condition_variable"  -> FALSE

\* Every program comes to its end, whether a task is deferred or not and a thread is
\* delayed, unless a scan of fSort stays below the array for ever, which its code does
\* not rule out; the two threads that have no end process every batch.
ProgramsGetDone == /\ program = "condition_variable" => EveryBatchProcessed
                   /\ program # "condition_variable" => <>Ended \/ <>[]BelowArray
=============================================================================
