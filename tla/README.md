# A TLA+ model of the programs of Learning-Note

Learning-Note is a collection of small C++, Go and C programs that accompany a
developer's study notes. Each program is a data structure or an algorithm with a
`main` that exercises it. This directory holds TLA+ modules translated from
those programs, TLC configurations that model-check them, and proofs checked by
TLAPS. Paths below are relative to `src/`; the shorthand `thread_safe/` stands
for `algorithm/thread_safe/`.

## 1. Inventory

| Component | State | Operations | What is hard |
|---|---|---|---|
| Lock-free stack with reference counting (`thread_safe/stack/..._reference_count.cpp`) | `_head`, `_needToBeDeletedNodes`, `_threadCntInPop` (atomics), heap nodes | `push`, `pop` with `tryReclaim` | every atomic operation interleaves; use after free; ABA; relinking a claimed list; uninitialised atomics |
| Lock-free stack with hazard pointers (`..._hazard_pointer.cpp`) | `_head`, `_needToBeDeletedNodes`, a table of slots (`id`, `pointer`) per stack, one `thread_local` holder per thread | `push`, `pop` with the scan and `tryReclaimNodeWithNoHazardPointer`; construction and destruction of a holder | the same, and: publish/validate against scan/delete; slots that are never released; one holder for all stacks |
| Queue with a lock for each end (`thread_safe/queue/..._detail_lock.cpp`) | list with a dummy node, `_head`, `_tail`, two mutexes, a condition variable | `pushElement`, `popElement`, `waitAndPopElement` with and without a time limit | the two ends meet in one node; the predicate is tested under another mutex than the push; timeouts |
| Queue with one lock (`..._whole_lock.cpp`) | `std::queue`, a mutex, a condition variable | `push`, `wait_and_pop`, `try_pop`, `isEmpty`, destructor | stolen and spurious wakeups |
| Hash table with a lock for each bucket (`thread_safe/hash_table/..._bucket_lock.cpp`) | a vector of buckets, each a list with a shared mutex | `put`, `get` | readers beside a writer of the same bucket |
| LRU cache (`algorithm/least_recently_used/LRU.cpp`) | a list of pairs, a map from keys to list iterators, a capacity | `get`, `put` | dangling iterators after long sequences of calls; signed/unsigned comparison |
| LFU cache (`algorithm/least_frequently_used/LFU.cpp`) | values, frequencies, a list of keys for each frequency, the lowest frequency | `get`, `put` | `_minFreq` is kept by local updates only |
| Consistent hashing (`algorithm/consisitent_hash/consistent.cpp`, `consistent.go`) | a sorted ring of hashes, hash to member, members, a count, an RWMutex (Go) | `put`/`get`; `Add`, `Remove`, `Members`, `Get` | colliding virtual nodes, duplicate `Add`, `Remove` of a stranger, empty ring |
| Sorting algorithms (`algorithm/code_sort/BubbleSort.cpp`, `InsertSort`, `SelectSort`, `HeapSort`, `MergeSort`, `FastSort`) | an array | one call each; `MergeSort` and `fSort` call themselves | index ranges at the boundaries; elements lost or doubled on the way |
| Factorisation count (`algorithm/code_sort/GetFactorNum.cpp`) | a table | a recursive and a table function, compared by `main` | the order in which the table is filled |
| Parallel quick sort (`language/cxx/multi_thread/quick_sort.cpp`) | lists in the hands of a tree of calls | four member functions, two of them with `std::async` | elements moved between calls in threads that may not even start |
| Futures and promises (`.../future.cpp`) | threads, promises and their futures | four demonstrations, one after the other | a promise captured by reference; who waits for whom |
| Condition variable (`.../condition_variable.cpp`) | a vector under a mutex | a preparing and a processing thread | a processor that never empties its input |
| Lock demonstrations (`.../unique_lock.cpp`, `hello_concurrent_world.cpp`), concatenation sort (`algorithm/code_sort/test.cpp`) | - | - | not modelled, see section 5 |
| C notes, leetcode scratch file, Markdown notes | - | - | output and prose only |

The components do not call each other: each file is a program. What interacts
is the threads within one: they share the object, its heap and (hazard
pointers) the table of slots. Two abstract specifications are shared, because
the two stacks promise the same to their callers, and so do the two queues.

What makes each component correct:

* Stacks: no access to deleted memory, no stale successor installed by a CAS
  (ABA), every node in exactly one place, linearizability, lock-freedom.
* Queues: no data race between the two ends, no dangling `_tail`, FIFO order
  with every call taking effect at one instant, elements and waiting consumers
  meet in the end.
* Caches: the maps and lists describe each other after every sequence of calls;
  the key that goes is the right one; a hit returns what was put last.
* Hash table: linearizable as a map. Consistent hashing: `Get` answers with the
  owner of the first point after the key (C++: at or after it).
* Sorting programs: at every step the elements of the input and no others, and
  what the program is done with is final. Threads with futures: nobody's promise,
  list or stack frame goes while a thread still works in it, and all of them end.

## 2. Modules

| Module | Models |
|---|---|
| `AtomicStack` | abstract: a stack whose pushes and pops take effect at one instant between call and return |
| `FifoQueue` | abstract: the same for a queue whose pops may wait, give up when empty, or ask whether it is empty |
| `NodeLists` | the list of nodes reached from a pointer |
| `RefCountStack` | the stack with reference counting, one action per atomic operation or shared access |
| `RefCountStackRefinement` | its lists, the mapping to `AtomicStack`, the properties that need the lists |
| `RefCountStackProofs` | its theorems and proofs |
| `NodeListsProofs` | lemmas about those lists: how they change when a pointer does |
| `HazardPointerStack`, `HazardPointerStackRefinement`, `MCHazardPointerStack` | the stack with hazard pointers; its lists and mapping to `AtomicStack`; TLC's symmetry |
| `HazardPointerStackProofs` | its theorems and proofs |
| `DetailLockQueue`, `DetailLockQueueRefinement`, `MCDetailLockQueue` | the queue with two locks; its list and mapping to `FifoQueue`; TLC's symmetry |
| `DetailLockQueueProofs` | its theorems and proofs |
| `WholeLockQueue` | the queue with one lock, with its mapping to `FifoQueue` |
| `WholeLockQueueProofs` | its theorems and proofs |
| `AtomicMap` | abstract: a map whose puts and gets take effect at one instant between call and return |
| `HashTable`, `MCHashTable` | the hash table with a lock for each bucket, with its mapping to `AtomicMap`; the buckets TLC tries |
| `HashTableProofs` | its theorems and proofs |
| `ConsistentHash`, `MCConsistentHash` | consistent hashing, the Go and the C++ version; TLC's symmetry |
| `BoundedCache` | abstract: a cache that remembers a limited number of keys and answers with the value put last |
| `CacheBase`, `LRUCache`, `LFUCache` | what the caches share; the LRU cache; the LFU cache |
| `Caches`, `MCCaches` | either cache, with the mapping to `BoundedCache`; the capacities TLC tries |
| `SequentialProofs` | theorems and proofs about the hash rings and the caches, whose calls are whole |
| `ArrayPrograms` | arrays, and what it means to have sorted one |
| `LoopSorts`, `HeapSort`, `DivideSorts` | bubble, insertion and selection sort; heap sort; merge sort and `fSort` |
| `FactorCount` | the factorisation count |
| `ParallelQuickSort` | the calls of `quick_sort.cpp` |
| `Futures` | the demonstrations of `future.cpp` |
| `BatchProcessing` | the two threads of `condition_variable.cpp` |
| `Programs` | all of these small programs: `Init` picks one and the variables of the others stay as they are |
| `ProgramsProofs` | the theorems and proofs about them |

### How state and actions correspond to the code

Variables carry the names of the members and locals they model (`head` is
`_head`, `pending` is `_needToBeDeletedNodes`, `cnt` is `_threadCntInPop`, ...).
`pc` is where a thread is; its labels name the next step. Nodes are heap
addresses: `new` picks any address that is free, and `delete` makes it free
again, so an address can come back while another thread still holds it. `place`
tells free addresses from allocated ones; which list or thread an allocated node
belongs to is a ghost, written by the step that links or unlinks the node and
read by the properties. `Claim` and `Exchange` use it to record in the ghost
`mine` which nodes a thread took. No guard reads a ghost.

*Lock-free stacks.* All atomics use the default memory order, so the program's
behaviours are the interleavings of its atomic operations. `x->_next` is an
ordinary member that other threads may be writing: its read is a step of its
own. `compare_exchange_weak` may fail for no reason: `PopCasFail` is enabled
also when the head is the expected one. In the other CAS loops (push, and the
two lists of deleted nodes) a spurious failure stores the value that is there
already and would leave the state as it is, so only real failures are steps.
In the reference-counting stack `Check` to `Leave` are `tryReclaim`, branch by
branch, and `FindTail` is one iteration of the search for the last node. In the
hazard-pointer stack `Scan` reads one slot at a time, and the same four steps
(`Scan`, `Delete`, `AddLoad`, `AddCas`) serve the popped node and the nodes of
the claimed list, as the code's two identical branches do; `after` says which.

A C++11 to C++17 build leaves default-constructed atomics uninitialised. For
the reference-counting stack `ZeroInit = FALSE` makes `Init` choose any garbage,
and then the first pop may follow a garbage head: nothing can be promised. The
run and the proofs are about builds where `ZeroInit` holds (C++20).
`HazardPointerStack` assumes C++20.

*Threads, holders and other stacks.* `holder[t]` is the `thread_local` `hph`: not
constructed, a slot of this stack's table, or `Elsewhere`, a slot of another
stack's table. `ThreadExit` destroys the holder and leaves the slot's `id`,
because `~HazardPointerHolder` is empty. `PopElsewhere` is the first pop of a
thread being of another stack. `OtherStacks` turns it on.

*Queue with two locks.* Steps end where another thread can interfere: before
each mutex, between the two writes of a push, before the wait and before the
notification. `GetTail` and `ReadTail` are `_getTail()`, a lock within a lock.
`Block` is a step after the one that evaluated the predicate, since a push needs
only the other mutex and may come in between; giving the mutex up and blocking
is one step, as the condition variable guarantees. Two overloads of each pop
differ in how they hand the element over and are one action.

*Queue with one lock.* The same style. `Destroy` is the destructor, called when
no call is in progress and followed by none.

*Hash table.* Taking a bucket's lock, the search and the write are the steps of a
`put`; the write releases the lock. A `get` copies the value before its lock goes,
so its search and copy are one step that ends with the release. `writer` and
`readers` are the shared mutex of each bucket. `std::hash` is the constant `BucketOf`.

*Consistent hashing.* Every call holds the lock from its
first statement to its last: an action is a whole call. `version` says which program
runs. The C++ one has no members, no removal and no count: `members` is a ghost there. Its vector
keeps the hash of a node that is put twice as often, and it looks for the first hash
that is not less than the name's (`NotLess`) where the Go one looks for a greater one
(`Greater`). `hash` gives every
virtual node a place on a small circle, chosen once and arbitrarily, so that
collisions are everywhere: of CRC values, and of `eltKey`, whose `idx + elt` is
the same string for `"a"` with 10 and `"0a"` with 1. `count` drifts when a member
is added twice or a stranger removed, and is bounded by `MaxCount`. With 0
replicas `updateSortedHashes` divides by zero: the call panics after it has
changed `members`, which `Panics` models. Left out: `Members`, which copies; the
reuse of the slice's memory; and assignments to the exported
`NumberOfReplicas` after construction, which no caller in the repository makes.

Both sorts (`InOrder`) put each number at its place: after the smaller ones and
after the equal ones before it.

*Caches.* Neither class is meant to be shared between threads: an action is a
whole call. The LRU cache's list nodes have addresses, so that an iterator to an
erased node would show, even if the address was used again. `list::remove` in
`increaseFreq` takes out every occurrence of the key and `RemoveFirst` one;
`FrequenciesMatch` says that there is only one. `recent`, `written`
and `uses` are ghosts that remember the calls, for the properties to compare the
cache with. `BoundedCache` sees the capacity, the keys that are cached, the last
values put and the answers: a negative capacity is a limit no instance reaches for
the LRU cache, because `size() >= _cap` compares unsigned numbers, and 0 for the LFU
cache.

*Sorting programs.* An action is a turn of an inner loop, or its end. In `HeapSort`
the element `PercDown` has taken out of the array is `elem` and its place `hole`. The
recursion of `mergeSort` and `fSort` is the stack of calls and merges still to be
made; `tmpArr` is the part of the buffer between `start` and `tmp_p`. The right scan
of `fSort` (`ScanRight`) has no lower bound: below its part it reads what other calls
have placed there, and below the array whatever the memory holds, which may stop it or
not, at any read: `-Below` stands for that index and all the further ones. The fairness
of `Programs` leaves such a scan alone (`BelowArray`), so that it may also go on for
ever. In `FactorCount` a step is a turn of the outer loop, a column of the table, and
the recursive function is one.

*Parallel quick sort.* A call is named by the way to it from the first, `"low"` or
`"high"` at each step; `calls` holds the lists in their hands. `std::async` without a
policy may start a thread or leave the call to `get`: both are tried at every call. A
splice or an insert and the return are one step, since nobody else can reach the lists.

*Futures.* `set_value` is two steps: the value is ready in the first, and only the second
lets go of the promise. The future of `std::async` waits for its thread when it is
destroyed (`LeaveScope`); the others are joined.

*Batches.* `data` counts the elements of the vector and `pos` is the index of the
processing loop; the batch's numbers, which the assertion bounds, are constants of
the code. The woken thread competes for the mutex like one that begins a round.

## 3. Runs

| Run | Instance | Shows |
|---|---|---|
| `refcount` | 2 pushers, 2 poppers, 2 addresses, 3 values | memory safety, no ABA, exact counter, whole lists, linearizability, lock-freedom, and every node given back once pops stop overlapping |
| `hazard_safety` | 1 pusher, 2 poppers, 2 slots, 3 addresses, 3 values | memory safety, no ABA, deletion only of nodes nobody is going to access, whole lists, linearizability |
| `hazard_slots` | 3 poppers for 2 slots, exits, pops elsewhere | slots are private and left clean, the exception means a full table |
| `hazard_two_stacks` (violation) | the same, with another stack | a node is deleted under a thread whose holder belongs to another stack |
| `detail_safety` | 2 pushers, 2 poppers, 3 addresses, 3 values, all kinds of pop | no data race, no dangling pointer, whole list, linearizability, no deadlock |
| `detail_timed` | 1 pusher, 2 poppers with a time limit | every element is popped |
| `detail_lost_wakeup` (violation) | 1 pusher, 1 popper without a limit | the consumer of `main` can sleep for ever beside an element |
| `whole` | 2 pushers, 2 poppers, 3 values, all calls | no lost wakeup, no `front()` of an empty queue, linearizability with the destructor, waiting pops are served |
| `hash_table` | 2 putters, 2 getters, 2 keys in one of 2 buckets, 2 values | no data race in a bucket, no second entry of a key, linearizability, every call but a starved put returns |
| `consistent_hash` | 3 elements, hashes 0 to 3, 0 to 2 replicas, count from -3 to 3, both versions | the sorted hashes match the circle, only members own points, `Get` finds the nearest, few names move |
| `caches` | 4 keys, 2 values, capacities -1, (LFU) 0, 1, 2, 3, frequencies up to 3 | both caches implement `BoundedCache`; iterators valid, the most recent keys kept; lists and lowest frequency right, the victim is the least used and oldest |
| `programs` | arrays of up to 5 elements from 3 numbers, numbers up to 24, 3 list elements, 2 consumers, 3 batches of 2 | every sort is right at each step, the counts agree with the definition, the parallel calls lose nothing, no thread outlives its scope, every program ends (but for a scan of `fSort` that stays below the array) and every batch is processed |

Bounds, and why they are enough. `Values` bounds the number of pushes: each
value is pushed once, which tells them apart for linearizability and keeps the
runs finite. ABA needs a held address to be popped, freed and pushed again above
a different successor: three pushes and two addresses. Putting a claimed list
back needs two overlapping pops and one of them alone between them; a list of
two nodes makes `FindTail` walk. Two pushers and two poppers give every pair of
operations; that more threads, nodes and values change nothing is what the
theorems add. Two slots make the scan
pass over one slot on its way to another, and three threads for two slots fill
the table. The hash table's two keys share a bucket, because calls for different buckets share no
state, and a second, empty bucket shows an entry that goes astray. Four hash values
for up to six virtual nodes force collisions, and leave assignments without any.
The caches have one key more than the largest capacity, so that a key
that went can come back, and two values so that a stale one shows. The `caches` run
bounds frequencies by `MaxFreq` in the guard of `IncreaseFreq`: a key of
frequency 3 can overtake one of 1 and 2. Five elements from three numbers give arrays with
duplicates in every place, a heap of three levels with a parent of one child, and parts
of every kind for the recursive sorts; of the places below the array nothing but that
they are there matters, and `Below` tells two of them apart. Three list elements make a tree of calls three deep, with every mixture of
threads and deferred calls. The numbers up to 24 include products of four factors.
Two elements make a batch visible half full, and three batches show that processing
goes on without waiting.

`TypeOK` is an invariant of its own for the reference-counting stack; in every other
module it is the first conjunct of the invariant that says the component's data is
well formed (`ListsIntact`, `ListIntact`, `NoLostWakeup`, `OneEntryPerKey`,
`MembersOwnTheirPoints`, `IteratorsValid`, `FrequenciesMatch`). The small programs have
none: their properties say more of every variable.

Symmetry is used in `hazard_safety`, `hazard_slots`, `detail_safety` and
`consistent_hash`, which check no liveness; their specifications and refinement
mappings treat addresses, pushers, poppers and elements alike. Lock-freedom is checked for
the reference-counting stack only: without symmetry and with addresses that are
reused, the state space of the hazard-pointer stack is too large.
`CHECK_DEADLOCK FALSE` stands where the system may really stop: the threads of
the hazard-pointer runs may all have exited, nobody calls the one-lock queue
after its destructor, and the small programs end.

### Fairness

* The scheduler runs every thread that is inside an operation (`WF` of
  `Continue`). Nothing obliges a thread to start one, except in the runs about
  `EveryElementPopped`, where the consumers pop in an endless loop as `main`'s does.
* A mutex that is free again and again is obtained in the end (`SF` of
  `Acquiring`): mutexes do not starve a waiter for ever.
* `compare_exchange_weak` does not fail spuriously for ever (`SF` of `PopCas` in
  `RefCountStack`): the loop of `pop` relies on it. A CAS that really fails may do so for ever;
  `LockFree` says that others make progress then.
* The shared mutex of a bucket lets a writer in only if it is free again and again.
  Gets that overlap without a gap keep it taken, so `CallsReturn` excepts the puts
  they starve: C++ promises no order between readers and writers.
* A small program goes on while it can (`WF` of the whole `Next`): each of its steps
  brings the end closer, whichever thread takes it. The exception is a scan of `fSort`
  that is below the array: nothing in `FastSort.cpp:53` ends it there, and
  `ProgramsGetDone` says no more than that the program ends or stays in that scan. The two threads of
  `condition_variable.cpp` never end and each get the mutex in the end (`SF`): the
  processing thread asks for it again as soon as it has released it.
* `AllReclaimed` is conditional: pops go on, but from some moment on no two of them
  overlap. Without that nothing ever needs to be reclaimed.
* Time passes (`WF` of `Timeout`). Nothing is assumed about spurious wakeups.

### What the violations show

* `hazard_two_stacks`: `getMyThreadHazardPointer`'s holder is one per thread, not
  one per thread and stack, but each stack scans only its own table. A program
  with two such stacks, of whatever element types, loses the protection:
  `GlobalHazardPointer` is no template, so they share the holder.
* `detail_lost_wakeup`: `notify_all` may fall between the evaluation of the
  predicate and the wait, because `pushElement` never takes `_headMutex`.
  `detail_timed` shows that a time limit hides it.

More observations have no run of their own. The atomic members of the stacks
(`..._reference_count.cpp:25` to 29) have no initialiser: before C++20 the first
pop may dereference garbage. A thread that exits keeps its
slot in the table of hazard pointers (`ThreadExit`), so a long-lived stack runs out
of slots; `SlotsPrivate` says no more than that the table is full then. Nodes
that overlapping pops put aside are reclaimed only by a later pop that runs
alone (`AllReclaimed`): with none, they stay on the list. On the Go
circle a member that loses a collision loses the point for good: `Remove` of the
other deletes it, so with all points contested `Get` can even answer
`ErrEmptyCircle` while there are members. `MembersOwnTheirPoints` and
`MovesFewNames` therefore speak of uncontested points: the lost point is described here
and no property is about it.

Reading the small programs turned up the following. `FastSort.cpp`'s `main` calls
`ffSort`, which the file does not define. `fSort` reads `arr[end]` before it tests
whether there is anything to sort: below the array when the pivot is the smallest
element, a value it does not use. Its right scan goes below the array when nothing in
front of a pivot is less than it, as with the array of `main`, which ends in its minimum,
-550: the reads are undefined, and need not come to an end. `MergeSort` allocates
`end - start + 1` elements and indexes them from `start`: right for the `start` of 0 that `main` passes, and only for
it. `HeapSort` with no elements writes `arr[0]`. `get_factor_num_non` with 1 reads a row
its table does not have, and allocates 4 GB for the 32768 of the comment's
range; `main` stays between 2 and 99. Nothing ever empties `_data` in
`condition_variable.cpp`: every round processes every batch again. `consistent.cpp` uses
`std::mutex` without including its header.

## 4. Proofs

TLAPS checks the following for every value of the constants that the modules'
assumptions allow: any number of threads, keys, values, buckets, elements and hash
values, arrays of any length. The runs show the same properties on their small instances.

| Module | Theorems | Properties |
|---|---|---|
| `RefCountStackProofs` | `TypeCorrect`, `CountCorrect`, `MemorySafe`, `NoABA`, `ListsCorrect`, `Linearizable` | `TypeOK`, `CountsPoppers`, `NoUseAfterFree`, `NoStaleNext`, `ListsIntact`, `ImplementsStack` |
| `HazardPointerStackProofs` | `SlotsCorrect`, `DeletionsUnwatched`, `MemorySafe`, `NoABA`, `ListsCorrect`, `Linearizable` | `SlotsPrivate`, `DeletedUnwatched`, `NoUseAfterFree`, `NoStaleNext`, `ListsIntact`, `ImplementsStack` |
| `DetailLockQueueProofs` | `TypeCorrect`, `RaceFree`, `MemorySafe`, `ListCorrect`, `Linearizable` | `TypeOK`, `NoDataRace`, `NoUseAfterFree`, `ListIntact`, `ImplementsQueue` |
| `WholeLockQueueProofs` | `MutualExclusion`, `WakeupsArrive`, `PopsHaveData`, `Linearizable` | one thread inside the mutex, `NoLostWakeup`, `NeverTakesFromEmpty`, `ImplementsQueue` |
| `HashTableProofs` | `RaceFree`, `EntriesUnique`, `Linearizable` | `NoDataRace`, `OneEntryPerKey`, `ImplementsMap` |
| `SequentialProofs` | `IteratorsCorrect`, `MostRecentKept`, `FrequenciesCorrect`, `VictimsLeastUsed`, `KeepsPromise` | `IteratorsValid`, `LRUKeepsMostRecent`, `FrequenciesMatch`, `EvictsLeastUsed`, `ImplementsCache` |
| `SequentialProofs` | `PointsOwned`, `NearestFound`, `FewNamesMove` | `MembersOwnTheirPoints`, `GetsNearest`, `MovesFewNames` |
| `ProgramsProofs` | `SortsAreRight`, `CallsAreRight`, `ThreadsEndInScope` | `ArraysSorted`, `ParallelCallsSort`, `NoThreadOutlivesScope` |

### Assumptions

* `ZeroInit`: the reference-counting stack is built so that its atomics start at zero
  (C++20); all its theorems name it.
* `~OtherStacks`: the program has one stack with hazard pointers, counting all element
  types. All theorems about that stack but `SlotsCorrect` name it, and they must: `hazard_two_stacks` is
  the counterexample.
* The assumptions of the modules: the special values (`Null`, `NoThread`, `Miss`, ...) are no
  nodes, threads or values; there are finitely many addresses (`IsFiniteSet(Nodes)`), which
  is what makes a list end; the keys of the caches are finitely many ints; a hash table
  is asked about some key; `MaxFreq` is a bound of the `caches` run and is arbitrary in the proofs.
* What the sorts compare are ints (`ArrayAssumption`, `QuickAssumption`). `MaxLen` and `Below`
  (`DivideAssumption`) bound the `programs` run and are arbitrary numbers in the proofs, `Below` a positive one. The places of
  `Elements` need not even be finitely many: a list still to be sorted is a set.

### How the proofs go

*Stack with reference counting.* None of the properties is inductive. `IInv` adds what the code's
author had in mind, as named parts:

* the counter is the number of threads in `pop` (`CountsPoppers`). A thread that
  reads 1 while it is counted itself knows that it is alone at that moment;
* which thread or list each node belongs to (`InvPlace`), and where the pointers
  of the lists lead (`InvChain`): a successor of a node on the stack is on the
  stack, one of a claimed node is claimed by the same thread;
* what a thread that waits for its CAS may assume of the node it holds
  (`InvHold`): it is not freed, because a node is freed only by a thread that
  claimed it or popped it when nobody else was counted;
* why the successor it has read is still good when the CAS succeeds
  (`InvNext`): a node's `_next` changes only while it is off the stack, and a node
  that somebody counted holds cannot come back from the allocator.

The crux is the second load of the counter, the decrement in `LeaveAlone`: a
claimed list may be deleted only if no pop came in since the claim, while the
popped node may be deleted whatever came in, since it was unlinked before the
first load. For the lists `LInv` adds that each of them spells out exactly the nodes
placed in it (`InvSpells`) and that a node in nobody's list is in one thread's hands
(`InvOwned`).

*Stack with hazard pointers.* `SInv` is about the slots alone, in any program: the slot a holder
names has the thread's id, the constructor has found every slot it passed taken, and a
published pointer belongs to a thread inside the loops of `pop`. Memory safety rests on
`InvHold`: a node that a thread has validated stays in its slot, so that nobody gets from the
scan to the delete of it; a scan that has passed the slot tests another node. `InvSpells` and `InvOwned` are as above, for the
stack, the nodes put aside and what each reclaiming thread has yet to visit.

*Queue with two locks.* `InvLocks` says who holds which mutex; `InvList` that each linked node but
the last leads to another one, none to the dummy and no two to the same; `InvTake` that
a pop past its test still has a node to take, since pushes only add. `_tail` may lag by one
node between the two writes of a push (`Linked`). For the refinement the nodes are
enumerated (`InvPath`), and the abstract queue is the path from the node after the dummy
up to `_tail`.

*Queue with one lock.* `NoLostWakeup` itself is inductive with `InvMutex`, who is in which call,
and what the thread inside has found out: it stays true while the mutex is held.

*Hash table.* `InvLocks` ties the shared mutex of a bucket to the program counters; `InvFound`
says that the entry a put has found is still the one when it writes. Entries are
unique because the search and the write are under one exclusive lock.

*Caches.* The LRU invariant ties list, map and nodes together as a bijection and compares the
list with the order of use, place by place (`KeptInOrder`). The LFU invariant says that the list
of each frequency holds its keys, each once and oldest first (`OldestFirst`), that a
frequency is the number of uses since the key came, and that `_minFreq` is the lowest whenever
there is a key. That the front of `_freqToKey[_minFreq]` is the least used and
oldest key follows. `HeldKeys` counts the keys by the bijection with the list, for the
capacity.

*Consistent hashing.* `MembersOwnTheirPoints` becomes inductive with `InvOwners`: a point on the circle is
one of its owner's, so that `Remove` leaves no point to one that is gone. That sorting
sorts follows from the places: `Place` is injective from the indices to as many places, so it is onto
(`PlaceTaken`). `DistanceIs` takes the modulus out of the distance, and
no two points are equally far (`DistanceApart`), so the nearest point of a circle is still
the nearest after others go, and still unless a nearer one comes.

*Lists.* `NodesFrom` follows pointers as far as they lead. `ListIsNodesFrom` proves that it returns
the list a sequence of distinct nodes traces, by induction over a set of numbers closed
under the successor (`NatInductive`). The other lemmas say how a list changes when a node is
pushed, popped, cut off or appended. Both stacks and the two-lock queue use them.

*Sorting arrays.* `Permutes` says that one array is the other rearranged, by a bijection between
the places; a swap composes it with another one (`PermutesSwapped`, `PermutesAgain`).
`PlacedSorting` is the bridge to the properties: an element with nothing greater in front of
it and nothing less behind it is the one the sorted array has there, by counting. So
each program needs an invariant in terms of order only. The loops' invariants (`InvBubble`, `InvInsert`, `InvSelect`)
describe the element the inner loop carries. For `HeapSort` the array is `Settled`, with `elem` back in
its hole: parents are not less than their children but at the hole, whose parent is also not less than its
grandchildren (`InvHeap`), and that the root is greatest is by the least counterexample (`HeapInOrder`).
For merge sort and `fSort` two elements out of order are always the business of one call or merge on
the stack (`InvOrder`, `Answers`); calls on the stack do not overlap but with the merges they prepare
(`Before`). The right scan of `fSort` may leave its part, and the array: `InvScan` promises nothing of what it
reads there, and needs nothing, because the left scan stops within the part.

*Parallel quick sort.* The calls in progress are a tree; `Under` is below in it. `InvTree` says that those
with calls under them wait for their parts, and a call gets past its own part only when that has returned.
`InvParts` relates calls at any distance: what is in the hands of anybody under a call is on that side of the
call's pivot. So two returned parts and the pivot are in order when they are put together
(`WholeInOrder`), whichever threads ran when.

*Futures.* `FutureInv` adds that every thread of a function has been started when main has done its own
work, and that main is past the joins only when they are over; only the thread of `std::async` is not joined, and there
the future waits.

*Small programs together.* `ProgramsInv` is the invariant of whichever program runs. The
`...Stutters` lemmas say that it is not about the others' variables.

*Refinement.* Each `Linearizable` theorem has one lemma for each action or group of actions: it
maps to one step of the abstract specification (a call, the instant it takes effect, a return) or to none.

### Only model-checked

* Liveness: `LockFree`, `AllReclaimed`, `EveryElementPopped`, `WaitersAreServed`,
  `CallsReturn`, `ProgramsGetDone`. Fairness and `ENABLED` are out of the prover's reach.
* `FactorsCounted`: the counts of `FactorCount` and their definition are recursive over the data, which
  needs induction over it. The program is deterministic but for the number, and the run
  tries each up to its bound.
* That the sorts, the calls of `quick_sort.cpp` and the demonstrations end: it is part of `ProgramsGetDone`,
  and for `fSort` only where no scan stays below the array for ever.

## 5. Not modelled, and why

* Exceptions of `new`, of element constructors and of copies: the programs do not
  handle them. The messages printed at each step are output.
* Capacity 0 of the LRU cache: `put` reads the back of an empty list, which is
  undefined; `LRUAssumption` excludes it.
* Overflow of `_keyToFreq` and of the counter: out of reach of any real run.
* Destruction of the stacks and of the two-lock queue. No destructor of the
  stacks is written: what is still linked leaks. A stack that is destroyed takes its table of slots
  along while holders point into it; the model's stack lives for ever.
* What the `main` functions do after their loops; `MyElement` of
  the one-lock queue, which only prints its constructor calls.
* `get` of the C++ hash ring reads the front of an empty vector before the first `put`, and
  also after puts with 0 replicas only; `Get` excludes both. The other calls that are undefined are excluded in the same way:
  `HeapSort` with no elements, `MergeSort` with another `start` than 0. The reads of `fSort` below
  the array are undefined too, and are in the model: each may stop the scan or not, and nothing else
  is said of them.
* `future.cpp` calls `get` inside `assert`, but for one loop: a build with `NDEBUG` drops the
  calls, and the model is of one without.
* The sum `future.cpp`'s threads compute, the numbers of the batches, the messages.
* `unique_lock.cpp`: one thread calls `try_lock` on mutexes it holds already, which is
  undefined, and destroys locked mutexes. There are no outcomes to model.
  `hello_concurrent_world.cpp`'s threads share nothing.
* `code_sort/test.cpp`: words are read and handed to `std::sort`, with a comparator of one
  line. The work is the library's.
* The C notes (the library's list macros, used by one thread, and printed addresses), the
  scratch file and the Markdown notes, which have no state to check.

## 6. Plan

Done: the abstract specifications, both stacks, both queues, the hash table, both
hash rings, both caches, the sorting and the other small programs, and proofs of every
safety property but `FactorsCounted` and of every refinement.

Left is what the prover cannot reach (see above).

The runs are kept few: one for each component, and another only where it asks a
question of its own. Components that resemble each other share a run.
