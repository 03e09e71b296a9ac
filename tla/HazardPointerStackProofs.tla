----------------------- MODULE HazardPointerStackProofs -----------------------
(***************************************************************************)
(* The hazard-pointer stack, for every number of threads, slots, nodes and *)
(* values: its slots are private, a node is deleted only when no thread    *)
(* watches it, the lists stay whole, and the stack is linearizable.        *)
(***************************************************************************)
EXTENDS HazardPointerStackRefinement, NodeListsProofs

-----------------------------------------------------------------------------
(* The slots, whatever stacks the program has *)

\* The threads that may have left a pointer in their slot.
Watching(t) == pc[t] \in {"load_tmp", "publish", "validate", "read_next", "pop_cas", "clear"}

\* The pointer a step is about to use is not null.
InvNull ==
  \A t \in Threads :
    /\ pc[t] = "push_cas" => newNode[t] # Null
    /\ pc[t] \in {"read_next", "pop_cas", "swap"} => oldHead[t] # Null
    /\ pc[t] \in {"scan", "delete", "add_load", "add_cas", "read_succ"} => node[t] # Null

\* A slot that names a thread is the one its holder names, unless the thread is
\* gone; the constructor has found every slot before slot[t] taken.
InvSlots ==
  \A t \in Threads :
    /\ holder[t] \in Slots => id[holder[t]] = t
    /\ \A i \in Slots : id[i] = t => holder[t] = i \/ pc[t] = "exited"
    /\ pc[t] \in {"claim_slot", "thrown"} => holder[t] = NoHolder
    /\ pc[t] = "claim_slot" => \A i \in Slots : i < slot[t] => id[i] # NoThread
    /\ pc[t] = "thrown" => \A i \in Slots : id[i] # NoThread
    /\ pc[t] \notin {"claim_slot", "scan"} => slot[t] = 1

\* A slot that holds a pointer belongs to a thread inside the loops of pop.
InvPointers == \A i \in Slots : pointer[i] # Null => \E t \in Threads : holder[t] = i /\ Watching(t)

SInv == TypeOK /\ InvNull /\ InvSlots /\ InvPointers

-----------------------------------------------------------------------------
(* Every action keeps the slots private *)

\* A thread that stays in the loops keeps its slot.
LEMMA PointersKept ==
  ASSUME InvPointers, pointer' = pointer,
         \A u \in Threads : Watching(u) => holder'[u] = holder[u] /\ Watching(u)'
  PROVE  InvPointers'
BY DEF InvPointers

\* A node the allocator hands out is not null.
LEMMA PushStartSlots ==
  ASSUME SInv, NEW t \in Threads, NEW v \in Values, PushStart(t, v)
  PROVE  SInv'
<1> USE HazardAssumption DEF SInv, PushStart, Goto, tables, heap, locals, Pointers, Slots, NoHolder, Elsewhere
<1>1. TypeOK'
  BY DEF TypeOK, InvNull, InvSlots, Move, Places, Labels
<1>2. InvNull'
  BY DEF TypeOK, InvNull
<1>3. InvSlots'
  BY DEF TypeOK, InvSlots
<1>4. InvPointers'
  BY PointersKept DEF TypeOK, Watching
<1> QED  BY <1>1, <1>2, <1>3, <1>4

\* A push touches no slot.
LEMMA PushCasSlots ==
  ASSUME SInv, NEW t \in Threads, PushCas(t)
  PROVE  SInv'
<1> USE HazardAssumption DEF SInv, PushCas, Goto, tables, heap, locals, Pointers, Slots, NoHolder, Elsewhere
<1>1. TypeOK'
  BY DEF TypeOK, InvNull, InvSlots, Move, Places, Labels
<1>2. InvNull'
  BY DEF TypeOK, InvNull
<1>3. InvSlots'
  BY DEF TypeOK, InvSlots
<1>4. InvPointers'
  BY PointersKept DEF TypeOK, Watching
<1> QED  BY <1>1, <1>2, <1>3, <1>4

\* A push touches no slot.
LEMMA PushCasFailSlots ==
  ASSUME SInv, NEW t \in Threads, PushCasFail(t)
  PROVE  SInv'
<1> USE HazardAssumption DEF SInv, PushCasFail, Goto, tables, heap, locals, Pointers, Slots, NoHolder, Elsewhere
<1>1. TypeOK'
  BY DEF TypeOK, InvNull, InvSlots, Move, Places, Labels
<1>2. InvNull'
  BY DEF TypeOK, InvNull
<1>3. InvSlots'
  BY DEF TypeOK, InvSlots
<1>4. InvPointers'
  BY PointersKept DEF TypeOK, Watching
<1> QED  BY <1>1, <1>2, <1>3, <1>4

\* The holder is constructed only if the thread has none.
LEMMA PopStartSlots ==
  ASSUME SInv, NEW t \in Threads, PopStart(t)
  PROVE  SInv'
<1> USE HazardAssumption DEF SInv, PopStart, Goto, tables, heap, locals, Pointers, Slots, NoHolder, Elsewhere
<1>1. TypeOK'
  BY DEF TypeOK, InvNull, InvSlots, Move, Places, Labels
<1>2. InvNull'
  BY DEF TypeOK, InvNull
<1>3. InvSlots'
  BY DEF TypeOK, InvSlots
<1>4. InvPointers'
  BY PointersKept DEF TypeOK, Watching
<1> QED  BY <1>1, <1>2, <1>3, <1>4

\* A slot of another table is none of this one.
LEMMA PopElsewhereSlots ==
  ASSUME SInv, NEW t \in Threads, PopElsewhere(t)
  PROVE  SInv'
<1> USE HazardAssumption DEF SInv, PopElsewhere, Goto, tables, heap, locals, Pointers, Slots, NoHolder, Elsewhere
<1>1. TypeOK'
  BY DEF TypeOK, InvNull, InvSlots, Move, Places, Labels
<1>2. InvNull'
  BY DEF TypeOK, InvNull
<1>3. InvSlots'
  BY DEF TypeOK, InvSlots
<1>4. InvPointers'
  BY PointersKept DEF TypeOK, Watching
<1> QED  BY <1>1, <1>2, <1>3, <1>4

\* The slot keeps the id of a thread that is gone.
LEMMA ThreadExitSlots ==
  ASSUME SInv, NEW t \in Threads, ThreadExit(t)
  PROVE  SInv'
<1> USE HazardAssumption DEF SInv, ThreadExit, Goto, tables, heap, locals, Pointers, Slots, NoHolder, Elsewhere
<1>1. TypeOK'
  BY DEF TypeOK, InvNull, InvSlots, Move, Places, Labels
<1>2. InvNull'
  BY DEF TypeOK, InvNull
<1>3. InvSlots'
  BY DEF TypeOK, InvSlots
<1>4. InvPointers'
  BY PointersKept DEF TypeOK, Watching
<1> QED  BY <1>1, <1>2, <1>3, <1>4

\* A slot nobody owns has no pointer in it.
LEMMA ClaimSlotSlots ==
  ASSUME SInv, NEW t \in Threads, ClaimSlot(t)
  PROVE  SInv'
<1> USE HazardAssumption DEF SInv, ClaimSlot, Goto, tables, heap, locals, Pointers, Slots, NoHolder, Elsewhere
<1>1. TypeOK'
  BY DEF TypeOK, InvNull, InvSlots, Move, Places, Labels
<1>2. InvNull'
  BY DEF TypeOK, InvNull
<1>3. InvSlots'
  BY DEF TypeOK, InvSlots
<1>4. InvPointers'
  BY DEF TypeOK, InvSlots, InvPointers, Watching
<1> QED  BY <1>1, <1>2, <1>3, <1>4

\* Past the last slot all of them are taken.
LEMMA ClaimSlotTakenSlots ==
  ASSUME SInv, NEW t \in Threads, ClaimSlotTaken(t)
  PROVE  SInv'
<1> USE HazardAssumption DEF SInv, ClaimSlotTaken, Goto, tables, heap, locals, Pointers, Slots, NoHolder, Elsewhere
<1>1. TypeOK'
  BY DEF TypeOK, InvNull, InvSlots, Move, Places, Labels
<1>2. InvNull'
  BY DEF TypeOK, InvNull
<1>3. InvSlots'
  BY DEF TypeOK, InvSlots
<1>4. InvPointers'
  BY PointersKept DEF TypeOK, Watching
<1> QED  BY <1>1, <1>2, <1>3, <1>4

\* The thread has no holder still.
LEMMA CatchSlots ==
  ASSUME SInv, NEW t \in Threads, Catch(t)
  PROVE  SInv'
<1> USE HazardAssumption DEF SInv, Catch, Goto, tables, heap, locals, Pointers, Slots, NoHolder, Elsewhere
<1>1. TypeOK'
  BY DEF TypeOK, InvNull, InvSlots, Move, Places, Labels
<1>2. InvNull'
  BY DEF TypeOK, InvNull
<1>3. InvSlots'
  BY DEF TypeOK, InvSlots
<1>4. InvPointers'
  BY PointersKept DEF TypeOK, Watching
<1> QED  BY <1>1, <1>2, <1>3, <1>4

\* No slot changes.
LEMMA LoadTmpSlots ==
  ASSUME SInv, NEW t \in Threads, LoadTmp(t)
  PROVE  SInv'
<1> USE HazardAssumption DEF SInv, LoadTmp, Goto, tables, heap, locals, Pointers, Slots, NoHolder, Elsewhere
<1>1. TypeOK'
  BY DEF TypeOK, InvNull, InvSlots, Move, Places, Labels
<1>2. InvNull'
  BY DEF TypeOK, InvNull
<1>3. InvSlots'
  BY DEF TypeOK, InvSlots
<1>4. InvPointers'
  BY PointersKept DEF TypeOK, Watching
<1> QED  BY <1>1, <1>2, <1>3, <1>4

\* The thread writes the slot its holder names.
LEMMA PublishSlots ==
  ASSUME SInv, NEW t \in Threads, Publish(t)
  PROVE  SInv'
<1> USE HazardAssumption DEF SInv, Publish, Goto, SetPointer, tables, heap, locals, Pointers, Slots, NoHolder, Elsewhere
<1>1. TypeOK'
  BY DEF TypeOK, InvNull, InvSlots, Move, Places, Labels
<1>2. InvNull'
  BY DEF TypeOK, InvNull
<1>3. InvSlots'
  BY DEF TypeOK, InvSlots
<1>4. InvPointers'
  BY DEF TypeOK, InvSlots, InvPointers, Watching
<1> QED  BY <1>1, <1>2, <1>3, <1>4

\* The thread goes on to read a head that is not null.
LEMMA ValidateSlots ==
  ASSUME SInv, NEW t \in Threads, Validate(t)
  PROVE  SInv'
<1> USE HazardAssumption DEF SInv, Validate, Goto, tables, heap, locals, Pointers, Slots, NoHolder, Elsewhere
<1>1. TypeOK'
  BY DEF TypeOK, InvNull, InvSlots, Move, Places, Labels
<1>2. InvNull'
  BY DEF TypeOK, InvNull
<1>3. InvSlots'
  BY DEF TypeOK, InvSlots
<1>4. InvPointers'
  BY PointersKept DEF TypeOK, Watching
<1> QED  BY <1>1, <1>2, <1>3, <1>4

\* No slot changes.
LEMMA ReadNextSlots ==
  ASSUME SInv, NEW t \in Threads, ReadNext(t)
  PROVE  SInv'
<1> USE HazardAssumption DEF SInv, ReadNext, Goto, tables, heap, locals, Pointers, Slots, NoHolder, Elsewhere
<1>1. TypeOK'
  BY DEF TypeOK, InvNull, InvSlots, Move, Places, Labels
<1>2. InvNull'
  BY DEF TypeOK, InvNull
<1>3. InvSlots'
  BY DEF TypeOK, InvSlots
<1>4. InvPointers'
  BY PointersKept DEF TypeOK, Watching
<1> QED  BY <1>1, <1>2, <1>3, <1>4

\* No slot changes.
LEMMA PopCasSlots ==
  ASSUME SInv, NEW t \in Threads, PopCas(t)
  PROVE  SInv'
<1> USE HazardAssumption DEF SInv, PopCas, Goto, tables, heap, locals, Pointers, Slots, NoHolder, Elsewhere
<1>1. TypeOK'
  BY DEF TypeOK, InvNull, InvSlots, Move, Places, Labels
<1>2. InvNull'
  BY DEF TypeOK, InvNull
<1>3. InvSlots'
  BY DEF TypeOK, InvSlots
<1>4. InvPointers'
  BY PointersKept DEF TypeOK, Watching
<1> QED  BY <1>1, <1>2, <1>3, <1>4

\* The pointer stays in the slot until it is replaced or cleared.
LEMMA PopCasFailSlots ==
  ASSUME SInv, NEW t \in Threads, PopCasFail(t)
  PROVE  SInv'
<1> USE HazardAssumption DEF SInv, PopCasFail, Goto, tables, heap, locals, Pointers, Slots, NoHolder, Elsewhere
<1>1. TypeOK'
  BY DEF TypeOK, InvNull, InvSlots, Move, Places, Labels
<1>2. InvNull'
  BY DEF TypeOK, InvNull
<1>3. InvSlots'
  BY DEF TypeOK, InvSlots
<1>4. InvPointers'
  BY PointersKept DEF TypeOK, Watching
<1> QED  BY <1>1, <1>2, <1>3, <1>4

\* The slot is cleared before the thread leaves the loops.
LEMMA ClearSlots ==
  ASSUME SInv, NEW t \in Threads, Clear(t)
  PROVE  SInv'
<1> USE HazardAssumption DEF SInv, Clear, Goto, SetPointer, tables, heap, locals, Pointers, Slots, NoHolder, Elsewhere
<1>1. TypeOK'
  BY DEF TypeOK, InvNull, InvSlots, Move, Places, Labels
<1>2. InvNull'
  BY DEF TypeOK, InvNull
<1>3. InvSlots'
  BY DEF TypeOK, InvSlots
<1>4. InvPointers'
  BY DEF TypeOK, InvSlots, InvPointers, Watching
<1> QED  BY <1>1, <1>2, <1>3, <1>4

\* The node in hand is the head the thread removed.
LEMMA SwapSlots ==
  ASSUME SInv, NEW t \in Threads, Swap(t)
  PROVE  SInv'
<1> USE HazardAssumption DEF SInv, Swap, Goto, tables, heap, locals, Pointers, Slots, NoHolder, Elsewhere
<1>1. TypeOK'
  BY DEF TypeOK, InvNull, InvSlots, Move, Places, Labels
<1>2. InvNull'
  BY DEF TypeOK, InvNull
<1>3. InvSlots'
  BY DEF TypeOK, InvSlots
<1>4. InvPointers'
  BY PointersKept DEF TypeOK, Watching
<1> QED  BY <1>1, <1>2, <1>3, <1>4

\* The loop over the table stays inside it.
LEMMA ScanSlots ==
  ASSUME SInv, NEW t \in Threads, Scan(t)
  PROVE  SInv'
<1> USE HazardAssumption DEF SInv, Scan, Goto, tables, heap, locals, Pointers, Slots, NoHolder, Elsewhere
<1>1. TypeOK'
  BY DEF TypeOK, InvNull, InvSlots, Move, Places, Labels
<1>2. InvNull'
  BY DEF TypeOK, InvNull
<1>3. InvSlots'
  BY DEF TypeOK, InvSlots
<1>4. InvPointers'
  BY PointersKept DEF TypeOK, Watching
<1> QED  BY <1>1, <1>2, <1>3, <1>4

\* The next node, if there is one, is not null.
LEMMA DeleteSlots ==
  ASSUME SInv, NEW t \in Threads, Delete(t)
  PROVE  SInv'
<1> USE HazardAssumption DEF SInv, Delete, Goto, Proceed, tables, heap, locals, Pointers, Slots, NoHolder, Elsewhere
<1>1. TypeOK'
  BY DEF TypeOK, InvNull, InvSlots, Move, Places, Labels
<1>2. InvNull'
  BY DEF TypeOK, InvNull
<1>3. InvSlots'
  BY DEF TypeOK, InvSlots
<1>4. InvPointers'
  BY PointersKept DEF TypeOK, Watching
<1> QED  BY <1>1, <1>2, <1>3, <1>4

\* No slot changes.
LEMMA AddLoadSlots ==
  ASSUME SInv, NEW t \in Threads, AddLoad(t)
  PROVE  SInv'
<1> USE HazardAssumption DEF SInv, AddLoad, Goto, PointNode, tables, heap, locals, Pointers, Slots, NoHolder, Elsewhere
<1>1. TypeOK'
  BY DEF TypeOK, InvNull, InvSlots, Move, Places, Labels
<1>2. InvNull'
  BY DEF TypeOK, InvNull
<1>3. InvSlots'
  BY DEF TypeOK, InvSlots
<1>4. InvPointers'
  BY PointersKept DEF TypeOK, Watching
<1> QED  BY <1>1, <1>2, <1>3, <1>4

\* The next node, if there is one, is not null.
LEMMA AddCasSlots ==
  ASSUME SInv, NEW t \in Threads, AddCas(t)
  PROVE  SInv'
<1> USE HazardAssumption DEF SInv, AddCas, Goto, Proceed, tables, heap, locals, Pointers, Slots, NoHolder, Elsewhere
<1>1. TypeOK'
  BY DEF TypeOK, InvNull, InvSlots, Move, Places, Labels
<1>2. InvNull'
  BY DEF TypeOK, InvNull
<1>3. InvSlots'
  BY DEF TypeOK, InvSlots
<1>4. InvPointers'
  BY PointersKept DEF TypeOK, Watching
<1> QED  BY <1>1, <1>2, <1>3, <1>4

\* No slot changes.
LEMMA AddCasFailSlots ==
  ASSUME SInv, NEW t \in Threads, AddCasFail(t)
  PROVE  SInv'
<1> USE HazardAssumption DEF SInv, AddCasFail, Goto, PointNode, tables, heap, locals, Pointers, Slots, NoHolder, Elsewhere
<1>1. TypeOK'
  BY DEF TypeOK, InvNull, InvSlots, Move, Places, Labels
<1>2. InvNull'
  BY DEF TypeOK, InvNull
<1>3. InvSlots'
  BY DEF TypeOK, InvSlots
<1>4. InvPointers'
  BY PointersKept DEF TypeOK, Watching
<1> QED  BY <1>1, <1>2, <1>3, <1>4

\* The first pending node, if there is one, is not null.
LEMMA ExchangeSlots ==
  ASSUME SInv, NEW t \in Threads, Exchange(t)
  PROVE  SInv'
<1> USE HazardAssumption DEF SInv, Exchange, Goto, tables, heap, locals, Pointers, Slots, NoHolder, Elsewhere
<1>1. TypeOK'
  BY DEF TypeOK, InvNull, InvSlots, Move, Places, Labels
<1>2. InvNull'
  BY DEF TypeOK, InvNull
<1>3. InvSlots'
  BY DEF TypeOK, InvSlots
<1>4. InvPointers'
  BY PointersKept DEF TypeOK, Watching
<1> QED  BY <1>1, <1>2, <1>3, <1>4

\* No slot changes.
LEMMA ReadSuccSlots ==
  ASSUME SInv, NEW t \in Threads, ReadSucc(t)
  PROVE  SInv'
<1> USE HazardAssumption DEF SInv, ReadSucc, Goto, tables, heap, locals, Pointers, Slots, NoHolder, Elsewhere
<1>1. TypeOK'
  BY DEF TypeOK, InvNull, InvSlots, Move, Places, Labels
<1>2. InvNull'
  BY DEF TypeOK, InvNull
<1>3. InvSlots'
  BY DEF TypeOK, InvSlots
<1>4. InvPointers'
  BY PointersKept DEF TypeOK, Watching
<1> QED  BY <1>1, <1>2, <1>3, <1>4

\* No slot changes.
LEMMA ReturnSlots ==
  ASSUME SInv, NEW t \in Threads, Return(t)
  PROVE  SInv'
<1> USE HazardAssumption DEF SInv, Return, Goto, tables, heap, locals, Pointers, Slots, NoHolder, Elsewhere
<1>1. TypeOK'
  BY DEF TypeOK, InvNull, InvSlots, Move, Places, Labels
<1>2. InvNull'
  BY DEF TypeOK, InvNull
<1>3. InvSlots'
  BY DEF TypeOK, InvSlots
<1>4. InvPointers'
  BY PointersKept DEF TypeOK, Watching
<1> QED  BY <1>1, <1>2, <1>3, <1>4

-----------------------------------------------------------------------------
(* The slots are private *)

\* Nobody owns a slot at first.
LEMMA SlotsInit == Init => SInv
<1> SUFFICES ASSUME Init PROVE SInv
  OBVIOUS
<1> USE HazardAssumption DEF Init, SInv, Pointers, Slots, NoHolder, Elsewhere
<1>1. TypeOK
  BY DEF TypeOK, Places, Labels
<1>2. InvNull /\ InvSlots /\ InvPointers
  BY DEF InvNull, InvSlots, InvPointers
<1> QED  BY <1>1, <1>2

\* Every step keeps the invariant, by the lemma about its action.
LEMMA SlotsStep == SInv /\ [Next]_vars => SInv'
<1> SUFFICES ASSUME SInv, [Next]_vars PROVE SInv'
  OBVIOUS
<1>1. Pushers \subseteq Threads /\ Poppers \subseteq Threads
  BY DEF Threads
<1>2. CASE UNCHANGED vars
  BY <1>2 DEF SInv, vars, tables, heap, locals, TypeOK, InvNull, InvSlots, InvPointers, Watching
<1>3. CASE \E t \in Pushers, v \in Values : PushStart(t, v)
  BY <1>1, <1>3, PushStartSlots
<1>4. CASE \E t \in Poppers : PopStart(t) \/ PopElsewhere(t) \/ ThreadExit(t)
  BY <1>1, <1>4, PopStartSlots, PopElsewhereSlots, ThreadExitSlots
<1>5. ASSUME NEW t \in Threads, Continue(t) PROVE SInv'
  <2>1. CASE PushCas(t) \/ PushCasFail(t) \/ ClaimSlot(t) \/ ClaimSlotTaken(t) \/ Catch(t)
    BY <2>1, PushCasSlots, PushCasFailSlots, ClaimSlotSlots, ClaimSlotTakenSlots, CatchSlots
  <2>2. CASE LoadTmp(t) \/ Publish(t) \/ Validate(t) \/ ReadNext(t)
    BY <2>2, LoadTmpSlots, PublishSlots, ValidateSlots, ReadNextSlots
  <2>3. CASE PopCas(t) \/ PopCasFail(t) \/ Clear(t) \/ Swap(t)
    BY <2>3, PopCasSlots, PopCasFailSlots, ClearSlots, SwapSlots
  <2>4. CASE Reclaim(t)
    BY <2>4, ScanSlots, DeleteSlots, AddLoadSlots, AddCasSlots, AddCasFailSlots, ExchangeSlots, ReadSuccSlots,
       ReturnSlots
    DEF Reclaim
  <2> QED  BY <1>5, <2>1, <2>2, <2>3, <2>4 DEF Continue
<1> QED  BY <1>2, <1>3, <1>4, <1>5 DEF Next

\* A slot is never shared, holds nothing once its thread has left the loops of
\* pop, and the constructor of a holder throws only if other threads have every
\* slot, whatever other stacks the program has.
THEOREM SlotsCorrect == Spec => []SlotsPrivate
<1>1. SInv => SlotsPrivate
  <2> SUFFICES ASSUME SInv PROVE SlotsPrivate
    OBVIOUS
  <2> USE DEF SInv, InvSlots, InvPointers, Watching, Slots, NoHolder
  <2>1. ASSUME NEW t \in Threads, pc[t] = "thrown", NEW i \in Slots PROVE id[i] \notin {NoThread, t}
    BY <2>1, HazardAssumption
  <2> QED  BY <2>1 DEF SlotsPrivate
<1> QED  BY <1>1, SlotsInit, SlotsStep, PTL DEF Spec

-----------------------------------------------------------------------------
(* The nodes, when the program has one stack *)

\* t removed a node from the stack and has not passed it on yet.
Owns(t) == \/ pc[t] \in {"clear", "swap"} /\ oldHead[t] # Null
           \/ pc[t] \in {"scan", "delete", "add_load", "add_cas"} /\ after[t] = "exchange"

Owned(t) == IF pc[t] \in {"clear", "swap"} THEN oldHead[t] ELSE node[t]

\* t is between validating its hazard pointer and the CAS that needs it.
Reads(t) == pc[t] \in {"read_next", "pop_cas"}

\* Each node is with the list or the thread its place names.
InvPlace ==
  /\ \A t \in Threads :
       /\ pc[t] = "push_cas" => place[newNode[t]] = "new"
       /\ Owns(t) => place[Owned(t)] = "popped"
       /\ pc[t] \in {"scan", "delete", "add_load", "add_cas", "read_succ"} /\ ~Owns(t) => node[t] \in mine[t]
       /\ \A n \in mine[t] : place[n] = "claimed"
       /\ pc[t] \notin {"scan", "delete", "add_load", "add_cas", "read_succ", "return"} => after[t] = "exchange"
       /\ after[t] = "exchange" /\ pc[t] # "read_succ" => nextNode[t] = Null /\ mine[t] = {}
       /\ pc[t] = "return" => mine[t] = {}
  /\ \A t, u \in Threads : t # u =>
       /\ pc[t] = "push_cas" /\ pc[u] = "push_cas" => newNode[t] # newNode[u]
       /\ Owns(t) /\ Owns(u) => Owned(t) # Owned(u)
       /\ mine[t] \cap mine[u] = {}

\* The list tryReclaim has yet to visit: from currentNode on, or from its
\* successor on once that is read.
RestSpells(t) ==
  /\ pc[t] = "read_succ" => Spells(node[t], next, mine[t])
  /\ pc[t] # "read_succ" /\ after[t] = "advance" => Spells(nextNode[t], next, mine[t] \ {node[t]})

\* The pointers spell out the stack, the nodes put aside and each rest.
InvSpells ==
  /\ Spells(head, next, In("stack"))
  /\ Spells(pending, next, In("pending"))
  /\ \A t \in Threads : RestSpells(t)

\* The node a thread has validated stays in its slot, so that nobody gets from
\* the scan to the delete of it: a scan that has passed the slot tests another
\* node.
InvHold ==
  \A t \in Threads :
    /\ holder[t] # Elsewhere
    /\ Watching(t) => holder[t] \in Slots
    /\ pc[t] = "validate" => pointer[holder[t]] = tmp[t]
    /\ Reads(t) => pointer[holder[t]] = oldHead[t] /\ place[oldHead[t]] \notin {"free", "new"}
    /\ \A u \in Threads : Reads(t) /\ pc[u] = "scan" /\ node[u] = oldHead[t] => holder[t] >= slot[u]
    /\ \A u \in Threads : Reads(t) /\ pc[u] = "delete" => node[u] # oldHead[t]

\* The successor a pop has read is current as long as the node is in the stack.
InvNext ==
  \A t \in Threads :
    pc[t] = "pop_cas" /\ place[oldHead[t]] = "stack" => desired[t] = next[oldHead[t]]

\* A node that is in no list is in the hands of a thread.
InvOwned ==
  \A n \in Nodes :
    /\ place[n] = "new" => \E t \in Threads : pc[t] = "push_cas" /\ newNode[t] = n
    /\ place[n] = "popped" => \E t \in Threads : Owns(t) /\ Owned(t) = n
    /\ place[n] = "claimed" => \E t \in Threads : n \in mine[t]

IInv == SInv /\ InvPlace /\ InvSpells /\ InvHold /\ InvNext /\ InvOwned

\* What the lists say of the pointers that begin them.
LEMMA Firsts ==
  ASSUME TypeOK, InvSpells
  PROVE  /\ DOMAIN next = Nodes /\ IsFiniteSet(DOMAIN next)
         /\ head # Null => /\ head \in Nodes /\ place[head] = "stack"
                           /\ Spells(next[head], next, In("stack") \ {head})
         /\ pending # Null => pending \in Nodes /\ place[pending] = "pending"
         /\ pending = Null => In("pending") = {}
         /\ \A t \in Threads : pc[t] = "read_succ" /\ node[t] # Null =>
              /\ node[t] \in mine[t]
              /\ Spells(next[node[t]], next, mine[t] \ {node[t]})
         /\ \A t \in Threads : pc[t] # "read_succ" /\ after[t] = "advance" =>
              /\ nextNode[t] # Null => nextNode[t] \in mine[t] /\ nextNode[t] # node[t]
              /\ nextNode[t] = Null => mine[t] \ {node[t]} = {}
<1>1. DOMAIN next = Nodes /\ IsFiniteSet(DOMAIN next) /\ Null \notin Nodes
  BY HazardAssumption DEF TypeOK
<1>2. head # Null => head \in Nodes /\ place[head] = "stack" /\ Spells(next[head], next, In("stack") \ {head})
  <2>1. Spells(head, next, In("stack")) /\ head \in Nodes \cup {Null}
    BY DEF InvSpells, TypeOK, Pointers
  <2>2. head # Null => head \in In("stack") /\ Spells(next[head], next, In("stack") \ {head})
    BY <1>1, <2>1, SpellsTail
  <2> QED  BY <2>2 DEF In
<1>3. pending # Null => pending \in Nodes /\ place[pending] = "pending"
  <2>1. Spells(pending, next, In("pending")) /\ pending \in Nodes \cup {Null}
    BY DEF InvSpells, TypeOK, Pointers
  <2>2. pending # Null => pending \in In("pending")
    BY <1>1, <2>1, SpellsTail
  <2> QED  BY <2>2 DEF In
<1>4. pending = Null => In("pending") = {}
  BY <1>1, SpellsNull DEF InvSpells
<1>5. ASSUME NEW t \in Threads, pc[t] = "read_succ", node[t] # Null
      PROVE  node[t] \in mine[t] /\ Spells(next[node[t]], next, mine[t] \ {node[t]})
  BY <1>1, <1>5, SpellsTail DEF InvSpells, RestSpells, TypeOK, Pointers
<1>6. ASSUME NEW t \in Threads, pc[t] # "read_succ", after[t] = "advance"
      PROVE  /\ nextNode[t] # Null => nextNode[t] \in mine[t] /\ nextNode[t] # node[t]
             /\ nextNode[t] = Null => mine[t] \ {node[t]} = {}
  <2>1. Spells(nextNode[t], next, mine[t] \ {node[t]})
    BY <1>6 DEF InvSpells, RestSpells
  <2>2. nextNode[t] # Null => nextNode[t] \in mine[t] \ {node[t]}
    BY <1>1, <2>1, SpellsTail DEF TypeOK, Pointers
  <2> QED  BY <1>1, <2>1, <2>2, SpellsNull
<1> QED  BY <1>1, <1>2, <1>3, <1>4, <1>5, <1>6

\* A list is kept if its nodes and their pointers are.
LEMMA KeptList ==
  ASSUME TypeOK, NEW p, NEW S, Spells(p, next, S), next' \in [Nodes -> Pointers],
         \A n \in S : next'[n] = next[n]
  PROVE  Spells(p, next', S) /\ NodesFrom(p, next') = NodesFrom(p, next)
BY SpellsKept, HazardAssumption DEF TypeOK

\* So is the rest of a thread's list.
LEMMA KeptRest ==
  ASSUME TypeOK, TypeOK', NEW t \in Threads, RestSpells(t),
         pc'[t] = pc[t], node'[t] = node[t], after'[t] = after[t], nextNode'[t] = nextNode[t], mine'[t] = mine[t],
         \A n \in mine[t] : next'[n] = next[n]
  PROVE  RestSpells(t)'
<1>1. next' \in [Nodes -> Pointers]
  BY DEF TypeOK
<1>2. \A n \in mine[t] \ {node[t]} : next'[n] = next[n]
  OBVIOUS
<1> QED  BY <1>1, <1>2, KeptList DEF RestSpells

\* No pointer changes, and no thread's rest does.
LEMMA RestsKept ==
  ASSUME InvSpells, next' = next,
         \A u \in Threads :
           \/ pc'[u] # "read_succ" /\ after'[u] # "advance"
           \/ /\ pc'[u] = "read_succ" <=> pc[u] = "read_succ"
              /\ node'[u] = node[u] /\ after'[u] = after[u] /\ nextNode'[u] = nextNode[u] /\ mine'[u] = mine[u]
  PROVE  \A u \in Threads : RestSpells(u)'
BY DEF InvSpells, RestSpells

\* In a step of t no other thread gets or loses a node.
OneMoves(t) ==
  \A u \in Threads \ {t} :
    /\ pc'[u] = pc[u] /\ newNode'[u] = newNode[u] /\ oldHead'[u] = oldHead[u]
    /\ node'[u] = node[u] /\ after'[u] = after[u] /\ mine'[u] = mine[u]

\* A step of t takes no node that is in its hands out of them.
NoneLost(t) ==
  \A n \in Nodes :
    /\ place'[n] = "new" => \/ place[n] = "new" /\ ~(pc[t] = "push_cas" /\ newNode[t] = n)
                            \/ pc'[t] = "push_cas" /\ newNode'[t] = n
    /\ place'[n] = "popped" => \/ place[n] = "popped" /\ ~(Owns(t) /\ Owned(t) = n)
                               \/ (Owns(t) /\ Owned(t) = n)'
    /\ place'[n] = "claimed" => \/ place[n] = "claimed" /\ n \notin mine[t]
                                \/ n \in mine'[t]

\* Such a step leaves every node that is in no list with its owner.
LEMMA HandsKept ==
  ASSUME InvOwned, NEW t \in Threads, OneMoves(t), NoneLost(t)
  PROVE  InvOwned'
<1> USE DEF OneMoves, NoneLost
<1> SUFFICES ASSUME NEW n \in Nodes
             PROVE  /\ place'[n] = "new" => \E u \in Threads : pc'[u] = "push_cas" /\ newNode'[u] = n
                    /\ place'[n] = "popped" => \E u \in Threads : (Owns(u) /\ Owned(u) = n)'
                    /\ place'[n] = "claimed" => \E u \in Threads : n \in mine'[u]
  BY DEF InvOwned
<1>1. \A u \in Threads \ {t} : (Owns(u) /\ Owned(u) = n)' <=> Owns(u) /\ Owned(u) = n
  BY DEF Owns, Owned
<1>2. place'[n] = "new" => \E u \in Threads : pc'[u] = "push_cas" /\ newNode'[u] = n
  BY DEF InvOwned
<1>3. place'[n] = "popped" => \E u \in Threads : (Owns(u) /\ Owned(u) = n)'
  BY <1>1 DEF InvOwned
<1>4. place'[n] = "claimed" => \E u \in Threads : n \in mine'[u]
  BY DEF InvOwned
<1> QED  BY <1>2, <1>3, <1>4


-----------------------------------------------------------------------------
(* Every action keeps the nodes where they belong *)

\* The new node is in no list and nobody holds it.
LEMMA PushStartInv ==
  ASSUME IInv, NEW t \in Threads, NEW v \in Values, PushStart(t, v)
  PROVE  IInv'
<1> USE HazardAssumption DEF PushStart, Goto, tables, heap, locals, Pointers, Slots, NoHolder, Elsewhere
<1>0. /\ SInv /\ SInv' /\ TypeOK /\ TypeOK' /\ InvNull /\ InvPlace /\ InvSpells /\ InvHold /\ InvNext /\ InvOwned
      /\ head # Null => /\ head \in Nodes /\ place[head] = "stack"
                        /\ Spells(next[head], next, In("stack") \ {head})
  BY PushStartSlots, Firsts DEF IInv, SInv
<1>1. InvPlace'
  BY <1>0, Firsts DEF TypeOK, InvNull, InvPlace, Owns, Owned, Move, In
<1>2. InvSpells'
  <2>1. PICK n \in Nodes : place[n] = "free" /\ Move({n}, "new") /\ next' = [next EXCEPT ![n] = head]
    OBVIOUS
  <2>2. UNCHANGED <<head, pending, node, after, nextNode, mine>> /\ pc[t] = "idle" /\ pc' = [pc EXCEPT ![t] = "push_cas"]
    OBVIOUS
  <2> HIDE DEF PushStart
  <2>3. /\ next' \in [Nodes -> Pointers] /\ \A u \in Threads : n \notin mine[u]
        /\ n \notin In("stack") /\ n \notin In("pending")
    BY <1>0, <2>1 DEF In, TypeOK, InvPlace
  <2>4. \A m \in Nodes \ {n} : next'[m] = next[m] /\ place'[m] = place[m]
    BY <1>0, <2>1 DEF TypeOK, Move
  <2>5. In("stack")' = In("stack") /\ In("pending")' = In("pending")
    BY <1>0, <2>1, <2>3 DEF In, Move
  <2>6. Spells(head, next', In("stack")) /\ Spells(pending, next', In("pending"))
    <3>1. \A m \in In("stack") \cup In("pending") : next'[m] = next[m]
      BY <2>3, <2>4 DEF In
    <3> QED  BY <1>0, <2>3, <3>1, KeptList DEF InvSpells
  <2>7. ASSUME NEW u \in Threads PROVE RestSpells(u)'
    <3>1. CASE u # t
      <4>1. pc'[u] = pc[u] /\ \A m \in mine[u] : next'[m] = next[m]
        BY <1>0, <2>2, <2>3, <2>4, <3>1 DEF TypeOK
      <4> QED  BY <1>0, <2>2, <4>1, KeptRest DEF InvSpells
    <3>2. CASE u = t
      <4>1. pc[t] = "idle" /\ pc'[t] = "push_cas" /\ after'[t] = "exchange"
        <5>1. pc[t] = "idle" /\ pc'[t] = "push_cas" /\ after' = after
          BY <1>0, <2>2 DEF TypeOK
        <5> QED  BY <1>0, <5>1 DEF InvPlace
      <4> QED  BY <3>2, <4>1 DEF RestSpells
    <3> QED  BY <3>1, <3>2
  <2> QED  BY <2>2, <2>5, <2>6, <2>7 DEF InvSpells
<1>3. InvHold'
  BY <1>0 DEF TypeOK, InvNull, SInv, InvSlots, InvPlace, InvHold, Reads, Watching, Owns, Owned, Move
<1>4. InvNext'
  BY <1>0 DEF TypeOK, InvNull, InvPlace, InvHold, InvNext, Reads, Owns, Owned, Move
<1>5. InvOwned'
  <2>1. OneMoves(t)
    BY <1>0 DEF TypeOK, OneMoves
  <2>2. NoneLost(t)
    BY <1>0, Firsts DEF TypeOK, InvNull, InvPlace, NoneLost, Owns, Owned, Move, In
  <2> QED  BY <1>0, <2>1, <2>2, HandsKept
<1> QED  BY <1>0, <1>1, <1>2, <1>3, <1>4, <1>5 DEF IInv

\* The new node becomes the first of the stack; its _next is the old head.
LEMMA PushCasInv ==
  ASSUME IInv, NEW t \in Threads, PushCas(t)
  PROVE  IInv'
<1> USE HazardAssumption DEF PushCas, Goto, tables, heap, locals, Pointers, Slots, NoHolder, Elsewhere
<1>0. /\ SInv /\ SInv' /\ TypeOK /\ TypeOK' /\ InvNull /\ InvPlace /\ InvSpells /\ InvHold /\ InvNext /\ InvOwned
      /\ head # Null => /\ head \in Nodes /\ place[head] = "stack"
                        /\ Spells(next[head], next, In("stack") \ {head})
  BY PushCasSlots, Firsts DEF IInv, SInv
<1>1. InvPlace'
  BY <1>0, Firsts DEF TypeOK, InvNull, InvPlace, Owns, Owned, Move, In
<1>2. InvSpells'
  <2>1. \A u \in Threads : RestSpells(u)'
    BY <1>0, RestsKept DEF TypeOK, InvPlace
  <2>2. newNode[t] \in Nodes /\ newNode[t] \notin In("stack") /\ next[newNode[t]] = head
    BY <1>0 DEF In, TypeOK, InvNull, InvPlace
  <2>3. In("stack")' = In("stack") \cup {newNode[t]} /\ In("pending")' = In("pending")
    BY <1>0, <2>2 DEF In, Move, InvPlace
  <2>4. Spells(head, next, In("stack")) /\ Spells(pending, next, In("pending"))
    BY <1>0 DEF InvSpells
  <2>5. head' = newNode[t] /\ pending' = pending /\ next' = next /\ IsFiniteSet(DOMAIN next) /\ newNode[t] \in DOMAIN next
    BY <1>0, <2>2 DEF TypeOK
  <2> HIDE DEF PushCas
  <2>6. Spells(newNode[t], next, In("stack") \cup {newNode[t]})
    BY <2>2, <2>4, <2>5, SpellsCons
  <2> QED  BY <2>1, <2>3, <2>4, <2>5, <2>6 DEF InvSpells
<1>3. InvHold'
  BY <1>0 DEF TypeOK, InvNull, SInv, InvSlots, InvPlace, InvHold, Reads, Watching, Owns, Owned, Move
<1>4. InvNext'
  BY <1>0 DEF TypeOK, InvNull, InvPlace, InvHold, InvNext, Reads, Owns, Owned, Move
<1>5. InvOwned'
  <2>1. OneMoves(t)
    BY <1>0 DEF TypeOK, OneMoves
  <2>2. NoneLost(t)
    BY <1>0, Firsts DEF TypeOK, InvNull, InvPlace, NoneLost, Owns, Owned, Move, In
  <2> QED  BY <1>0, <2>1, <2>2, HandsKept
<1> QED  BY <1>0, <1>1, <1>2, <1>3, <1>4, <1>5 DEF IInv

\* Only the _next of a node no other thread can reach changes.
LEMMA PushCasFailInv ==
  ASSUME IInv, NEW t \in Threads, PushCasFail(t)
  PROVE  IInv'
<1> USE HazardAssumption DEF PushCasFail, Goto, tables, heap, locals, Pointers, Slots, NoHolder, Elsewhere
<1>0. /\ SInv /\ SInv' /\ TypeOK /\ TypeOK' /\ InvNull /\ InvPlace /\ InvSpells /\ InvHold /\ InvNext /\ InvOwned
      /\ head # Null => /\ head \in Nodes /\ place[head] = "stack"
                        /\ Spells(next[head], next, In("stack") \ {head})
  BY PushCasFailSlots, Firsts DEF IInv, SInv
<1>1. InvPlace'
  BY <1>0, Firsts DEF TypeOK, InvNull, InvPlace, Owns, Owned, Move, In
<1>2. InvSpells'
  <2>1. next' = [next EXCEPT ![newNode[t]] = head] /\ UNCHANGED <<head, pending, place, node, after, nextNode, mine>>
    OBVIOUS
  <2>2. newNode[t] \in Nodes /\ newNode[t] \notin In("stack") /\ newNode[t] \notin In("pending") /\ \A u \in Threads \ {t} : newNode[t] \notin mine[u]
    BY <1>0 DEF In, TypeOK, InvNull, InvPlace, Owns, Owned
  <2>3. next' \in [Nodes -> Pointers] /\ \A n \in Nodes \ {newNode[t]} : next'[n] = next[n]
    BY <1>0, <2>1 DEF TypeOK
  <2>4. Spells(head, next', In("stack")) /\ Spells(pending, next', In("pending"))
    <3>1. \A n \in In("stack") \cup In("pending") : next'[n] = next[n]
      BY <2>2, <2>3 DEF In
    <3> QED  BY <1>0, <2>3, <3>1, KeptList DEF InvSpells
  <2>5. ASSUME NEW u \in Threads PROVE RestSpells(u)'
    <3>1. CASE u # t
      <4>1. pc'[u] = pc[u] /\ \A n \in mine[u] : next'[n] = next[n]
        BY <1>0, <2>2, <2>3, <3>1 DEF TypeOK
      <4> QED  BY <1>0, <2>1, <4>1, KeptRest DEF InvSpells
    <3>2. CASE u = t
      BY <1>0, <3>2 DEF RestSpells, InvPlace
    <3> QED  BY <3>1, <3>2
  <2> QED  BY <2>1, <2>4, <2>5 DEF InvSpells, In
<1>3. InvHold'
  BY <1>0 DEF TypeOK, InvNull, SInv, InvSlots, InvPlace, InvHold, Reads, Watching, Owns, Owned, Move
<1>4. InvNext'
  BY <1>0 DEF TypeOK, InvNull, InvPlace, InvHold, InvNext, Reads, Owns, Owned, Move
<1>5. InvOwned'
  <2>1. OneMoves(t)
    BY <1>0 DEF TypeOK, OneMoves
  <2>2. NoneLost(t)
    BY <1>0, Firsts DEF TypeOK, InvNull, InvPlace, NoneLost, Owns, Owned, Move, In
  <2> QED  BY <1>0, <2>1, <2>2, HandsKept
<1> QED  BY <1>0, <1>1, <1>2, <1>3, <1>4, <1>5 DEF IInv

\* A thread in pop has a slot of this stack.
LEMMA PopStartInv ==
  ASSUME IInv, NEW t \in Threads, PopStart(t)
  PROVE  IInv'
<1> USE HazardAssumption DEF PopStart, Goto, tables, heap, locals, Pointers, Slots, NoHolder, Elsewhere
<1>0. /\ SInv /\ SInv' /\ TypeOK /\ TypeOK' /\ InvNull /\ InvPlace /\ InvSpells /\ InvHold /\ InvNext /\ InvOwned
      /\ head # Null => /\ head \in Nodes /\ place[head] = "stack"
                        /\ Spells(next[head], next, In("stack") \ {head})
  BY PopStartSlots, Firsts DEF IInv, SInv
<1>1. InvPlace'
  BY <1>0, Firsts DEF TypeOK, InvNull, InvPlace, Owns, Owned, Move, In
<1>2. InvSpells'
  <2> USE <1>0 DEF TypeOK, InvNull, InvPlace, InvSpells
  <2>1. \A u \in Threads : RestSpells(u)'
    BY RestsKept
  <2> QED  BY <2>1 DEF In
<1>3. InvHold'
  BY <1>0 DEF TypeOK, InvNull, SInv, InvSlots, InvPlace, InvHold, Reads, Watching, Owns, Owned, Move
<1>4. InvNext'
  BY <1>0 DEF TypeOK, InvNull, InvPlace, InvHold, InvNext, Reads, Owns, Owned, Move
<1>5. InvOwned'
  <2>1. OneMoves(t)
    BY <1>0 DEF TypeOK, OneMoves
  <2>2. NoneLost(t)
    BY <1>0, Firsts DEF TypeOK, InvNull, InvPlace, NoneLost, Owns, Owned, Move, In
  <2> QED  BY <1>0, <2>1, <2>2, HandsKept
<1> QED  BY <1>0, <1>1, <1>2, <1>3, <1>4, <1>5 DEF IInv

\* A thread that exits has nothing in hand.
LEMMA ThreadExitInv ==
  ASSUME IInv, NEW t \in Threads, ThreadExit(t)
  PROVE  IInv'
<1> USE HazardAssumption DEF ThreadExit, Goto, tables, heap, locals, Pointers, Slots, NoHolder, Elsewhere
<1>0. /\ SInv /\ SInv' /\ TypeOK /\ TypeOK' /\ InvNull /\ InvPlace /\ InvSpells /\ InvHold /\ InvNext /\ InvOwned
      /\ head # Null => /\ head \in Nodes /\ place[head] = "stack"
                        /\ Spells(next[head], next, In("stack") \ {head})
  BY ThreadExitSlots, Firsts DEF IInv, SInv
<1>1. InvPlace'
  BY <1>0, Firsts DEF TypeOK, InvNull, InvPlace, Owns, Owned, Move, In
<1>2. InvSpells'
  <2> USE <1>0 DEF TypeOK, InvNull, InvPlace, InvSpells
  <2>1. \A u \in Threads : RestSpells(u)'
    BY RestsKept
  <2> QED  BY <2>1 DEF In
<1>3. InvHold'
  BY <1>0 DEF TypeOK, InvNull, SInv, InvSlots, InvPlace, InvHold, Reads, Watching, Owns, Owned, Move
<1>4. InvNext'
  BY <1>0 DEF TypeOK, InvNull, InvPlace, InvHold, InvNext, Reads, Owns, Owned, Move
<1>5. InvOwned'
  <2>1. OneMoves(t)
    BY <1>0 DEF TypeOK, OneMoves
  <2>2. NoneLost(t)
    BY <1>0, Firsts DEF TypeOK, InvNull, InvPlace, NoneLost, Owns, Owned, Move, In
  <2> QED  BY <1>0, <2>1, <2>2, HandsKept
<1> QED  BY <1>0, <1>1, <1>2, <1>3, <1>4, <1>5 DEF IInv

\* A thread in pop has a slot of this stack.
LEMMA ClaimSlotInv ==
  ASSUME IInv, NEW t \in Threads, ClaimSlot(t)
  PROVE  IInv'
<1> USE HazardAssumption DEF ClaimSlot, Goto, tables, heap, locals, Pointers, Slots, NoHolder, Elsewhere
<1>0. /\ SInv /\ SInv' /\ TypeOK /\ TypeOK' /\ InvNull /\ InvPlace /\ InvSpells /\ InvHold /\ InvNext /\ InvOwned
      /\ head # Null => /\ head \in Nodes /\ place[head] = "stack"
                        /\ Spells(next[head], next, In("stack") \ {head})
  BY ClaimSlotSlots, Firsts DEF IInv, SInv
<1>1. InvPlace'
  BY <1>0, Firsts DEF TypeOK, InvNull, InvPlace, Owns, Owned, Move, In
<1>2. InvSpells'
  <2> USE <1>0 DEF TypeOK, InvNull, InvPlace, InvSpells
  <2>1. \A u \in Threads : RestSpells(u)'
    BY RestsKept
  <2> QED  BY <2>1 DEF In
<1>3. InvHold'
  BY <1>0 DEF TypeOK, InvNull, SInv, InvSlots, InvPlace, InvHold, Reads, Watching, Owns, Owned, Move
<1>4. InvNext'
  BY <1>0 DEF TypeOK, InvNull, InvPlace, InvHold, InvNext, Reads, Owns, Owned, Move
<1>5. InvOwned'
  <2>1. OneMoves(t)
    BY <1>0 DEF TypeOK, OneMoves
  <2>2. NoneLost(t)
    BY <1>0, Firsts DEF TypeOK, InvNull, InvPlace, NoneLost, Owns, Owned, Move, In
  <2> QED  BY <1>0, <2>1, <2>2, HandsKept
<1> QED  BY <1>0, <1>1, <1>2, <1>3, <1>4, <1>5 DEF IInv

\* Nothing is in hand yet.
LEMMA ClaimSlotTakenInv ==
  ASSUME IInv, NEW t \in Threads, ClaimSlotTaken(t)
  PROVE  IInv'
<1> USE HazardAssumption DEF ClaimSlotTaken, Goto, tables, heap, locals, Pointers, Slots, NoHolder, Elsewhere
<1>0. /\ SInv /\ SInv' /\ TypeOK /\ TypeOK' /\ InvNull /\ InvPlace /\ InvSpells /\ InvHold /\ InvNext /\ InvOwned
      /\ head # Null => /\ head \in Nodes /\ place[head] = "stack"
                        /\ Spells(next[head], next, In("stack") \ {head})
  BY ClaimSlotTakenSlots, Firsts DEF IInv, SInv
<1>1. InvPlace'
  BY <1>0, Firsts DEF TypeOK, InvNull, InvPlace, Owns, Owned, Move, In
<1>2. InvSpells'
  <2> USE <1>0 DEF TypeOK, InvNull, InvPlace, InvSpells
  <2>1. \A u \in Threads : RestSpells(u)'
    BY RestsKept
  <2> QED  BY <2>1 DEF In
<1>3. InvHold'
  BY <1>0 DEF TypeOK, InvNull, SInv, InvSlots, InvPlace, InvHold, Reads, Watching, Owns, Owned, Move
<1>4. InvNext'
  BY <1>0 DEF TypeOK, InvNull, InvPlace, InvHold, InvNext, Reads, Owns, Owned, Move
<1>5. InvOwned'
  <2>1. OneMoves(t)
    BY <1>0 DEF TypeOK, OneMoves
  <2>2. NoneLost(t)
    BY <1>0, Firsts DEF TypeOK, InvNull, InvPlace, NoneLost, Owns, Owned, Move, In
  <2> QED  BY <1>0, <2>1, <2>2, HandsKept
<1> QED  BY <1>0, <1>1, <1>2, <1>3, <1>4, <1>5 DEF IInv

\* Nothing is in hand.
LEMMA CatchInv ==
  ASSUME IInv, NEW t \in Threads, Catch(t)
  PROVE  IInv'
<1> USE HazardAssumption DEF Catch, Goto, tables, heap, locals, Pointers, Slots, NoHolder, Elsewhere
<1>0. /\ SInv /\ SInv' /\ TypeOK /\ TypeOK' /\ InvNull /\ InvPlace /\ InvSpells /\ InvHold /\ InvNext /\ InvOwned
      /\ head # Null => /\ head \in Nodes /\ place[head] = "stack"
                        /\ Spells(next[head], next, In("stack") \ {head})
  BY CatchSlots, Firsts DEF IInv, SInv
<1>1. InvPlace'
  BY <1>0, Firsts DEF TypeOK, InvNull, InvPlace, Owns, Owned, Move, In
<1>2. InvSpells'
  <2> USE <1>0 DEF TypeOK, InvNull, InvPlace, InvSpells
  <2>1. \A u \in Threads : RestSpells(u)'
    BY RestsKept
  <2> QED  BY <2>1 DEF In
<1>3. InvHold'
  BY <1>0 DEF TypeOK, InvNull, SInv, InvSlots, InvPlace, InvHold, Reads, Watching, Owns, Owned, Move
<1>4. InvNext'
  BY <1>0 DEF TypeOK, InvNull, InvPlace, InvHold, InvNext, Reads, Owns, Owned, Move
<1>5. InvOwned'
  <2>1. OneMoves(t)
    BY <1>0 DEF TypeOK, OneMoves
  <2>2. NoneLost(t)
    BY <1>0, Firsts DEF TypeOK, InvNull, InvPlace, NoneLost, Owns, Owned, Move, In
  <2> QED  BY <1>0, <2>1, <2>2, HandsKept
<1> QED  BY <1>0, <1>1, <1>2, <1>3, <1>4, <1>5 DEF IInv

\* The node in the slot may be stale still.
LEMMA LoadTmpInv ==
  ASSUME IInv, NEW t \in Threads, LoadTmp(t)
  PROVE  IInv'
<1> USE HazardAssumption DEF LoadTmp, Goto, tables, heap, locals, Pointers, Slots, NoHolder, Elsewhere
<1>0. /\ SInv /\ SInv' /\ TypeOK /\ TypeOK' /\ InvNull /\ InvPlace /\ InvSpells /\ InvHold /\ InvNext /\ InvOwned
      /\ head # Null => /\ head \in Nodes /\ place[head] = "stack"
                        /\ Spells(next[head], next, In("stack") \ {head})
  BY LoadTmpSlots, Firsts DEF IInv, SInv
<1>1. InvPlace'
  BY <1>0, Firsts DEF TypeOK, InvNull, InvPlace, Owns, Owned, Move, In
<1>2. InvSpells'
  <2> USE <1>0 DEF TypeOK, InvNull, InvPlace, InvSpells
  <2>1. \A u \in Threads : RestSpells(u)'
    BY RestsKept
  <2> QED  BY <2>1 DEF In
<1>3. InvHold'
  BY <1>0 DEF TypeOK, InvNull, SInv, InvSlots, InvPlace, InvHold, Reads, Watching, Owns, Owned, Move
<1>4. InvNext'
  BY <1>0 DEF TypeOK, InvNull, InvPlace, InvHold, InvNext, Reads, Owns, Owned, Move
<1>5. InvOwned'
  <2>1. OneMoves(t)
    BY <1>0 DEF TypeOK, OneMoves
  <2>2. NoneLost(t)
    BY <1>0, Firsts DEF TypeOK, InvNull, InvPlace, NoneLost, Owns, Owned, Move, In
  <2> QED  BY <1>0, <2>1, <2>2, HandsKept
<1> QED  BY <1>0, <1>1, <1>2, <1>3, <1>4, <1>5 DEF IInv

\* Nobody else writes the slot until the thread clears it.
LEMMA PublishInv ==
  ASSUME IInv, NEW t \in Threads, Publish(t)
  PROVE  IInv'
<1> USE HazardAssumption DEF Publish, Goto, SetPointer, tables, heap, locals, Pointers, Slots, NoHolder, Elsewhere
<1>0. /\ SInv /\ SInv' /\ TypeOK /\ TypeOK' /\ InvNull /\ InvPlace /\ InvSpells /\ InvHold /\ InvNext /\ InvOwned
      /\ head # Null => /\ head \in Nodes /\ place[head] = "stack"
                        /\ Spells(next[head], next, In("stack") \ {head})
  BY PublishSlots, Firsts DEF IInv, SInv
<1>1. InvPlace'
  BY <1>0, Firsts DEF TypeOK, InvNull, InvPlace, Owns, Owned, Move, In
<1>2. InvSpells'
  <2> USE <1>0 DEF TypeOK, InvNull, InvPlace, InvSpells
  <2>1. \A u \in Threads : RestSpells(u)'
    BY RestsKept
  <2> QED  BY <2>1 DEF In
<1>3. InvHold'
  BY <1>0 DEF TypeOK, InvNull, SInv, InvSlots, InvPlace, InvHold, Reads, Watching, Owns, Owned, Move
<1>4. InvNext'
  BY <1>0 DEF TypeOK, InvNull, InvPlace, InvHold, InvNext, Reads, Owns, Owned, Move
<1>5. InvOwned'
  <2>1. OneMoves(t)
    BY <1>0 DEF TypeOK, OneMoves
  <2>2. NoneLost(t)
    BY <1>0, Firsts DEF TypeOK, InvNull, InvPlace, NoneLost, Owns, Owned, Move, In
  <2> QED  BY <1>0, <2>1, <2>2, HandsKept
<1> QED  BY <1>0, <1>1, <1>2, <1>3, <1>4, <1>5 DEF IInv

\* A node that is still the head is in the stack, so nobody is about to delete it.
LEMMA ValidateInv ==
  ASSUME IInv, NEW t \in Threads, Validate(t)
  PROVE  IInv'
<1> USE HazardAssumption DEF Validate, Goto, tables, heap, locals, Pointers, Slots, NoHolder, Elsewhere
<1>0. /\ SInv /\ SInv' /\ TypeOK /\ TypeOK' /\ InvNull /\ InvPlace /\ InvSpells /\ InvHold /\ InvNext /\ InvOwned
      /\ head # Null => /\ head \in Nodes /\ place[head] = "stack"
                        /\ Spells(next[head], next, In("stack") \ {head})
  BY ValidateSlots, Firsts DEF IInv, SInv
<1>1. InvPlace'
  BY <1>0, Firsts DEF TypeOK, InvNull, InvPlace, Owns, Owned, Move, In
<1>2. InvSpells'
  <2> USE <1>0 DEF TypeOK, InvNull, InvPlace, InvSpells
  <2>1. \A u \in Threads : RestSpells(u)'
    BY RestsKept
  <2> QED  BY <2>1 DEF In
<1>3. InvHold'
  <2>1. ASSUME NEW u \in Threads, pc[u] \in {"scan", "delete"} PROVE place[node[u]] # "stack"
    <3>1. CASE Owns(u)
      BY <1>0, <2>1, <3>1 DEF InvPlace, Owned
    <3>2. CASE ~Owns(u)
      BY <1>0, <2>1, <3>2 DEF InvPlace
    <3> QED  BY <3>1, <3>2
  <2>2. \A u \in Threads \ {t} : pc'[u] = pc[u] /\ oldHead'[u] = oldHead[u] /\ tmp'[u] = tmp[u]
    BY <1>0 DEF TypeOK
  <2>3. /\ pc[t] = "validate" /\ pc'[t] \in {"load_tmp", "clear", "read_next"}
        /\ UNCHANGED <<holder, pointer, place, node, slot>>
        /\ pc'[t] = "read_next" => head # Null /\ oldHead'[t] = head /\ head = tmp[t]
    BY <1>0 DEF TypeOK
  <2> QED  BY <1>0, <2>1, <2>2, <2>3 DEF InvHold, Reads, Watching
<1>4. InvNext'
  BY <1>0 DEF TypeOK, InvNull, InvPlace, InvHold, InvNext, Reads, Owns, Owned, Move
<1>5. InvOwned'
  <2>1. OneMoves(t)
    BY <1>0 DEF TypeOK, OneMoves
  <2>2. NoneLost(t)
    BY <1>0, Firsts DEF TypeOK, InvNull, InvPlace, NoneLost, Owns, Owned, Move, In
  <2> QED  BY <1>0, <2>1, <2>2, HandsKept
<1> QED  BY <1>0, <1>1, <1>2, <1>3, <1>4, <1>5 DEF IInv

\* The successor is current if the node is still in the stack.
LEMMA ReadNextInv ==
  ASSUME IInv, NEW t \in Threads, ReadNext(t)
  PROVE  IInv'
<1> USE HazardAssumption DEF ReadNext, Goto, tables, heap, locals, Pointers, Slots, NoHolder, Elsewhere
<1>0. /\ SInv /\ SInv' /\ TypeOK /\ TypeOK' /\ InvNull /\ InvPlace /\ InvSpells /\ InvHold /\ InvNext /\ InvOwned
      /\ head # Null => /\ head \in Nodes /\ place[head] = "stack"
                        /\ Spells(next[head], next, In("stack") \ {head})
  BY ReadNextSlots, Firsts DEF IInv, SInv
<1>1. InvPlace'
  BY <1>0, Firsts DEF TypeOK, InvNull, InvPlace, Owns, Owned, Move, In
<1>2. InvSpells'
  <2> USE <1>0 DEF TypeOK, InvNull, InvPlace, InvSpells
  <2>1. \A u \in Threads : RestSpells(u)'
    BY RestsKept
  <2> QED  BY <2>1 DEF In
<1>3. InvHold'
  BY <1>0 DEF TypeOK, InvNull, SInv, InvSlots, InvPlace, InvHold, Reads, Watching, Owns, Owned, Move
<1>4. InvNext'
  BY <1>0 DEF TypeOK, InvNull, InvPlace, InvHold, InvNext, Reads, Owns, Owned, Move
<1>5. InvOwned'
  <2>1. OneMoves(t)
    BY <1>0 DEF TypeOK, OneMoves
  <2>2. NoneLost(t)
    BY <1>0, Firsts DEF TypeOK, InvNull, InvPlace, NoneLost, Owns, Owned, Move, In
  <2> QED  BY <1>0, <2>1, <2>2, HandsKept
<1> QED  BY <1>0, <1>1, <1>2, <1>3, <1>4, <1>5 DEF IInv

\* The node leaves the stack; the threads that hold it keep it in their slots.
LEMMA PopCasInv ==
  ASSUME IInv, NEW t \in Threads, PopCas(t)
  PROVE  IInv'
<1> USE HazardAssumption DEF PopCas, Goto, tables, heap, locals, Pointers, Slots, NoHolder, Elsewhere
<1>0. /\ SInv /\ SInv' /\ TypeOK /\ TypeOK' /\ InvNull /\ InvPlace /\ InvSpells /\ InvHold /\ InvNext /\ InvOwned
      /\ head # Null => /\ head \in Nodes /\ place[head] = "stack"
                        /\ Spells(next[head], next, In("stack") \ {head})
  BY PopCasSlots, Firsts DEF IInv, SInv
<1>1. InvPlace'
  BY <1>0, Firsts DEF TypeOK, InvNull, InvPlace, Owns, Owned, Move, In
<1>2. InvSpells'
  <2>1. \A u \in Threads : RestSpells(u)'
    BY <1>0, RestsKept DEF TypeOK, InvPlace
  <2>2. head = oldHead[t] /\ head # Null /\ head \in Nodes /\ head' = next[head] /\ next' = next /\ pending' = pending
    BY <1>0 DEF TypeOK, InvNull, InvNext
  <2>3. In("stack")' = In("stack") \ {head} /\ In("pending")' = In("pending")
    BY <1>0, <2>2 DEF In, Move
  <2> QED  BY <1>0, <2>1, <2>2, <2>3 DEF InvSpells
<1>3. InvHold'
  BY <1>0 DEF TypeOK, InvNull, SInv, InvSlots, InvPlace, InvHold, Reads, Watching, Owns, Owned, Move
<1>4. InvNext'
  BY <1>0 DEF TypeOK, InvNull, InvPlace, InvHold, InvNext, Reads, Owns, Owned, Move
<1>5. InvOwned'
  <2>1. OneMoves(t)
    BY <1>0 DEF TypeOK, OneMoves
  <2>2. NoneLost(t)
    BY <1>0, Firsts DEF TypeOK, InvNull, InvPlace, NoneLost, Owns, Owned, Move, In
  <2> QED  BY <1>0, <2>1, <2>2, HandsKept
<1> QED  BY <1>0, <1>1, <1>2, <1>3, <1>4, <1>5 DEF IInv

\* The thread lets its node go.
LEMMA PopCasFailInv ==
  ASSUME IInv, NEW t \in Threads, PopCasFail(t)
  PROVE  IInv'
<1> USE HazardAssumption DEF PopCasFail, Goto, tables, heap, locals, Pointers, Slots, NoHolder, Elsewhere
<1>0. /\ SInv /\ SInv' /\ TypeOK /\ TypeOK' /\ InvNull /\ InvPlace /\ InvSpells /\ InvHold /\ InvNext /\ InvOwned
      /\ head # Null => /\ head \in Nodes /\ place[head] = "stack"
                        /\ Spells(next[head], next, In("stack") \ {head})
  BY PopCasFailSlots, Firsts DEF IInv, SInv
<1>1. InvPlace'
  BY <1>0, Firsts DEF TypeOK, InvNull, InvPlace, Owns, Owned, Move, In
<1>2. InvSpells'
  <2> USE <1>0 DEF TypeOK, InvNull, InvPlace, InvSpells
  <2>1. \A u \in Threads : RestSpells(u)'
    BY RestsKept
  <2> QED  BY <2>1 DEF In
<1>3. InvHold'
  BY <1>0 DEF TypeOK, InvNull, SInv, InvSlots, InvPlace, InvHold, Reads, Watching, Owns, Owned, Move
<1>4. InvNext'
  BY <1>0 DEF TypeOK, InvNull, InvPlace, InvHold, InvNext, Reads, Owns, Owned, Move
<1>5. InvOwned'
  <2>1. OneMoves(t)
    BY <1>0 DEF TypeOK, OneMoves
  <2>2. NoneLost(t)
    BY <1>0, Firsts DEF TypeOK, InvNull, InvPlace, NoneLost, Owns, Owned, Move, In
  <2> QED  BY <1>0, <2>1, <2>2, HandsKept
<1> QED  BY <1>0, <1>1, <1>2, <1>3, <1>4, <1>5 DEF IInv

\* The thread that removed a node no longer needs its slot.
LEMMA ClearInv ==
  ASSUME IInv, NEW t \in Threads, Clear(t)
  PROVE  IInv'
<1> USE HazardAssumption DEF Clear, Goto, SetPointer, tables, heap, locals, Pointers, Slots, NoHolder, Elsewhere
<1>0. /\ SInv /\ SInv' /\ TypeOK /\ TypeOK' /\ InvNull /\ InvPlace /\ InvSpells /\ InvHold /\ InvNext /\ InvOwned
      /\ head # Null => /\ head \in Nodes /\ place[head] = "stack"
                        /\ Spells(next[head], next, In("stack") \ {head})
  BY ClearSlots, Firsts DEF IInv, SInv
<1>1. InvPlace'
  BY <1>0, Firsts DEF TypeOK, InvNull, InvPlace, Owns, Owned, Move, In
<1>2. InvSpells'
  <2> USE <1>0 DEF TypeOK, InvNull, InvPlace, InvSpells
  <2>1. \A u \in Threads : RestSpells(u)'
    BY RestsKept
  <2> QED  BY <2>1 DEF In
<1>3. InvHold'
  BY <1>0 DEF TypeOK, InvNull, SInv, InvSlots, InvPlace, InvHold, Reads, Watching, Owns, Owned, Move
<1>4. InvNext'
  BY <1>0 DEF TypeOK, InvNull, InvPlace, InvHold, InvNext, Reads, Owns, Owned, Move
<1>5. InvOwned'
  <2>1. OneMoves(t)
    BY <1>0 DEF TypeOK, OneMoves
  <2>2. NoneLost(t)
    BY <1>0, Firsts DEF TypeOK, InvNull, InvPlace, NoneLost, Owns, Owned, Move, In
  <2> QED  BY <1>0, <2>1, <2>2, HandsKept
<1> QED  BY <1>0, <1>1, <1>2, <1>3, <1>4, <1>5 DEF IInv

\* The node to be tested is the one that was popped.
LEMMA SwapInv ==
  ASSUME IInv, NEW t \in Threads, Swap(t)
  PROVE  IInv'
<1> USE HazardAssumption DEF Swap, Goto, tables, heap, locals, Pointers, Slots, NoHolder, Elsewhere
<1>0. /\ SInv /\ SInv' /\ TypeOK /\ TypeOK' /\ InvNull /\ InvPlace /\ InvSpells /\ InvHold /\ InvNext /\ InvOwned
      /\ head # Null => /\ head \in Nodes /\ place[head] = "stack"
                        /\ Spells(next[head], next, In("stack") \ {head})
  BY SwapSlots, Firsts DEF IInv, SInv
<1>1. InvPlace'
  BY <1>0, Firsts DEF TypeOK, InvNull, InvPlace, Owns, Owned, Move, In
<1>2. InvSpells'
  <2> USE <1>0 DEF TypeOK, InvNull, InvPlace, InvSpells
  <2>1. \A u \in Threads : RestSpells(u)'
    BY RestsKept
  <2> QED  BY <2>1 DEF In
<1>3. InvHold'
  <2>1. slot'[t] = 1 /\ \A u \in Threads : Reads(u) => holder[u] >= 1
    BY <1>0 DEF SInv, InvSlots, InvHold, Reads, Watching
  <2>2. \A u \in Threads \ {t} : pc'[u] = pc[u] /\ node'[u] = node[u]
    BY <1>0 DEF TypeOK
  <2>3. pc'[t] = "scan" /\ UNCHANGED <<holder, pointer, place, tmp, oldHead, slot>>
    BY <1>0 DEF TypeOK
  <2> QED  BY <1>0, <2>1, <2>2, <2>3 DEF InvHold, Reads, Watching
<1>4. InvNext'
  BY <1>0 DEF TypeOK, InvNull, InvPlace, InvHold, InvNext, Reads, Owns, Owned, Move
<1>5. InvOwned'
  <2>1. OneMoves(t)
    BY <1>0 DEF TypeOK, OneMoves
  <2>2. NoneLost(t)
    BY <1>0, Firsts DEF TypeOK, InvNull, InvPlace, NoneLost, Owns, Owned, Move, In
  <2> QED  BY <1>0, <2>1, <2>2, HandsKept
<1> QED  BY <1>0, <1>1, <1>2, <1>3, <1>4, <1>5 DEF IInv

\* A scan that goes past a slot has seen another node in it.
LEMMA ScanInv ==
  ASSUME IInv, NEW t \in Threads, Scan(t)
  PROVE  IInv'
<1> USE HazardAssumption DEF Scan, Goto, tables, heap, locals, Pointers, Slots, NoHolder, Elsewhere
<1>0. /\ SInv /\ SInv' /\ TypeOK /\ TypeOK' /\ InvNull /\ InvPlace /\ InvSpells /\ InvHold /\ InvNext /\ InvOwned
      /\ head # Null => /\ head \in Nodes /\ place[head] = "stack"
                        /\ Spells(next[head], next, In("stack") \ {head})
  BY ScanSlots, Firsts DEF IInv, SInv
<1>1. InvPlace'
  BY <1>0, Firsts DEF TypeOK, InvNull, InvPlace, Owns, Owned, Move, In
<1>2. InvSpells'
  <2> USE <1>0 DEF TypeOK, InvNull, InvPlace, InvSpells
  <2>1. \A u \in Threads : RestSpells(u)'
    BY RestsKept
  <2> QED  BY <2>1 DEF In
<1>3. InvHold'
  BY <1>0 DEF TypeOK, InvNull, SInv, InvSlots, InvPlace, InvHold, Reads, Watching, Owns, Owned, Move
<1>4. InvNext'
  BY <1>0 DEF TypeOK, InvNull, InvPlace, InvHold, InvNext, Reads, Owns, Owned, Move
<1>5. InvOwned'
  <2>1. OneMoves(t)
    BY <1>0 DEF TypeOK, OneMoves
  <2>2. NoneLost(t)
    BY <1>0, Firsts DEF TypeOK, InvNull, InvPlace, NoneLost, Owns, Owned, Move, In
  <2> QED  BY <1>0, <2>1, <2>2, HandsKept
<1> QED  BY <1>0, <1>1, <1>2, <1>3, <1>4, <1>5 DEF IInv

\* A node that is freed is in nobody's slot.
LEMMA DeleteInv ==
  ASSUME IInv, NEW t \in Threads, Delete(t)
  PROVE  IInv'
<1> USE HazardAssumption DEF Delete, Goto, Proceed, tables, heap, locals, Pointers, Slots, NoHolder, Elsewhere
<1>0. /\ SInv /\ SInv' /\ TypeOK /\ TypeOK' /\ InvNull /\ InvPlace /\ InvSpells /\ InvHold /\ InvNext /\ InvOwned
      /\ head # Null => /\ head \in Nodes /\ place[head] = "stack"
                        /\ Spells(next[head], next, In("stack") \ {head})
  BY DeleteSlots, Firsts DEF IInv, SInv
<1>1. InvPlace'
  <2>1. node[t] \in Nodes /\ place' = [place EXCEPT ![node[t]] = "free"]
    <3>1. node[t] \in Nodes
      BY <1>0 DEF TypeOK, InvNull
    <3> QED  BY <1>0, <3>1 DEF TypeOK, Move
  <2>2. \A u \in Threads \ {t} : /\ pc'[u] = pc[u] /\ node'[u] = node[u] /\ mine'[u] = mine[u]
                                 /\ nextNode'[u] = nextNode[u] /\ after'[u] = after[u]
                                 /\ newNode'[u] = newNode[u] /\ oldHead'[u] = oldHead[u]
    BY <1>0 DEF TypeOK
  <2>3. /\ mine'[t] = mine[t] \ {node[t]} /\ node'[t] = nextNode[t] /\ nextNode'[t] = Null /\ after'[t] = after[t]
        /\ pc'[t] \in {"exchange", "return", "read_succ"} /\ ~(Owns(t)')
    BY <1>0 DEF TypeOK, Owns
  <2>4. CASE after[t] = "exchange"
    <3>1. Owns(t) /\ Owned(t) = node[t] /\ place[node[t]] = "popped" /\ mine[t] = {} /\ pc'[t] = "exchange"
      <4>1. pc[t] = "delete" /\ pc'[t] = "exchange"
        BY <1>0, <2>4 DEF TypeOK
      <4>2. Owns(t) /\ Owned(t) = node[t]
        BY <2>4, <4>1 DEF Owns, Owned
      <4> QED  BY <1>0, <2>4, <4>1, <4>2 DEF InvPlace
    <3>2. \A u \in Threads \ {t} : /\ node[t] \notin mine[u]
                                   /\ pc[u] = "push_cas" => newNode[u] # node[t]
                                   /\ Owns(u) => Owned(u) # node[t]
      BY <1>0, <3>1 DEF InvPlace
    <3>3. \A u \in Threads \ {t} : (Owns(u) <=> Owns(u)') /\ Owned(u) = Owned(u)'
      BY <2>2 DEF Owns, Owned
    <3> QED  BY <1>0, <2>1, <2>2, <2>3, <2>4, <3>1, <3>2, <3>3 DEF TypeOK, InvPlace
  <2>5. CASE after[t] = "advance"
    <3>1. ~Owns(t) /\ node[t] \in mine[t] /\ place[node[t]] = "claimed"
      <4>1. pc[t] = "delete" /\ ~Owns(t)
        BY <1>0, <2>5 DEF Owns
      <4> QED  BY <1>0, <4>1 DEF InvPlace
    <3>2. /\ pc'[t] = "read_succ" => node'[t] \in mine'[t]
          /\ pc'[t] = "return" => mine'[t] = {}
          /\ pc'[t] \in {"read_succ", "return"}
      BY <1>0, <2>3, <2>5, Firsts DEF TypeOK
    <3>3. \A u \in Threads \ {t} : /\ node[t] \notin mine[u]
                                   /\ pc[u] = "push_cas" => newNode[u] # node[t]
                                   /\ Owns(u) => Owned(u) # node[t]
      BY <1>0, <3>1 DEF InvPlace
    <3>4. \A u \in Threads \ {t} : (Owns(u) <=> Owns(u)') /\ Owned(u) = Owned(u)'
      BY <2>2 DEF Owns, Owned
    <3> QED  BY <1>0, <2>1, <2>2, <2>3, <2>5, <3>1, <3>2, <3>3, <3>4 DEF TypeOK, InvPlace
  <2> QED  BY <1>0, <2>4, <2>5 DEF TypeOK
<1>2. InvSpells'
  <2>1. In("stack")' = In("stack") /\ In("pending")' = In("pending")
    <3>1. place[node[t]] \in {"popped", "claimed"} /\ place' = [n \in Nodes |-> IF n \in {node[t]} THEN "free" ELSE place[n]]
      BY <1>0 DEF InvPlace, Owns, Owned, Move
    <3> QED  BY <3>1 DEF In
  <2>2. ASSUME NEW u \in Threads PROVE RestSpells(u)'
    <3>0. RestSpells(u) /\ next' = next
      BY <1>0 DEF InvSpells
    <3>1. CASE u # t
      <4>1. pc'[u] = pc[u] /\ node'[u] = node[u] /\ after'[u] = after[u] /\ nextNode'[u] = nextNode[u] /\ mine'[u] = mine[u]
        BY <1>0, <3>1 DEF TypeOK
      <4> QED  BY <3>0, <4>1 DEF RestSpells
    <3>2. CASE u = t /\ after[t] = "exchange"
      BY <1>0, <3>2 DEF RestSpells, TypeOK
    <3>3. CASE u = t /\ after[t] = "advance"
      <4>1. Spells(nextNode[t], next, mine[t] \ {node[t]}) /\ (nextNode[t] = Null => mine[t] \ {node[t]} = {})
        BY <1>0, <3>0, <3>3, Firsts DEF RestSpells
      <4>2. /\ node'[t] = nextNode[t] /\ mine'[t] = mine[t] \ {node[t]} /\ nextNode'[t] = Null
            /\ pc'[t] = IF nextNode[t] = Null THEN "return" ELSE "read_succ"
        BY <1>0, <3>3 DEF TypeOK
      <4>3. nextNode[t] = Null => mine'[t] = {} /\ mine'[t] \ {node'[t]} = {}
        BY <4>1, <4>2
      <4> QED  BY <3>0, <3>3, <4>1, <4>2, <4>3 DEF RestSpells
    <3> QED  BY <1>0, <3>1, <3>2, <3>3 DEF TypeOK
  <2> QED  BY <1>0, <2>1, <2>2 DEF InvSpells
<1>3. InvHold'
  BY <1>0 DEF TypeOK, InvNull, SInv, InvSlots, InvPlace, InvHold, Reads, Watching, Owns, Owned, Move
<1>4. InvNext'
  BY <1>0 DEF TypeOK, InvNull, InvPlace, InvHold, InvNext, Reads, Owns, Owned, Move
<1>5. InvOwned'
  <2>1. OneMoves(t)
    BY <1>0 DEF TypeOK, OneMoves
  <2>2. NoneLost(t)
    BY <1>0, Firsts DEF TypeOK, InvNull, InvPlace, NoneLost, Owns, Owned, Move, In
  <2> QED  BY <1>0, <2>1, <2>2, HandsKept
<1> QED  BY <1>0, <1>1, <1>2, <1>3, <1>4, <1>5 DEF IInv

\* Only the _next of a node in hand changes.
LEMMA AddLoadInv ==
  ASSUME IInv, NEW t \in Threads, AddLoad(t)
  PROVE  IInv'
<1> USE HazardAssumption DEF AddLoad, Goto, PointNode, tables, heap, locals, Pointers, Slots, NoHolder, Elsewhere
<1>0. /\ SInv /\ SInv' /\ TypeOK /\ TypeOK' /\ InvNull /\ InvPlace /\ InvSpells /\ InvHold /\ InvNext /\ InvOwned
      /\ head # Null => /\ head \in Nodes /\ place[head] = "stack"
                        /\ Spells(next[head], next, In("stack") \ {head})
  BY AddLoadSlots, Firsts DEF IInv, SInv
<1>1. InvPlace'
  BY <1>0, Firsts DEF TypeOK, InvNull, InvPlace, Owns, Owned, Move, In
<1>2. InvSpells'
  <2>1. next' = [next EXCEPT ![node[t]] = pending] /\ UNCHANGED <<head, pending, place, node, after, nextNode, mine>>
    OBVIOUS
  <2>2. node[t] \in Nodes /\ node[t] \notin In("stack") /\ node[t] \notin In("pending") /\ \A u \in Threads \ {t} : node[t] \notin mine[u]
    <3>1. node[t] \in Nodes
      BY <1>0 DEF TypeOK, InvNull
    <3>2. CASE Owns(t)
      BY <1>0, <3>1, <3>2 DEF In, InvPlace, Owned
    <3>3. CASE ~Owns(t)
      <4>1. node[t] \in mine[t]
        BY <1>0, <3>3 DEF InvPlace
      <4> QED  BY <1>0, <3>1, <4>1 DEF In, InvPlace
    <3> QED  BY <3>2, <3>3
  <2>3. next' \in [Nodes -> Pointers] /\ \A n \in Nodes \ {node[t]} : next'[n] = next[n]
    BY <1>0, <2>1 DEF TypeOK
  <2>4. Spells(head, next', In("stack")) /\ Spells(pending, next', In("pending"))
    <3>1. \A n \in In("stack") \cup In("pending") : next'[n] = next[n]
      BY <2>2, <2>3 DEF In
    <3> QED  BY <1>0, <2>3, <3>1, KeptList DEF InvSpells
  <2>5. ASSUME NEW u \in Threads PROVE RestSpells(u)'
    <3>1. CASE u # t
      <4>1. pc'[u] = pc[u] /\ \A n \in mine[u] : next'[n] = next[n]
        BY <1>0, <2>2, <2>3, <3>1 DEF TypeOK
      <4> QED  BY <1>0, <2>1, <4>1, KeptRest DEF InvSpells
    <3>2. CASE u = t
      <4>1. pc'[t] # "read_succ" /\ pc[t] # "read_succ"
        BY <1>0 DEF TypeOK
      <4>2. ASSUME after[t] = "advance" PROVE Spells(nextNode[t], next', mine[t] \ {node[t]})
        <5>1. Spells(nextNode[t], next, mine[t] \ {node[t]})
          BY <1>0, <4>1, <4>2 DEF InvSpells, RestSpells
        <5>2. \A n \in mine[t] \ {node[t]} : next'[n] = next[n]
          BY <1>0, <2>3 DEF TypeOK
        <5> QED  BY <1>0, <2>3, <5>1, <5>2, KeptList
      <4> QED  BY <2>1, <3>2, <4>1, <4>2 DEF RestSpells
    <3> QED  BY <3>1, <3>2
  <2> QED  BY <2>1, <2>4, <2>5 DEF InvSpells, In
<1>3. InvHold'
  BY <1>0 DEF TypeOK, InvNull, SInv, InvSlots, InvPlace, InvHold, Reads, Watching, Owns, Owned, Move
<1>4. InvNext'
  <2>1. node[t] \in Nodes /\ place[node[t]] # "stack"
    <3>1. CASE Owns(t)
      <4>1. Owned(t) = node[t] /\ node[t] \in Nodes
        BY <1>0 DEF TypeOK, InvNull, Owned
      <4> QED  BY <1>0, <3>1, <4>1 DEF InvPlace
    <3>2. CASE ~Owns(t)
      BY <1>0, <3>2 DEF TypeOK, InvNull, InvPlace
    <3> QED  BY <3>1, <3>2
  <2> QED  BY <1>0, <2>1 DEF TypeOK, InvNull, InvNext
<1>5. InvOwned'
  <2>1. OneMoves(t)
    BY <1>0 DEF TypeOK, OneMoves
  <2>2. NoneLost(t)
    BY <1>0, Firsts DEF TypeOK, InvNull, InvPlace, NoneLost, Owns, Owned, Move, In
  <2> QED  BY <1>0, <2>1, <2>2, HandsKept
<1> QED  BY <1>0, <1>1, <1>2, <1>3, <1>4, <1>5 DEF IInv

\* The node in hand becomes the first one put aside.
LEMMA AddCasInv ==
  ASSUME IInv, NEW t \in Threads, AddCas(t)
  PROVE  IInv'
<1> USE HazardAssumption DEF AddCas, Goto, Proceed, tables, heap, locals, Pointers, Slots, NoHolder, Elsewhere
<1>0. /\ SInv /\ SInv' /\ TypeOK /\ TypeOK' /\ InvNull /\ InvPlace /\ InvSpells /\ InvHold /\ InvNext /\ InvOwned
      /\ head # Null => /\ head \in Nodes /\ place[head] = "stack"
                        /\ Spells(next[head], next, In("stack") \ {head})
  BY AddCasSlots, Firsts DEF IInv, SInv
<1>1. InvPlace'
  <2>1. node[t] \in Nodes /\ place' = [place EXCEPT ![node[t]] = "pending"]
    BY <1>0 DEF TypeOK, InvNull, Move
  <2>2. \A u \in Threads \ {t} : /\ pc'[u] = pc[u] /\ node'[u] = node[u] /\ mine'[u] = mine[u]
                                 /\ nextNode'[u] = nextNode[u] /\ after'[u] = after[u]
                                 /\ newNode'[u] = newNode[u] /\ oldHead'[u] = oldHead[u]
    BY <1>0 DEF TypeOK
  <2>3. /\ mine'[t] = mine[t] \ {node[t]} /\ node'[t] = nextNode[t] /\ nextNode'[t] = Null /\ after'[t] = after[t]
        /\ pc'[t] \in {"exchange", "return", "read_succ"} /\ ~(Owns(t)')
    BY <1>0 DEF TypeOK, Owns
  <2>4. CASE after[t] = "exchange"
    <3>1. Owns(t) /\ Owned(t) = node[t] /\ place[node[t]] = "popped" /\ mine[t] = {} /\ pc'[t] = "exchange"
      <4>1. pc[t] = "add_cas" /\ pc'[t] = "exchange"
        BY <1>0, <2>4 DEF TypeOK
      <4>2. Owns(t) /\ Owned(t) = node[t]
        BY <2>4, <4>1 DEF Owns, Owned
      <4> QED  BY <1>0, <2>4, <4>1, <4>2 DEF InvPlace
    <3>2. \A u \in Threads \ {t} : /\ node[t] \notin mine[u]
                                   /\ pc[u] = "push_cas" => newNode[u] # node[t]
                                   /\ Owns(u) => Owned(u) # node[t]
      BY <1>0, <3>1 DEF InvPlace
    <3>3. \A u \in Threads \ {t} : (Owns(u) <=> Owns(u)') /\ Owned(u) = Owned(u)'
      BY <2>2 DEF Owns, Owned
    <3> QED  BY <1>0, <2>1, <2>2, <2>3, <2>4, <3>1, <3>2, <3>3 DEF TypeOK, InvPlace
  <2>5. CASE after[t] = "advance"
    <3>1. ~Owns(t) /\ node[t] \in mine[t] /\ place[node[t]] = "claimed"
      <4>1. pc[t] = "add_cas" /\ ~Owns(t)
        BY <1>0, <2>5 DEF Owns
      <4> QED  BY <1>0, <4>1 DEF InvPlace
    <3>2. /\ pc'[t] = "read_succ" => node'[t] \in mine'[t]
          /\ pc'[t] = "return" => mine'[t] = {}
          /\ pc'[t] \in {"read_succ", "return"}
      BY <1>0, <2>3, <2>5, Firsts DEF TypeOK
    <3>3. \A u \in Threads \ {t} : /\ node[t] \notin mine[u]
                                   /\ pc[u] = "push_cas" => newNode[u] # node[t]
                                   /\ Owns(u) => Owned(u) # node[t]
      BY <1>0, <3>1 DEF InvPlace
    <3>4. \A u \in Threads \ {t} : (Owns(u) <=> Owns(u)') /\ Owned(u) = Owned(u)'
      BY <2>2 DEF Owns, Owned
    <3> QED  BY <1>0, <2>1, <2>2, <2>3, <2>5, <3>1, <3>2, <3>3, <3>4 DEF TypeOK, InvPlace
  <2> QED  BY <1>0, <2>4, <2>5 DEF TypeOK
<1>2. InvSpells'
  <2>1. In("stack")' = In("stack") /\ In("pending")' = In("pending") \cup {node[t]} /\ node[t] \notin In("pending")
    <3>1. /\ place[node[t]] \in {"popped", "claimed"} /\ node[t] \in Nodes
          /\ place' = [n \in Nodes |-> IF n \in {node[t]} THEN "pending" ELSE place[n]]
      BY <1>0 DEF InvPlace, InvNull, Owns, Owned, Move, TypeOK
    <3> QED  BY <3>1 DEF In
  <2>2. ASSUME NEW u \in Threads PROVE RestSpells(u)'
    <3>0. RestSpells(u) /\ next' = next
      BY <1>0 DEF InvSpells
    <3>1. CASE u # t
      <4>1. pc'[u] = pc[u] /\ node'[u] = node[u] /\ after'[u] = after[u] /\ nextNode'[u] = nextNode[u] /\ mine'[u] = mine[u]
        BY <1>0, <3>1 DEF TypeOK
      <4> QED  BY <3>0, <4>1 DEF RestSpells
    <3>2. CASE u = t /\ after[t] = "exchange"
      BY <1>0, <3>2 DEF RestSpells, TypeOK
    <3>3. CASE u = t /\ after[t] = "advance"
      <4>1. Spells(nextNode[t], next, mine[t] \ {node[t]}) /\ (nextNode[t] = Null => mine[t] \ {node[t]} = {})
        BY <1>0, <3>0, <3>3, Firsts DEF RestSpells
      <4>2. /\ node'[t] = nextNode[t] /\ mine'[t] = mine[t] \ {node[t]} /\ nextNode'[t] = Null
            /\ pc'[t] = IF nextNode[t] = Null THEN "return" ELSE "read_succ"
        BY <1>0, <3>3 DEF TypeOK
      <4>3. nextNode[t] = Null => mine'[t] = {} /\ mine'[t] \ {node'[t]} = {}
        BY <4>1, <4>2
      <4> QED  BY <3>0, <3>3, <4>1, <4>2, <4>3 DEF RestSpells
    <3> QED  BY <1>0, <3>1, <3>2, <3>3 DEF TypeOK
  <2>3. Spells(pending', next', In("pending")')
    <3>1. /\ next' = next /\ pending' = node[t] /\ next[node[t]] = pending
          /\ IsFiniteSet(DOMAIN next) /\ node[t] \in DOMAIN next
      BY <1>0 DEF TypeOK, InvNull
    <3>2. Spells(pending, next, In("pending"))
      BY <1>0 DEF InvSpells
    <3> HIDE DEF AddCas
    <3>3. Spells(node[t], next, In("pending") \cup {node[t]})
      BY <2>1, <3>1, <3>2, SpellsCons
    <3> QED  BY <2>1, <3>1, <3>3
  <2> QED  BY <1>0, <2>1, <2>2, <2>3 DEF InvSpells
<1>3. InvHold'
  BY <1>0 DEF TypeOK, InvNull, SInv, InvSlots, InvPlace, InvHold, Reads, Watching, Owns, Owned, Move
<1>4. InvNext'
  BY <1>0 DEF TypeOK, InvNull, InvPlace, InvHold, InvNext, Reads, Owns, Owned, Move
<1>5. InvOwned'
  <2>1. OneMoves(t)
    BY <1>0 DEF TypeOK, OneMoves
  <2>2. NoneLost(t)
    BY <1>0, Firsts DEF TypeOK, InvNull, InvPlace, NoneLost, Owns, Owned, Move, In
  <2> QED  BY <1>0, <2>1, <2>2, HandsKept
<1> QED  BY <1>0, <1>1, <1>2, <1>3, <1>4, <1>5 DEF IInv

\* Only the _next of a node in hand changes.
LEMMA AddCasFailInv ==
  ASSUME IInv, NEW t \in Threads, AddCasFail(t)
  PROVE  IInv'
<1> USE HazardAssumption DEF AddCasFail, Goto, PointNode, tables, heap, locals, Pointers, Slots, NoHolder, Elsewhere
<1>0. /\ SInv /\ SInv' /\ TypeOK /\ TypeOK' /\ InvNull /\ InvPlace /\ InvSpells /\ InvHold /\ InvNext /\ InvOwned
      /\ head # Null => /\ head \in Nodes /\ place[head] = "stack"
                        /\ Spells(next[head], next, In("stack") \ {head})
  BY AddCasFailSlots, Firsts DEF IInv, SInv
<1>1. InvPlace'
  BY <1>0, Firsts DEF TypeOK, InvNull, InvPlace, Owns, Owned, Move, In
<1>2. InvSpells'
  <2>1. next' = [next EXCEPT ![node[t]] = pending] /\ UNCHANGED <<head, pending, place, node, after, nextNode, mine>>
    OBVIOUS
  <2>2. node[t] \in Nodes /\ node[t] \notin In("stack") /\ node[t] \notin In("pending") /\ \A u \in Threads \ {t} : node[t] \notin mine[u]
    <3>1. node[t] \in Nodes
      BY <1>0 DEF TypeOK, InvNull
    <3>2. CASE Owns(t)
      BY <1>0, <3>1, <3>2 DEF In, InvPlace, Owned
    <3>3. CASE ~Owns(t)
      <4>1. node[t] \in mine[t]
        BY <1>0, <3>3 DEF InvPlace
      <4> QED  BY <1>0, <3>1, <4>1 DEF In, InvPlace
    <3> QED  BY <3>2, <3>3
  <2>3. next' \in [Nodes -> Pointers] /\ \A n \in Nodes \ {node[t]} : next'[n] = next[n]
    BY <1>0, <2>1 DEF TypeOK
  <2>4. Spells(head, next', In("stack")) /\ Spells(pending, next', In("pending"))
    <3>1. \A n \in In("stack") \cup In("pending") : next'[n] = next[n]
      BY <2>2, <2>3 DEF In
    <3> QED  BY <1>0, <2>3, <3>1, KeptList DEF InvSpells
  <2>5. ASSUME NEW u \in Threads PROVE RestSpells(u)'
    <3>1. CASE u # t
      <4>1. pc'[u] = pc[u] /\ \A n \in mine[u] : next'[n] = next[n]
        BY <1>0, <2>2, <2>3, <3>1 DEF TypeOK
      <4> QED  BY <1>0, <2>1, <4>1, KeptRest DEF InvSpells
    <3>2. CASE u = t
      <4>1. pc'[t] # "read_succ" /\ pc[t] # "read_succ"
        BY <1>0 DEF TypeOK
      <4>2. ASSUME after[t] = "advance" PROVE Spells(nextNode[t], next', mine[t] \ {node[t]})
        <5>1. Spells(nextNode[t], next, mine[t] \ {node[t]})
          BY <1>0, <4>1, <4>2 DEF InvSpells, RestSpells
        <5>2. \A n \in mine[t] \ {node[t]} : next'[n] = next[n]
          BY <1>0, <2>3 DEF TypeOK
        <5> QED  BY <1>0, <2>3, <5>1, <5>2, KeptList
      <4> QED  BY <2>1, <3>2, <4>1, <4>2 DEF RestSpells
    <3> QED  BY <3>1, <3>2
  <2> QED  BY <2>1, <2>4, <2>5 DEF InvSpells, In
<1>3. InvHold'
  BY <1>0 DEF TypeOK, InvNull, SInv, InvSlots, InvPlace, InvHold, Reads, Watching, Owns, Owned, Move
<1>4. InvNext'
  <2>1. node[t] \in Nodes /\ place[node[t]] # "stack"
    <3>1. CASE Owns(t)
      <4>1. Owned(t) = node[t] /\ node[t] \in Nodes
        BY <1>0 DEF TypeOK, InvNull, Owned
      <4> QED  BY <1>0, <3>1, <4>1 DEF InvPlace
    <3>2. CASE ~Owns(t)
      BY <1>0, <3>2 DEF TypeOK, InvNull, InvPlace
    <3> QED  BY <3>1, <3>2
  <2> QED  BY <1>0, <2>1 DEF TypeOK, InvNull, InvNext
<1>5. InvOwned'
  <2>1. OneMoves(t)
    BY <1>0 DEF TypeOK, OneMoves
  <2>2. NoneLost(t)
    BY <1>0, Firsts DEF TypeOK, InvNull, InvPlace, NoneLost, Owns, Owned, Move, In
  <2> QED  BY <1>0, <2>1, <2>2, HandsKept
<1> QED  BY <1>0, <1>1, <1>2, <1>3, <1>4, <1>5 DEF IInv

\* The whole list put aside changes hands at once.
LEMMA ExchangeInv ==
  ASSUME IInv, NEW t \in Threads, Exchange(t)
  PROVE  IInv'
<1> USE HazardAssumption DEF Exchange, Goto, tables, heap, locals, Pointers, Slots, NoHolder, Elsewhere
<1>0. /\ SInv /\ SInv' /\ TypeOK /\ TypeOK' /\ InvNull /\ InvPlace /\ InvSpells /\ InvHold /\ InvNext /\ InvOwned
      /\ head # Null => /\ head \in Nodes /\ place[head] = "stack"
                        /\ Spells(next[head], next, In("stack") \ {head})
  BY ExchangeSlots, Firsts DEF IInv, SInv
<1>1. InvPlace'
  BY <1>0, Firsts DEF TypeOK, InvNull, InvPlace, Owns, Owned, Move, In
<1>2. InvSpells'
  <2>1. In("stack")' = In("stack") /\ In("pending")' = {} /\ next' = next
    BY <1>0 DEF In, Move
  <2>2. /\ pending' = Null /\ node'[t] = pending /\ mine'[t] = In("pending") /\ after[t] = "exchange"
        /\ after' = after /\ nextNode' = nextNode /\ pc'[t] # "exchange"
    <3>1. pending' = Null /\ node'[t] = pending /\ mine'[t] = In("pending")
      BY <1>0 DEF In, TypeOK
    <3>2. after[t] = "exchange" /\ after' = after /\ nextNode' = nextNode
      BY <1>0 DEF InvPlace
    <3>3. pc'[t] # "exchange"
      BY <1>0 DEF TypeOK
    <3> QED  BY <3>1, <3>2, <3>3
  <2>3. ASSUME NEW u \in Threads PROVE RestSpells(u)'
    <3>1. CASE u # t
      <4>1. pc'[u] = pc[u] /\ node'[u] = node[u] /\ after'[u] = after[u] /\ nextNode'[u] = nextNode[u] /\ mine'[u] = mine[u]
        BY <1>0, <3>1 DEF TypeOK
      <4> QED  BY <1>0, <2>1, <4>1 DEF InvSpells, RestSpells
    <3>2. CASE u = t
      BY <1>0, <2>1, <2>2, <3>2 DEF InvSpells, RestSpells
    <3> QED  BY <3>1, <3>2
  <2>4. Spells(pending', next', In("pending")')
    <3>1. Null \notin DOMAIN next /\ IsFiniteSet(DOMAIN next)
      BY <1>0 DEF TypeOK
    <3> QED  BY <2>1, <2>2, <3>1, SpellsNull
  <2> QED  BY <1>0, <2>1, <2>3, <2>4 DEF InvSpells
<1>3. InvHold'
  BY <1>0 DEF TypeOK, InvNull, SInv, InvSlots, InvPlace, InvHold, Reads, Watching, Owns, Owned, Move
<1>4. InvNext'
  BY <1>0 DEF TypeOK, InvNull, InvPlace, InvHold, InvNext, Reads, Owns, Owned, Move
<1>5. InvOwned'
  <2>1. OneMoves(t)
    BY <1>0 DEF TypeOK, OneMoves
  <2>2. NoneLost(t)
    <3>1. pc[t] = "exchange" /\ mine'[t] = In("pending") /\ UNCHANGED newNode
      BY <1>0 DEF TypeOK, In
    <3>3. mine[t] = {}
      BY <1>0 DEF InvPlace
    <3>2. \A n \in Nodes : place'[n] = IF n \in In("pending") THEN "claimed" ELSE place[n]
      BY DEF Move, In
    <3> QED  BY <3>1, <3>2, <3>3 DEF NoneLost, Owns
  <2> QED  BY <1>0, <2>1, <2>2, HandsKept
<1> QED  BY <1>0, <1>1, <1>2, <1>3, <1>4, <1>5 DEF IInv

\* The rest of the list begins at the successor.
LEMMA ReadSuccInv ==
  ASSUME IInv, NEW t \in Threads, ReadSucc(t)
  PROVE  IInv'
<1> USE HazardAssumption DEF ReadSucc, Goto, tables, heap, locals, Pointers, Slots, NoHolder, Elsewhere
<1>0. /\ SInv /\ SInv' /\ TypeOK /\ TypeOK' /\ InvNull /\ InvPlace /\ InvSpells /\ InvHold /\ InvNext /\ InvOwned
      /\ head # Null => /\ head \in Nodes /\ place[head] = "stack"
                        /\ Spells(next[head], next, In("stack") \ {head})
  BY ReadSuccSlots, Firsts DEF IInv, SInv
<1>1. InvPlace'
  BY <1>0, Firsts DEF TypeOK, InvNull, InvPlace, Owns, Owned, Move, In
<1>2. InvSpells'
  <2>1. next' = next /\ In("stack")' = In("stack") /\ In("pending")' = In("pending")
    BY DEF In
  <2>2. ASSUME NEW u \in Threads PROVE RestSpells(u)'
    <3>1. CASE u # t
      <4>1. pc'[u] = pc[u] /\ node'[u] = node[u] /\ after'[u] = after[u] /\ nextNode'[u] = nextNode[u] /\ mine'[u] = mine[u]
        BY <1>0, <3>1 DEF TypeOK
      <4> QED  BY <1>0, <2>1, <4>1 DEF InvSpells, RestSpells
    <3>2. CASE u = t
      <4>1. Spells(next[node[t]], next, mine[t] \ {node[t]})
        BY <1>0, Firsts DEF InvNull
      <4>2. pc'[t] = "scan" /\ nextNode'[t] = next[node[t]] /\ mine' = mine /\ node' = node
        BY <1>0 DEF TypeOK
      <4> QED  BY <2>1, <3>2, <4>1, <4>2 DEF RestSpells
    <3> QED  BY <3>1, <3>2
  <2> QED  BY <1>0, <2>1, <2>2 DEF InvSpells
<1>3. InvHold'
  <2>1. slot'[t] = 1 /\ \A u \in Threads : Reads(u) => holder[u] >= 1
    BY <1>0 DEF SInv, InvSlots, InvHold, Reads, Watching
  <2>2. \A u \in Threads \ {t} : pc'[u] = pc[u] /\ node'[u] = node[u]
    BY <1>0 DEF TypeOK
  <2>3. pc'[t] = "scan" /\ UNCHANGED <<holder, pointer, place, tmp, oldHead, slot>>
    BY <1>0 DEF TypeOK
  <2> QED  BY <1>0, <2>1, <2>2, <2>3 DEF InvHold, Reads, Watching
<1>4. InvNext'
  BY <1>0 DEF TypeOK, InvNull, InvPlace, InvHold, InvNext, Reads, Owns, Owned, Move
<1>5. InvOwned'
  <2>1. OneMoves(t)
    BY <1>0 DEF TypeOK, OneMoves
  <2>2. NoneLost(t)
    BY <1>0, Firsts DEF TypeOK, InvNull, InvPlace, NoneLost, Owns, Owned, Move, In
  <2> QED  BY <1>0, <2>1, <2>2, HandsKept
<1> QED  BY <1>0, <1>1, <1>2, <1>3, <1>4, <1>5 DEF IInv

\* The thread has nothing in hand.
LEMMA ReturnInv ==
  ASSUME IInv, NEW t \in Threads, Return(t)
  PROVE  IInv'
<1> USE HazardAssumption DEF Return, Goto, tables, heap, locals, Pointers, Slots, NoHolder, Elsewhere
<1>0. /\ SInv /\ SInv' /\ TypeOK /\ TypeOK' /\ InvNull /\ InvPlace /\ InvSpells /\ InvHold /\ InvNext /\ InvOwned
      /\ head # Null => /\ head \in Nodes /\ place[head] = "stack"
                        /\ Spells(next[head], next, In("stack") \ {head})
  BY ReturnSlots, Firsts DEF IInv, SInv
<1>1. InvPlace'
  BY <1>0, Firsts DEF TypeOK, InvNull, InvPlace, Owns, Owned, Move, In
<1>2. InvSpells'
  <2> USE <1>0 DEF TypeOK, InvNull, InvPlace, InvSpells
  <2>1. \A u \in Threads : RestSpells(u)'
    BY RestsKept
  <2> QED  BY <2>1 DEF In
<1>3. InvHold'
  BY <1>0 DEF TypeOK, InvNull, SInv, InvSlots, InvPlace, InvHold, Reads, Watching, Owns, Owned, Move
<1>4. InvNext'
  BY <1>0 DEF TypeOK, InvNull, InvPlace, InvHold, InvNext, Reads, Owns, Owned, Move
<1>5. InvOwned'
  <2>1. OneMoves(t)
    BY <1>0 DEF TypeOK, OneMoves
  <2>2. NoneLost(t)
    BY <1>0, Firsts DEF TypeOK, InvNull, InvPlace, NoneLost, Owns, Owned, Move, In
  <2> QED  BY <1>0, <2>1, <2>2, HandsKept
<1> QED  BY <1>0, <1>1, <1>2, <1>3, <1>4, <1>5 DEF IInv

-----------------------------------------------------------------------------
(* Init and Next *)

\* Every operation starts from an empty stack and nothing put aside.
LEMMA InitInv == Init => IInv
<1> SUFFICES ASSUME Init PROVE IInv
  OBVIOUS
<1> USE HazardAssumption DEF Init
<1>1. SInv
  BY SlotsInit
<1>2. InvPlace /\ InvHold /\ InvNext /\ InvOwned
  BY DEF InvPlace, Owns, Reads, InvHold, Watching, InvNext, InvOwned, NoHolder, Elsewhere, Slots
<1>3. InvSpells
  <2>1. head \notin DOMAIN next /\ pending \notin DOMAIN next /\ IsFiniteSet(DOMAIN next)
    OBVIOUS
  <2>2. In("stack") = {} /\ In("pending") = {}
    BY DEF In
  <2>3. Spells(head, next, {}) /\ Spells(pending, next, {})
    BY <2>1, SpellsNull
  <2> QED  BY <2>2, <2>3 DEF InvSpells, RestSpells
<1> QED  BY <1>1, <1>2, <1>3 DEF IInv

\* A step that changes no variable keeps the invariant.
LEMMA StutterInv == ASSUME IInv, UNCHANGED vars PROVE IInv'
<1> USE DEF vars, tables, heap, locals
<1>1. SInv'
  BY SlotsStep DEF IInv, vars
<1>2. InvPlace' /\ InvOwned'
  BY DEF IInv, InvPlace, Owns, Owned, InvOwned
<1>3. InvSpells'
  BY DEF IInv, InvSpells, RestSpells, In
<1>4. InvHold' /\ InvNext'
  BY DEF IInv, InvHold, Reads, Watching, InvNext
<1> QED  BY <1>1, <1>2, <1>3, <1>4 DEF IInv

\* Every step keeps the invariant, by the lemma about its action: without other
\* stacks no thread gets a slot elsewhere.
LEMMA StepInv == ~OtherStacks /\ IInv /\ [Next]_vars => IInv'
<1> SUFFICES ASSUME ~OtherStacks, IInv, [Next]_vars PROVE IInv'
  OBVIOUS
<1>1. Pushers \subseteq Threads /\ Poppers \subseteq Threads
  BY DEF Threads
<1>2. CASE UNCHANGED vars
  BY <1>2, StutterInv
<1>3. CASE \E t \in Pushers, v \in Values : PushStart(t, v)
  BY <1>1, <1>3, PushStartInv
<1>4. CASE \E t \in Poppers : PopStart(t) \/ PopElsewhere(t) \/ ThreadExit(t)
  BY <1>1, <1>4, PopStartInv, ThreadExitInv DEF PopElsewhere
<1>5. ASSUME NEW t \in Threads, Continue(t) PROVE IInv'
  <2>1. CASE PushCas(t) \/ PushCasFail(t) \/ ClaimSlot(t) \/ ClaimSlotTaken(t) \/ Catch(t)
    BY <2>1, PushCasInv, PushCasFailInv, ClaimSlotInv, ClaimSlotTakenInv, CatchInv
  <2>2. CASE LoadTmp(t) \/ Publish(t) \/ Validate(t) \/ ReadNext(t)
    BY <2>2, LoadTmpInv, PublishInv, ValidateInv, ReadNextInv
  <2>3. CASE PopCas(t) \/ PopCasFail(t) \/ Clear(t) \/ Swap(t)
    BY <2>3, PopCasInv, PopCasFailInv, ClearInv, SwapInv
  <2>4. CASE Reclaim(t)
    BY <2>4, ScanInv, DeleteInv, AddLoadInv, AddCasInv, AddCasFailInv, ExchangeInv, ReadSuccInv, ReturnInv
    DEF Reclaim
  <2> QED  BY <1>5, <2>1, <2>2, <2>3, <2>4 DEF Continue
<1> QED  BY <1>2, <1>3, <1>4, <1>5 DEF Next

\* The inductive invariant holds in every reachable state.
LEMMA Invariance == ASSUME ~OtherStacks PROVE Spec => []IInv
<1>1. IInv /\ [Next]_vars => IInv'
  BY StepInv
<1> QED  BY <1>1, InitInv, PTL DEF Spec

-----------------------------------------------------------------------------
(* The theorems *)

\* A node is deleted only when no other thread is between validating its hazard
\* pointer to it and its CAS: what the comments at lines 117 and 147 promise.
THEOREM DeletionsUnwatched == ASSUME ~OtherStacks PROVE Spec => []DeletedUnwatched
<1>1. IInv => DeletedUnwatched
  BY DEF IInv, InvHold, Reads, DeletedUnwatched
<1> QED  BY <1>1, Invariance, PTL

\* No thread of push or pop reads, writes or deletes a null pointer or a node that
\* was deleted already.
THEOREM MemorySafe == ASSUME ~OtherStacks PROVE Spec => []NoUseAfterFree
<1>1. IInv => NoUseAfterFree
  <2> SUFFICES ASSUME IInv, NEW t \in Threads, NEW n \in Pointers, Touches(t, n)
               PROVE  n # Null /\ place[n] # "free"
    BY DEF NoUseAfterFree
  <2>0. InvNull /\ InvPlace /\ InvHold
    BY DEF IInv, SInv
  <2>1. CASE pc[t] = "push_cas" /\ n = newNode[t]
    BY <2>0, <2>1 DEF InvNull, InvPlace
  <2>2. CASE pc[t] = "read_next" /\ n = oldHead[t]
    BY <2>0, <2>2 DEF InvNull, InvHold, Reads
  <2>3. CASE pc[t] = "swap" /\ n = oldHead[t]
    BY <2>0, <2>3 DEF InvNull, InvPlace, Owns, Owned
  <2>4. CASE pc[t] \in {"delete", "add_load", "add_cas", "read_succ"} /\ n = node[t]
    <3>1. CASE Owns(t)
      BY <2>0, <2>4, <3>1 DEF InvNull, InvPlace, Owned
    <3>2. CASE ~Owns(t)
      BY <2>0, <2>4, <3>2 DEF InvNull, InvPlace
    <3> QED  BY <3>1, <3>2
  <2> QED  BY <2>1, <2>2, <2>3, <2>4 DEF Touches
<1> QED  BY <1>1, Invariance, PTL

\* No successful CAS of pop installs a stale successor (no ABA), although the
\* allocator may reuse addresses.
THEOREM NoABA == ASSUME ~OtherStacks PROVE Spec => []NoStaleNext
<1>1. IInv => NoStaleNext
  <2> SUFFICES ASSUME IInv, NEW t \in Threads, pc[t] = "pop_cas", head = oldHead[t]
               PROVE  desired[t] = next[oldHead[t]]
    BY DEF NoStaleNext
  <2>1. place[oldHead[t]] = "stack"
    BY Firsts DEF IInv, SInv, InvNull
  <2> QED  BY <2>1 DEF IInv, InvNext
<1> QED  BY <1>1, Invariance, PTL

\* push, pop and tryReclaim neither lose a node nor put one in two lists, and
\* make no cycle: the stack, the nodes put aside and what each thread has yet to
\* visit are whole, and nobody keeps a node when no operation runs.
THEOREM ListsCorrect == ASSUME ~OtherStacks PROVE Spec => []ListsIntact
<1>1. ASSUME IInv PROVE ListsIntact
  <2>0. TypeOK /\ InvPlace /\ InvSpells /\ InvOwned
    BY <1>1 DEF IInv, SInv
  <2>1. Exactly(Path(head), In("stack")) /\ Exactly(Path(pending), In("pending"))
    BY <2>0, SpellsExactly DEF InvSpells, Path
  <2>2. ASSUME NEW t \in Threads, pc[t] = "read_succ" PROVE Exactly(Path(node[t]), mine[t])
    BY <2>0, <2>2, SpellsExactly DEF InvSpells, RestSpells, Path
  <2>3. ASSUME NEW t \in Threads, pc[t] # "read_succ", after[t] = "advance"
        PROVE  Exactly(Path(nextNode[t]), mine[t] \ {node[t]})
    BY <2>0, <2>3, SpellsExactly DEF InvSpells, RestSpells, Path
  <2>4. ASSUME NEW t \in Threads, pc[t] # "read_succ", after[t] # "advance" PROVE mine[t] = {}
    BY <2>0, <2>4 DEF TypeOK, InvPlace
  <2>5. ASSUME \A t \in Threads : pc[t] \in {"idle", "exited"}, NEW n \in Nodes
        PROVE  place[n] \in {"free", "stack", "pending"}
    <3>1. \A t \in Threads : mine[t] = {}
      BY <2>0, <2>5 DEF InvPlace
    <3> QED  BY <2>0, <2>5, <3>1 DEF InvOwned, Owns, TypeOK, Places
  <2> QED  BY <2>0, <2>1, <2>2, <2>3, <2>4, <2>5 DEF ListsIntact
<1> QED  BY <1>1, Invariance, PTL

-----------------------------------------------------------------------------
(* Each step is one of AtomicStack, or changes nothing there *)

\* Who is where, and what a pop has got so far.
InvCalls ==
  \A t \in Threads :
    /\ pc[t] = "push_cas" => t \in Pushers
    /\ pc[t] \notin {"idle", "push_cas"} => t \in Poppers
    /\ pc[t] \in {"idle", "push_cas", "claim_slot", "thrown", "exited", "load_tmp", "publish", "validate",
                  "read_next", "pop_cas", "clear", "swap"} => res[t] = NoValue

\* Every step keeps to that.
LEMMA CallsStep == TypeOK /\ InvCalls /\ [Next]_vars => InvCalls'
<1> SUFFICES ASSUME TypeOK, InvCalls, [Next]_vars PROVE InvCalls'
  OBVIOUS
<1> USE DEF TypeOK, InvCalls, Goto, tables, heap, locals
<1>0. Pushers \subseteq Threads /\ Poppers \subseteq Threads
  BY DEF Threads
<1>1. ASSUME NEW t \in Pushers, NEW v \in Values, PushStart(t, v) PROVE InvCalls'
  BY <1>0, <1>1 DEF PushStart
<1>2. ASSUME NEW t \in Poppers, PopStart(t) \/ PopElsewhere(t) \/ ThreadExit(t) PROVE InvCalls'
  BY <1>0, <1>2 DEF PopStart, PopElsewhere, ThreadExit
<1>3. ASSUME NEW t \in Threads, PushCas(t) \/ PushCasFail(t) PROVE InvCalls'
  BY <1>3 DEF PushCas, PushCasFail
<1>4. ASSUME NEW t \in Threads, ClaimSlot(t) \/ ClaimSlotTaken(t) \/ Catch(t) PROVE InvCalls'
  BY <1>4 DEF ClaimSlot, ClaimSlotTaken, Catch
<1>5. ASSUME NEW t \in Threads, LoadTmp(t) \/ Publish(t) \/ Validate(t) \/ ReadNext(t) PROVE InvCalls'
  BY <1>5 DEF LoadTmp, Publish, Validate, ReadNext
<1>6. ASSUME NEW t \in Threads, PopCas(t) \/ PopCasFail(t) \/ Clear(t) \/ Swap(t) PROVE InvCalls'
  BY <1>6 DEF PopCas, PopCasFail, Clear, Swap
<1>7. ASSUME NEW t \in Threads, Scan(t) \/ Delete(t) \/ AddLoad(t) \/ AddCas(t) \/ AddCasFail(t) PROVE InvCalls'
  BY <1>7 DEF Scan, Delete, AddLoad, AddCas, AddCasFail, Proceed, PointNode
<1>8. ASSUME NEW t \in Threads, Exchange(t) \/ ReadSucc(t) \/ Return(t) PROVE InvCalls'
  BY <1>8 DEF Exchange, ReadSucc, Return
<1>9. CASE UNCHANGED vars
  BY <1>9 DEF vars
<1> QED
  BY <1>1, <1>2, <1>3, <1>4, <1>5, <1>6, <1>7, <1>8, <1>9 DEF Next, Continue, Reclaim

stack == ValuesFrom(head)
ops   == [t \in Threads |-> AbstractOp(t)]

\* A step after which every thread but t is in the operation it was in.
Others(t) == \A u \in Threads \ {t} : AbstractOp(u)' = AbstractOp(u)

\* Such a step changes one operation.
LEMMA OpsOf ==
  ASSUME NEW t \in Threads, Others(t)
  PROVE  ops' = [ops EXCEPT ![t] = AbstractOp(t)']
BY DEF ops, Others

\* A step moves one thread; the values in the hands of the others stay.
LEMMA OthersKept ==
  ASSUME NEW t \in Threads,
         \A u \in Threads \ {t} :
           /\ pc'[u] = pc[u] /\ newNode'[u] = newNode[u] /\ oldHead'[u] = oldHead[u] /\ res'[u] = res[u]
           /\ pc[u] = "push_cas" => val'[newNode[u]] = val[newNode[u]]
           /\ pc[u] \in {"clear", "swap"} /\ oldHead[u] # Null => val'[oldHead[u]] = val[oldHead[u]]
  PROVE  Others(t)
BY DEF Others, AbstractOp

\* The stack stays if its first node, its pointers and its values do.
LEMMA StackKept ==
  ASSUME IInv, IInv', head' = head,
         \A n \in In("stack") : next'[n] = next[n] /\ val'[n] = val[n]
  PROVE  stack' = stack
<1>1. Spells(head, next, In("stack")) /\ next' \in [Nodes -> Pointers] /\ TypeOK
  BY DEF IInv, SInv, InvSpells, TypeOK
<1>2. Path(head)' = Path(head)
  BY <1>1, KeptList DEF Path
<1>3. \A i \in DOMAIN Path(head) : Path(head)[i] \in In("stack")
  BY <1>1 DEF Spells, Path, ToSet
<1> HIDE DEF Path
<1> QED  BY <1>2, <1>3 DEF stack, ValuesFrom

\* What the stack is when it is empty and when it is not.
LEMMA StackIs ==
  ASSUME IInv
  PROVE  /\ Path(head) \in Seq(Nodes)
         /\ head = Null => stack = <<>>
         /\ head # Null => /\ stack # <<>> /\ Head(stack) = val[head]
                           /\ Tail(stack) = ValuesFrom(next[head])
<1>1. /\ Spells(head, next, In("stack")) /\ DOMAIN next = Nodes /\ IsFiniteSet(DOMAIN next)
      /\ head \in Nodes \cup {Null}
  BY HazardAssumption DEF IInv, SInv, InvSpells, TypeOK, Pointers
<1>2. Path(head) \in Seq(Nodes)
  BY <1>1, ListFacts DEF Spells, Path
<1>3. ASSUME head = Null PROVE stack = <<>>
  <2>1. Path(head) = <<>>
    BY <1>1, <1>3, HazardAssumption, SpellsNull DEF Path
  <2> QED  BY <2>1 DEF stack, ValuesFrom
<1>4. ASSUME head # Null
      PROVE  stack # <<>> /\ Head(stack) = val[head] /\ Tail(stack) = ValuesFrom(next[head])
  <2>1. Path(head) # <<>> /\ Path(head)[1] = head /\ Path(next[head]) = Tail(Path(head))
    BY <1>1, <1>4, SpellsTail DEF Path
  <2>2. stack = [i \in DOMAIN Path(head) |-> val[Path(head)[i]]]
    BY DEF stack, ValuesFrom
  <2>3. ValuesFrom(next[head]) = [i \in DOMAIN Tail(Path(head)) |-> val[Tail(Path(head))[i]]]
    BY <2>1 DEF ValuesFrom
  <2> HIDE DEF stack
  <2> QED  BY <1>2, <2>1, <2>2, <2>3, ValuesTail
<1> QED  BY <1>2, <1>3, <1>4

\* At first the stack is empty and every thread idle.
LEMMA RefineInit == Init => Atomic!Init
<1> SUFFICES ASSUME Init PROVE Atomic!Init
  OBVIOUS
<1>1. IInv /\ head = Null
  BY InitInv DEF Init
<1>2. stack = <<>>
  BY <1>1, StackIs
<1>3. ops = [t \in Pushers \cup Poppers |-> Atomic!Idle]
  BY DEF Init, ops, AbstractOp, Atomic!Idle, Threads
<1> QED  BY <1>2, <1>3 DEF Atomic!Init, stack, ops

\* A push begins: the node is in nobody else's hands.
LEMMA RefinePushStart ==
  ASSUME IInv, IInv', InvCalls, NEW t \in Pushers, NEW v \in Values, PushStart(t, v)
  PROVE  Atomic!InvokePush(t, v)
<1> USE HazardAssumption DEF Goto
<1>0. TypeOK /\ t \in Threads /\ InvPlace
  BY DEF IInv, SInv, Threads
<1>1. PICK n \in Nodes : /\ place[n] = "free"
                         /\ val' = [val EXCEPT ![n] = v]
                         /\ next' = [next EXCEPT ![n] = head]
                         /\ newNode' = [newNode EXCEPT ![t] = n]
  BY DEF PushStart
<1>2. \A u \in Threads \ {t} : /\ pc[u] = "push_cas" => newNode[u] # n
                               /\ pc[u] \in {"clear", "swap"} /\ oldHead[u] # Null => oldHead[u] # n
  BY <1>0, <1>1 DEF InvPlace, Owns, Owned
<1>3. Others(t)
  <2>1. \A u \in Threads \ {t} : pc[u] = "push_cas" => val'[newNode[u]] = val[newNode[u]]
    BY <1>0, <1>1, <1>2 DEF TypeOK, Pointers
  <2>2. \A u \in Threads \ {t} :
          pc[u] \in {"clear", "swap"} /\ oldHead[u] # Null => val'[oldHead[u]] = val[oldHead[u]]
    BY <1>0, <1>1, <1>2 DEF TypeOK, Pointers
  <2>3. \A u \in Threads \ {t} :
          pc'[u] = pc[u] /\ newNode'[u] = newNode[u] /\ oldHead'[u] = oldHead[u] /\ res'[u] = res[u]
    BY <1>0, <1>1 DEF PushStart, TypeOK
  <2> QED  BY <1>0, <2>1, <2>2, <2>3, OthersKept
<1>4. AbstractOp(t) = Atomic!Idle /\ AbstractOp(t)' = Atomic!Pushing(v)
  BY <1>0, <1>1 DEF PushStart, TypeOK, AbstractOp, Atomic!Idle, Atomic!Pushing
<1>5. stack' = stack
  BY <1>0, <1>1, StackKept DEF PushStart, TypeOK, In
<1> QED  BY <1>0, <1>3, <1>4, <1>5, OpsOf DEF Atomic!InvokePush, ops, stack

\* A push takes effect at its CAS.
LEMMA RefinePushCas ==
  ASSUME IInv, IInv', InvCalls, NEW t \in Threads, PushCas(t)
  PROVE  t \in Pushers /\ Atomic!Push(t)
<1> USE HazardAssumption DEF Goto
<1> DEFINE n == newNode[t]
<1>0. TypeOK /\ t \in Pushers /\ InvNull /\ InvPlace /\ InvSpells
  BY DEF IInv, SInv, InvCalls, PushCas
<1>1. /\ n \in Nodes /\ n \notin In("stack") /\ next[n] = head /\ head' = n /\ next' = next /\ val' = val
      /\ DOMAIN next = Nodes /\ IsFiniteSet(DOMAIN next)
  BY <1>0 DEF PushCas, InvNull, TypeOK, InvPlace, In, Pointers
<1>2. Path(head)' = <<n>> \o Path(head)
  BY <1>0, <1>1, SpellsCons DEF InvSpells, Path
<1>3. stack' = <<val[n]>> \o stack
  <2>1. Path(head) \in Seq(Nodes)
    BY StackIs
  <2>2. stack' = [i \in DOMAIN (Path(head)') |-> val[(Path(head)')[i]]]
    BY <1>1 DEF stack, ValuesFrom
  <2>3. stack = [i \in DOMAIN Path(head) |-> val[Path(head)[i]]]
    BY DEF stack, ValuesFrom
  <2> HIDE DEF n, stack
  <2> QED  BY <1>1, <1>2, <2>1, <2>2, <2>3, ValuesCons
<1>4. Others(t)
  BY <1>0, <1>1, OthersKept DEF PushCas, TypeOK
<1>5. AbstractOp(t).kind = "push" /\ AbstractOp(t).val = val[n] /\ AbstractOp(t)' = Atomic!Idle
  BY <1>0 DEF PushCas, TypeOK, AbstractOp, Atomic!Idle
<1> QED  BY <1>0, <1>3, <1>4, <1>5, OpsOf DEF Atomic!Push, ops, stack

\* A pop begins when its thread has a slot; until then its exception leaves
\* nothing behind.
LEMMA RefineBegin ==
  ASSUME IInv, IInv', InvCalls, NEW t \in Threads,
         (PopStart(t) /\ t \in Poppers) \/ ClaimSlot(t)
  PROVE  (t \in Poppers /\ Atomic!InvokePop(t)) \/ UNCHANGED <<stack, ops>>
<1> USE DEF PopStart, ClaimSlot, Goto, tables, heap, locals
<1>0. TypeOK /\ t \in Poppers
  BY DEF IInv, SInv, InvCalls
<1>1. Others(t) /\ stack' = stack
  BY <1>0, OthersKept, StackKept DEF TypeOK
<1>2. AbstractOp(t) = Atomic!Idle
  BY <1>0 DEF TypeOK, AbstractOp, Atomic!Idle
<1>3. CASE pc'[t] = "load_tmp"
  <2>1. AbstractOp(t)' = Atomic!Popping
    BY <1>0, <1>3 DEF TypeOK, AbstractOp, Atomic!Popping
  <2> QED  BY <1>0, <1>1, <1>2, <2>1, OpsOf DEF Atomic!InvokePop, ops, stack
<1>4. CASE pc'[t] = "claim_slot"
  <2>1. AbstractOp(t)' = AbstractOp(t)
    BY <1>0, <1>2, <1>4 DEF TypeOK, AbstractOp, Atomic!Idle
  <2> QED  BY <1>1, <2>1 DEF Others, ops
<1> QED  BY <1>0, <1>3, <1>4 DEF TypeOK

\* A pop that validates a null head takes effect there.
LEMMA RefineValidate ==
  ASSUME IInv, IInv', InvCalls, NEW t \in Threads, Validate(t)
  PROVE  (t \in Poppers /\ Atomic!PopEmpty(t)) \/ UNCHANGED <<stack, ops>>
<1> USE DEF Goto, Validate, tables, heap
<1>0. TypeOK /\ t \in Poppers /\ res[t] = NoValue
  BY DEF IInv, SInv, InvCalls
<1>1. Others(t) /\ stack' = stack
  BY <1>0, OthersKept, StackKept DEF TypeOK
<1>2. AbstractOp(t) = Atomic!Popping
  BY <1>0 DEF TypeOK, AbstractOp, Atomic!Popping
<1>3. CASE head = Null /\ tmp[t] = Null
  <2>1. AbstractOp(t)' = Atomic!Popped(NoValue)
    BY <1>0, <1>3 DEF TypeOK, AbstractOp, Atomic!Popped
  <2>2. stack = <<>>
    BY <1>3, StackIs
  <2> QED  BY <1>0, <1>1, <1>2, <2>1, <2>2, OpsOf DEF Atomic!PopEmpty, ops, stack
<1>4. CASE ~(head = Null /\ tmp[t] = Null)
  <2>1. pc'[t] \in {"load_tmp", "read_next"}
    BY <1>0, <1>4 DEF TypeOK
  <2>2. AbstractOp(t)' = AbstractOp(t)
    BY <2>1 DEF AbstractOp
  <2> QED  BY <1>1, <2>2 DEF Others, ops
<1> QED  BY <1>3, <1>4

\* Any other pop takes effect at its CAS.
LEMMA RefinePopCas ==
  ASSUME IInv, IInv', InvCalls, NEW t \in Threads, PopCas(t)
  PROVE  t \in Poppers /\ Atomic!PopTop(t)
<1> USE HazardAssumption DEF Goto
<1>0. TypeOK /\ t \in Poppers /\ InvNull /\ InvSpells /\ InvNext
  BY DEF IInv, SInv, InvCalls, PopCas
<1>1. oldHead[t] = head /\ head # Null /\ next' = next /\ val' = val /\ head' = desired[t]
  BY <1>0 DEF PopCas, InvNull
<1>2. head' = next[head]
  BY <1>0, <1>1, Firsts DEF PopCas, InvNext
<1>3. stack # <<>> /\ Head(stack) = val[head] /\ stack' = Tail(stack)
  <2>1. stack' = ValuesFrom(next[head])
    BY <1>1, <1>2 DEF stack, ValuesFrom, Path
  <2> QED  BY <1>1, <2>1, StackIs
<1>4. Others(t)
  BY <1>0, <1>1, OthersKept DEF PopCas, TypeOK
<1>5. AbstractOp(t) = Atomic!Popping /\ AbstractOp(t)' = Atomic!Popped(val[head])
  BY <1>0, <1>1 DEF PopCas, TypeOK, AbstractOp, Atomic!Popping, Atomic!Popped
<1> QED  BY <1>0, <1>3, <1>4, <1>5, OpsOf DEF Atomic!PopTop, ops, stack

\* The value moves from the node to the caller: the pop has its result already.
LEMMA RefineSwap ==
  ASSUME IInv, IInv', InvCalls, NEW t \in Threads, Swap(t)
  PROVE  UNCHANGED <<stack, ops>>
<1> USE HazardAssumption DEF Goto
<1>0. TypeOK /\ InvNull /\ InvPlace
  BY DEF IInv, SInv
<1>1. /\ oldHead[t] \in Nodes /\ oldHead[t] # Null /\ place[oldHead[t]] = "popped" /\ pc[t] = "swap"
      /\ \A u \in Threads \ {t} :
           /\ pc[u] = "push_cas" => newNode[u] # oldHead[t]
           /\ pc[u] \in {"clear", "swap"} /\ oldHead[u] # Null => oldHead[u] # oldHead[t]
  <2>1. pc[t] = "swap" /\ oldHead[t] \in Nodes /\ oldHead[t] # Null
    BY <1>0 DEF Swap, TypeOK, InvNull, Pointers
  <2> QED  BY <1>0, <2>1 DEF InvPlace, Owns, Owned
<1>2. val' = [val EXCEPT ![oldHead[t]] = NoValue] /\ next' = next /\ head' = head
  BY DEF Swap
<1>3. Others(t)
  BY <1>0, <1>1, <1>2, OthersKept DEF Swap, TypeOK, Pointers
<1>4. stack' = stack
  BY <1>0, <1>1, <1>2, StackKept DEF TypeOK, In
<1>5. AbstractOp(t)' = AbstractOp(t)
  BY <1>0, <1>1 DEF Swap, TypeOK, AbstractOp
<1> QED  BY <1>3, <1>4, <1>5 DEF Others, ops

\* Hazard pointers and reclamation do not show, nor a pop that throws.
LEMMA RefineHidden ==
  ASSUME IInv, IInv', InvCalls, NEW t \in Threads,
         \/ PushCasFail(t) \/ ClaimSlotTaken(t) \/ Catch(t) \/ ThreadExit(t) \/ PopElsewhere(t)
         \/ LoadTmp(t) \/ Publish(t) \/ ReadNext(t) \/ PopCasFail(t) \/ Clear(t)
         \/ Scan(t) \/ Delete(t) \/ AddLoad(t) \/ AddCas(t) \/ AddCasFail(t) \/ Exchange(t) \/ ReadSucc(t)
  PROVE  UNCHANGED <<stack, ops>>
<1> USE HazardAssumption DEF Goto, tables, heap, locals
<1>0. TypeOK /\ InvNull /\ InvPlace /\ InvCalls
  BY DEF IInv, SInv
<1>1. /\ UNCHANGED <<head, val, newNode, res>>
      /\ \A u \in Threads \ {t} : pc'[u] = pc[u] /\ oldHead'[u] = oldHead[u]
  BY <1>0 DEF PushCasFail, ClaimSlotTaken, Catch, ThreadExit, PopElsewhere, LoadTmp, Publish, ReadNext, PopCasFail,
              Clear, Scan, Delete, AddLoad, AddCas, AddCasFail, Exchange, ReadSucc, Proceed, PointNode, TypeOK
<1>2. AbstractOp(t)' = AbstractOp(t)
  <2>1. CASE PushCasFail(t)
    BY <1>0, <2>1 DEF PushCasFail, AbstractOp
  <2>2. CASE ClaimSlotTaken(t) \/ Catch(t) \/ ThreadExit(t) \/ PopElsewhere(t)
    BY <1>0, <2>2 DEF ClaimSlotTaken, Catch, ThreadExit, PopElsewhere, TypeOK, AbstractOp
  <2>3. CASE LoadTmp(t) \/ Publish(t) \/ ReadNext(t) \/ PopCasFail(t)
    BY <1>0, <2>3 DEF LoadTmp, Publish, ReadNext, PopCasFail, TypeOK, AbstractOp
  <2>4. CASE Clear(t)
    BY <1>0, <2>4 DEF Clear, TypeOK, InvCalls, AbstractOp
  <2>5. CASE Scan(t) \/ Delete(t) \/ AddLoad(t) \/ AddCas(t) \/ AddCasFail(t) \/ Exchange(t) \/ ReadSucc(t)
    <3>1. /\ pc[t] \in {"scan", "delete", "add_load", "add_cas", "exchange", "read_succ", "return"}
          /\ pc'[t] \in {"scan", "delete", "add_load", "add_cas", "exchange", "read_succ", "return"}
      BY <1>0, <2>5 DEF Scan, Delete, AddLoad, AddCas, AddCasFail, Exchange, ReadSucc, Proceed, TypeOK
    <3> QED  BY <1>1, <3>1 DEF AbstractOp
  <2> QED  BY <2>1, <2>2, <2>3, <2>4, <2>5
<1>3. \A n \in In("stack") : next'[n] = next[n]
  <2>1. CASE PushCasFail(t)
    BY <1>0, <2>1 DEF PushCasFail, TypeOK, InvPlace, In
  <2>2. CASE AddLoad(t) \/ AddCasFail(t)
    <3>1. place[node[t]] # "stack"
      <4>1. CASE Owns(t)
        BY <1>0, <2>2, <4>1 DEF InvPlace, Owned, AddLoad, AddCasFail
      <4>2. CASE ~Owns(t)
        BY <1>0, <2>2, <4>2 DEF InvPlace, AddLoad, AddCasFail
      <4> QED  BY <4>1, <4>2
    <3> QED  BY <1>0, <2>2, <3>1 DEF AddLoad, AddCasFail, PointNode, TypeOK, In
  <2>3. CASE ~(PushCasFail(t) \/ AddLoad(t) \/ AddCasFail(t))
    BY <2>3 DEF ClaimSlotTaken, Catch, ThreadExit, PopElsewhere, LoadTmp, Publish, ReadNext, PopCasFail, Clear, Scan,
                Delete, AddCas, Exchange, ReadSucc
  <2> QED  BY <2>1, <2>2, <2>3
<1>4. Others(t)
  BY <1>1, OthersKept
<1>5. stack' = stack
  BY <1>1, <1>3, StackKept
<1> QED  BY <1>2, <1>4, <1>5 DEF Others, ops

\* The value is handed to the caller.
LEMMA RefineReturn ==
  ASSUME IInv, IInv', InvCalls, NEW t \in Threads, Return(t)
  PROVE  t \in Poppers /\ Atomic!Return(t)
<1> USE DEF Return, Goto, tables, heap
<1>0. TypeOK /\ t \in Poppers
  BY DEF IInv, SInv, InvCalls
<1>1. Others(t)
  BY <1>0, OthersKept DEF TypeOK
<1>2. stack' = stack
  BY <1>0, StackKept
<1>3. AbstractOp(t).kind = "popped" /\ AbstractOp(t)' = Atomic!Idle
  BY <1>0 DEF TypeOK, AbstractOp, Atomic!Idle
<1> QED  BY <1>0, <1>1, <1>2, <1>3, OpsOf DEF Atomic!Return, ops, stack

\* The lemmas cover every step.
LEMMA RefineStep == IInv /\ IInv' /\ InvCalls /\ [Next]_vars => [Atomic!Next]_(Atomic!aVars)
<1> SUFFICES ASSUME IInv, IInv', InvCalls, [Next]_vars PROVE Atomic!Next \/ UNCHANGED <<stack, ops>>
  BY DEF Atomic!aVars, stack, ops
<1>1. CASE UNCHANGED vars
  BY <1>1 DEF vars, tables, heap, locals, stack, ops, ValuesFrom, Path, AbstractOp
<1>2. Pushers \subseteq Threads /\ Poppers \subseteq Threads
  BY DEF Threads
<1> HIDE DEF stack, ops
<1> QED
  BY <1>1, <1>2, RefinePushStart, RefinePushCas, RefineBegin, RefineValidate, RefinePopCas, RefineSwap, RefineHidden,
     RefineReturn
  DEF Next, Continue, Reclaim, Atomic!Next

\* Linearizability: push and pop are the atomic operations of a LIFO stack,
\* however their steps, the hazard pointers and the reclamation interleave.
THEOREM Linearizable == ASSUME ~OtherStacks PROVE Spec => ImplementsStack
<1>1. Init => Atomic!Init
  BY RefineInit
<1>2. Init => IInv /\ InvCalls
  BY InitInv DEF Init, InvCalls
<1>3. IInv /\ InvCalls /\ [Next]_vars => IInv' /\ InvCalls'
  BY StepInv, CallsStep DEF IInv, SInv
<1>4. IInv /\ InvCalls /\ [Next]_vars => [Atomic!Next]_(Atomic!aVars)
  <2>1. IInv /\ [Next]_vars => IInv'
    BY StepInv
  <2> QED  BY <2>1, RefineStep
<1> QED  BY <1>1, <1>2, <1>3, <1>4, PTL DEF Spec, ImplementsStack, Atomic!Spec
=============================================================================
