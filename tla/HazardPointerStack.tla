------------------------- MODULE HazardPointerStack -------------------------
(***************************************************************************)
(* ThreadSafeStackWithLockFreeHazardPointer: a Treiber stack whose popped  *)
(* nodes are reclaimed once no hazard pointer holds them.                  *)
(* (algorithm/thread_safe/stack/                                           *)
(* thread_safe_stack_with_lock_free_hazard_pointer.cpp)                    *)
(*                                                                         *)
(* One action is one atomic operation, or one access to memory another     *)
(* thread may reach.  The module models one stack object with its table of *)
(* slots.  A thread has one holder, a thread_local, that names the slot it *)
(* claimed at its first pop; that pop may be of another stack object,      *)
(* which has a table of its own.  The atomics start out zero, as their     *)
(* constructor leaves them since C++20.                                    *)
(***************************************************************************)
EXTENDS Naturals, FiniteSets

CONSTANTS Pushers, Poppers,  \* threads calling push, threads calling pop
          Nodes,             \* heap addresses `new Node` can return
          Null,              \* nullptr
          Values,            \* pushed values; each is pushed once
          NoValue,           \* an empty shared_ptr
          NoThread,          \* a default-constructed std::thread::id
          MaxHazardPointerSize,
          OtherStacks        \* TRUE: the program has other such stacks, of any T

Threads   == Pushers \cup Poppers
Slots     == 1..MaxHazardPointerSize
NoHolder  == 0                         \* hph is not constructed yet
Elsewhere == MaxHazardPointerSize + 1  \* hph is a slot of another stack's table

ASSUME HazardAssumption == /\ Null \notin Nodes
                           /\ NoValue \notin Values
                           /\ NoThread \notin Threads
                           /\ IsFiniteSet(Threads)
                           /\ IsFiniteSet(Nodes)
                           /\ MaxHazardPointerSize \in Nat \ {0}
                           /\ OtherStacks \in BOOLEAN

VARIABLES head,      \* _head
          pending,   \* _needToBeDeletedNodes
          id,        \* HazardPointer::id of each slot
          pointer,   \* HazardPointer::pointer of each slot
          holder,    \* hph, the thread_local: the slot its _hp points to
          next,      \* Node::_next
          val,       \* Node::_val
          place,     \* "free": the allocator owns the node; otherwise a ghost:
                     \* which list or thread the node belongs to
          pc,
          newNode,   \* push: newNode
          tmp,       \* pop: tmp
          oldHead,   \* pop: oldHead
          desired,   \* pop: the value of oldHead->_next passed to the CAS
          slot,      \* the loops over the table: i
          node,      \* the node being tested, put aside or deleted: pop's
                     \* oldHead, later tryReclaim's currentNode
          after,     \* where the thread goes on when it is done with node
          nextNode,  \* tryReclaim...: nextNode
          mine,      \* ghost: the nodes from currentNode on
          res,       \* pop: res
          pushed     \* bounds the run: the values pushed so far

tables == <<id, pointer, holder>>
heap   == <<next, val, place>>
locals == <<newNode, tmp, oldHead, desired, slot, node, after, nextNode, mine, res>>
vars   == <<head, pending, tables, heap, pc, locals, pushed>>

Pointers == Nodes \cup {Null}
Places   == {"free", "new", "stack", "popped", "pending", "claimed"}
Labels   == {"idle", "push_cas", "claim_slot", "thrown", "load_tmp", "publish",
             "validate", "read_next", "pop_cas", "clear", "swap", "scan", "delete",
             "add_load", "add_cas", "exchange", "read_succ", "return", "exited"}

Init ==
  /\ head = Null
  /\ pending = Null
  /\ id = [i \in Slots |-> NoThread]
  /\ pointer = [i \in Slots |-> Null]
  /\ holder = [t \in Threads |-> NoHolder]
  /\ next = [n \in Nodes |-> Null]
  /\ val = [n \in Nodes |-> NoValue]
  /\ place = [n \in Nodes |-> "free"]
  /\ pc = [t \in Threads |-> "idle"]
  /\ newNode = [t \in Threads |-> Null]
  /\ tmp = [t \in Threads |-> Null]
  /\ oldHead = [t \in Threads |-> Null]
  /\ desired = [t \in Threads |-> Null]
  /\ slot = [t \in Threads |-> 1]
  /\ node = [t \in Threads |-> Null]
  /\ after = [t \in Threads |-> "exchange"]
  /\ nextNode = [t \in Threads |-> Null]
  /\ mine = [t \in Threads |-> {}]
  /\ res = [t \in Threads |-> NoValue]
  /\ pushed = {}

Goto(t, from, to) == pc[t] = from /\ pc' = [pc EXCEPT ![t] = to]

Move(S, where) == place' = [n \in Nodes |-> IF n \in S THEN where ELSE place[n]]

-----------------------------------------------------------------------------
(* push *)

\* new Node(val); newNode->_next = _head.load().
PushStart(t, v) ==
  /\ Goto(t, "idle", "push_cas")
  /\ v \notin pushed
  /\ pushed' = pushed \cup {v}
  /\ \E n \in Nodes :
       /\ place[n] = "free"
       /\ Move({n}, "new")
       /\ val' = [val EXCEPT ![n] = v]
       /\ next' = [next EXCEPT ![n] = head]
       /\ newNode' = [newNode EXCEPT ![t] = n]
  /\ UNCHANGED <<head, pending, tables, tmp, oldHead, desired, slot, node, after, nextNode, mine, res>>

PushCas_Store(t) ==
  /\ Goto(t, "push_cas", "idle")
  /\ head' = newNode[t]
  /\ Move({newNode[t]}, "stack")
  /\ newNode' = [newNode EXCEPT ![t] = Null]
  /\ UNCHANGED <<pending, tables, next, val, tmp, oldHead, desired, slot, node, after, nextNode, mine, res, pushed>>

PushCas(t) ==
  /\ Goto(t, "push_cas", "idle")
  /\ head = next[newNode[t]]
  /\ head' = newNode[t]
  /\ Move({newNode[t]}, "stack")
  /\ newNode' = [newNode EXCEPT ![t] = Null]
  /\ UNCHANGED <<pending, tables, next, val, tmp, oldHead, desired, slot, node, after, nextNode, mine, res, pushed>>

\* A failed CAS stores the current head in newNode->_next.
PushCasFail(t) ==
  /\ pc[t] = "push_cas"
  /\ head # next[newNode[t]]
  /\ next' = [next EXCEPT ![newNode[t]] = head]
  /\ UNCHANGED <<head, pending, tables, val, place, pc, locals, pushed>>

-----------------------------------------------------------------------------
(* The thread's hazard pointer *)

\* getMyThreadHazardPointer: the holder is constructed at the thread's first pop.
PopStart(t) ==
  /\ Goto(t, "idle", IF holder[t] = NoHolder THEN "claim_slot" ELSE "load_tmp")
  /\ UNCHANGED <<head, pending, tables, heap, locals, pushed>>

ClaimSlot_Store(t) ==
  /\ Goto(t, "claim_slot", "load_tmp")
  /\ id' = [id EXCEPT ![slot[t]] = t]
  /\ holder' = [holder EXCEPT ![t] = slot[t]]
  /\ slot' = [slot EXCEPT ![t] = 1]
  /\ UNCHANGED <<head, pending, pointer, heap, newNode, tmp, oldHead, desired, node, after, nextNode, mine, res, pushed>>

\* id.compare_exchange_strong(oldId, myThreadId) takes a slot nobody owns ...
ClaimSlot(t) ==
  /\ Goto(t, "claim_slot", "load_tmp")
  /\ id[slot[t]] = NoThread
  /\ id' = [id EXCEPT ![slot[t]] = t]
  /\ holder' = [holder EXCEPT ![t] = slot[t]]
  /\ slot' = [slot EXCEPT ![t] = 1]
  /\ UNCHANGED <<head, pending, pointer, heap, newNode, tmp, oldHead, desired, node, after, nextNode, mine, res, pushed>>

ClaimSlotTaken_GivesUp(t) ==
  /\ Goto(t, "claim_slot", "thrown")
  /\ id[slot[t]] # NoThread
  /\ slot' = [slot EXCEPT ![t] = 1]
  /\ UNCHANGED <<head, pending, tables, heap, newNode, tmp, oldHead, desired, node, after, nextNode, mine, res, pushed>>

\* ... and goes on to the next; past the last one the constructor throws.
ClaimSlotTaken(t) ==
  /\ Goto(t, "claim_slot", IF slot[t] < MaxHazardPointerSize THEN "claim_slot" ELSE "thrown")
  /\ id[slot[t]] # NoThread
  /\ slot' = [slot EXCEPT ![t] = IF @ < MaxHazardPointerSize THEN @ + 1 ELSE 1]
  /\ UNCHANGED <<head, pending, tables, heap, newNode, tmp, oldHead, desired, node, after, nextNode, mine, res, pushed>>

\* The exception leaves pop; the caller may call it again.
Catch(t) ==
  /\ Goto(t, "thrown", "idle")
  /\ UNCHANGED <<head, pending, tables, heap, locals, pushed>>

\* ~HazardPointerHolder does nothing: the slot keeps the id of the thread.
ThreadExit(t) ==
  /\ Goto(t, "idle", "exited")
  /\ holder' = [holder EXCEPT ![t] = NoHolder]
  /\ UNCHANGED <<head, pending, id, pointer, heap, locals, pushed>>

\* The thread's first pop is of another stack: it gets a slot of that table.
PopElsewhere(t) ==
  /\ OtherStacks
  /\ pc[t] = "idle"
  /\ holder[t] = NoHolder
  /\ holder' = [holder EXCEPT ![t] = Elsewhere]
  /\ UNCHANGED <<head, pending, id, pointer, heap, pc, locals, pushed>>

\* hp.store(p), in the table the holder belongs to.
SetPointer(t, p) ==
  pointer' = IF holder[t] \in Slots THEN [pointer EXCEPT ![holder[t]] = p] ELSE pointer

-----------------------------------------------------------------------------
(* pop, up to the removal of the head *)

LoadTmp(t) ==
  /\ Goto(t, "load_tmp", "publish")
  /\ tmp' = [tmp EXCEPT ![t] = head]
  /\ UNCHANGED <<head, pending, tables, heap, newNode, oldHead, desired, slot, node, after, nextNode, mine, res, pushed>>

Publish(t) ==
  /\ Goto(t, "publish", "validate")
  /\ SetPointer(t, tmp[t])
  /\ UNCHANGED <<head, pending, id, holder, heap, locals, pushed>>

Validate_Skipped(t) ==
  /\ Goto(t, "validate", IF tmp[t] = Null THEN "clear" ELSE "read_next")
  /\ oldHead' = [oldHead EXCEPT ![t] = tmp[t]]
  /\ UNCHANGED <<head, pending, tables, heap, newNode, tmp, desired, slot, node, after, nextNode, mine, res, pushed>>

\* oldHead = _head.load(); the inner loop ends when it is still tmp, the outer
\* one when it is null.
Validate(t) ==
  LET h == head IN
  /\ Goto(t, "validate", CASE h # tmp[t]              -> "load_tmp"
                           [] h = tmp[t] /\ h = Null  -> "clear"
                           [] OTHER                   -> "read_next")
  /\ oldHead' = [oldHead EXCEPT ![t] = h]
  /\ tmp' = [tmp EXCEPT ![t] = Null]
  /\ UNCHANGED <<head, pending, tables, heap, newNode, desired, slot, node, after, nextNode, mine, res, pushed>>

ReadNext(t) ==
  /\ Goto(t, "read_next", "pop_cas")
  /\ desired' = [desired EXCEPT ![t] = next[oldHead[t]]]
  /\ UNCHANGED <<head, pending, tables, heap, newNode, tmp, oldHead, slot, node, after, nextNode, mine, res, pushed>>

PopCas(t) ==
  /\ Goto(t, "pop_cas", "clear")
  /\ head = oldHead[t]
  /\ head' = desired[t]
  /\ Move({oldHead[t]}, "popped")
  /\ desired' = [desired EXCEPT ![t] = Null]
  /\ UNCHANGED <<pending, tables, next, val, newNode, tmp, oldHead, slot, node, after, nextNode, mine, res, pushed>>

PopCasFail_KeepsNode(t) ==
  /\ Goto(t, "pop_cas", IF head = Null THEN "clear" ELSE "read_next")
  /\ oldHead' = [oldHead EXCEPT ![t] = head]
  /\ desired' = [desired EXCEPT ![t] = Null]
  /\ UNCHANGED <<head, pending, tables, heap, newNode, tmp, slot, node, after, nextNode, mine, res, pushed>>

\* The loops start over; compare_exchange_weak may also fail spuriously.
PopCasFail(t) ==
  /\ Goto(t, "pop_cas", "load_tmp")
  /\ oldHead' = [oldHead EXCEPT ![t] = head]
  /\ desired' = [desired EXCEPT ![t] = Null]
  /\ UNCHANGED <<head, pending, tables, heap, newNode, tmp, slot, node, after, nextNode, mine, res, pushed>>

\* hp.store(nullptr)
Clear(t) ==
  /\ Goto(t, "clear", IF oldHead[t] = Null THEN "return" ELSE "swap")
  /\ SetPointer(t, Null)
  /\ UNCHANGED <<head, pending, id, holder, heap, locals, pushed>>

Swap(t) ==
  /\ Goto(t, "swap", "scan")
  /\ res' = [res EXCEPT ![t] = val[oldHead[t]]]
  /\ val' = [val EXCEPT ![oldHead[t]] = NoValue]
  /\ node' = [node EXCEPT ![t] = oldHead[t]]
  /\ after' = [after EXCEPT ![t] = "exchange"]
  /\ UNCHANGED <<head, pending, tables, next, place, newNode, tmp, oldHead, desired, slot, nextNode, mine, pushed>>

-----------------------------------------------------------------------------
(* Reclamation: the popped node first, then every node put aside *)

Scan_FirstSlotOnly(t) ==
  /\ Goto(t, "scan", IF pointer[1] = node[t] THEN "add_load" ELSE "delete")
  /\ UNCHANGED <<head, pending, tables, heap, locals, pushed>>

\* isStoreInGlobalHazardPointer: one slot of this stack's table at a time.
Scan(t) ==
  LET found == pointer[slot[t]] = node[t]
      more  == slot[t] < MaxHazardPointerSize IN
  /\ Goto(t, "scan", CASE found           -> "add_load"
                       [] ~found /\ more  -> "scan"
                       [] OTHER           -> "delete")
  /\ slot' = [slot EXCEPT ![t] = IF ~found /\ more THEN @ + 1 ELSE 1]
  /\ UNCHANGED <<head, pending, tables, heap, newNode, tmp, oldHead, desired, node, after, nextNode, mine, res, pushed>>

\* The popped node leads to the exchange, a claimed one to the one after it.
Proceed(t, from) ==
  LET to == IF after[t] = "exchange" THEN "exchange"
            ELSE IF nextNode[t] = Null THEN "return" ELSE "read_succ" IN
  /\ Goto(t, from, to)
  /\ node' = [node EXCEPT ![t] = nextNode[t]]
  /\ nextNode' = [nextNode EXCEPT ![t] = Null]
  /\ mine' = [mine EXCEPT ![t] = @ \ {node[t]}]

Delete(t) ==
  /\ Proceed(t, "delete")
  /\ Move({node[t]}, "free")
  /\ UNCHANGED <<head, pending, tables, next, val, newNode, tmp, oldHead, desired, slot, after, res, pushed>>

\* addNodeInToDeletedNodes: node->_next := _needToBeDeletedNodes, by the load
\* before the loop or by a failed CAS.
PointNode(t) ==
  /\ next' = [next EXCEPT ![node[t]] = pending]
  /\ UNCHANGED <<head, pending, tables, val, place, locals, pushed>>

AddLoad(t)    == Goto(t, "add_load", "add_cas") /\ PointNode(t)
AddCasFail(t) == Goto(t, "add_cas", "add_cas") /\ pending # next[node[t]] /\ PointNode(t)

AddCas_Store(t) ==
  /\ Proceed(t, "add_cas")
  /\ pending' = node[t]
  /\ Move({node[t]}, "pending")
  /\ UNCHANGED <<head, tables, next, val, newNode, tmp, oldHead, desired, slot, after, res, pushed>>

AddCas(t) ==
  /\ Proceed(t, "add_cas")
  /\ pending = next[node[t]]
  /\ pending' = node[t]
  /\ Move({node[t]}, "pending")
  /\ UNCHANGED <<head, tables, next, val, newNode, tmp, oldHead, desired, slot, after, res, pushed>>

\* _needToBeDeletedNodes.exchange(nullptr)
Exchange(t) ==
  LET all == {n \in Nodes : place[n] = "pending"} IN
  /\ Goto(t, "exchange", IF pending = Null THEN "return" ELSE "read_succ")
  /\ node' = [node EXCEPT ![t] = pending]
  /\ mine' = [mine EXCEPT ![t] = all]
  /\ Move(all, "claimed")
  /\ pending' = Null
  /\ UNCHANGED <<head, tables, next, val, newNode, tmp, oldHead, desired, slot, after, nextNode, res, pushed>>

ReadSucc_Missed(t) ==
  /\ Goto(t, "read_succ", "scan")
  /\ nextNode' = [nextNode EXCEPT ![t] = Null]
  /\ after' = [after EXCEPT ![t] = "advance"]
  /\ UNCHANGED <<head, pending, tables, heap, newNode, tmp, oldHead, desired, slot, node, mine, res, pushed>>

\* nextNode = currentNode->_next, before the node is put aside or deleted.
ReadSucc(t) ==
  /\ Goto(t, "read_succ", "scan")
  /\ nextNode' = [nextNode EXCEPT ![t] = next[node[t]]]
  /\ after' = [after EXCEPT ![t] = "advance"]
  /\ UNCHANGED <<head, pending, tables, heap, newNode, tmp, oldHead, desired, slot, node, mine, res, pushed>>

\* The locals of pop go out of scope, res is handed to the caller.
Return(t) ==
  /\ Goto(t, "return", "idle")
  /\ oldHead' = [oldHead EXCEPT ![t] = Null]
  /\ after' = [after EXCEPT ![t] = "exchange"]
  /\ res' = [res EXCEPT ![t] = NoValue]
  /\ UNCHANGED <<head, pending, tables, heap, newNode, tmp, desired, slot, node, nextNode, mine, pushed>>

-----------------------------------------------------------------------------
Reclaim(t) ==
  \/ Scan(t) \/ Delete(t) \/ AddLoad(t) \/ AddCas(t) \/ AddCasFail(t)
  \/ Exchange(t) \/ ReadSucc(t) \/ Return(t)

\* The steps of an operation that has begun.
Continue(t) ==
  \/ PushCas(t) \/ PushCasFail(t)
  \/ ClaimSlot(t) \/ ClaimSlotTaken(t) \/ Catch(t)
  \/ LoadTmp(t) \/ Publish(t) \/ Validate(t) \/ ReadNext(t)
  \/ PopCas(t) \/ PopCasFail(t) \/ Clear(t) \/ Swap(t)
  \/ Reclaim(t)

Next == \/ \E t \in Pushers, v \in Values : PushStart(t, v)
        \/ \E t \in Poppers : PopStart(t) \/ PopElsewhere(t) \/ ThreadExit(t)
        \/ \E t \in Threads : Continue(t)

Spec == Init /\ [][Next]_vars

-----------------------------------------------------------------------------
(* Properties *)

TypeOK ==
  /\ head \in Pointers
  /\ pending \in Pointers
  /\ id \in [Slots -> Threads \cup {NoThread}]
  /\ pointer \in [Slots -> Pointers]
  /\ holder \in [Threads -> Slots \cup {NoHolder, Elsewhere}]
  /\ next \in [Nodes -> Pointers]
  /\ val \in [Nodes -> Values \cup {NoValue}]
  /\ place \in [Nodes -> Places]
  /\ pc \in [Threads -> Labels]
  /\ newNode \in [Threads -> Pointers]
  /\ tmp \in [Threads -> Pointers]
  /\ oldHead \in [Threads -> Pointers]
  /\ desired \in [Threads -> Pointers]
  /\ slot \in [Threads -> Slots]
  /\ node \in [Threads -> Pointers]
  /\ after \in [Threads -> {"exchange", "advance"}]
  /\ nextNode \in [Threads -> Pointers]
  /\ mine \in [Threads -> SUBSET Nodes]
  /\ res \in [Threads -> Values \cup {NoValue}]
  /\ pushed \subseteq Values

\* The pointer a thread's next step dereferences or deletes.
Touches(t, n) ==
  \/ pc[t] = "push_cas" /\ n = newNode[t]
  \/ pc[t] \in {"read_next", "swap"} /\ n = oldHead[t]
  \/ pc[t] \in {"delete", "add_load", "add_cas", "read_succ"} /\ n = node[t]

\* No thread dereferences or deletes a null pointer or memory that was already
\* given back: what the hazard pointers are for.
NoUseAfterFree ==
  \A t \in Threads, n \in Pointers : Touches(t, n) => n # Null /\ place[n] # "free"

\* A pop whose CAS is about to succeed installs the node that is the head's
\* successor now, whatever happened since it read oldHead->_next.
NoStaleNext ==
  \A t \in Threads :
    pc[t] = "pop_cas" /\ head = oldHead[t] => desired[t] = next[oldHead[t]]

\* The comments at lines 117 and 147: a thread puts the node it is about to
\* access behind a hazard pointer of its own, and a node is deleted only when
\* no running thread is going to access it.
DeletedUnwatched ==
  \A t, u \in Threads :
    pc[t] = "delete" /\ t # u /\ pc[u] \in {"read_next", "pop_cas"} => oldHead[u] # node[t]

\* Each thread in pop has a slot no other thread shares, and outside the loops
\* of pop nothing is left in it: a stale hazard pointer would keep its node
\* from ever being reclaimed.  "No Hazard pointers available" (line 42) is thrown
\* only if every slot is taken by another thread.
SlotsPrivate ==
  /\ \A t \in Threads : holder[t] \in Slots => id[holder[t]] = t
  /\ \A i \in Slots : pointer[i] # Null =>
       \E t \in Threads : holder[t] = i /\ pc[t] \in {"load_tmp", "publish", "validate",
                                                   "read_next", "pop_cas", "clear"}
  /\ \A t \in Threads : pc[t] = "thrown" => \A i \in Slots : id[i] \notin {NoThread, t}
=============================================================================
