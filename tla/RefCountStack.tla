--------------------------- MODULE RefCountStack ---------------------------
(***************************************************************************)
(* ThreadSafeStackWithLockFreeReference: a Treiber stack whose popped      *)
(* nodes are reclaimed with the help of one counter, the number of threads *)
(* inside pop.  (algorithm/thread_safe/stack/                              *)
(* thread_safe_stack_with_lock_free_reference_count.cpp)                   *)
(*                                                                         *)
(* One action is one atomic operation of the code, or one access to memory *)
(* another thread may reach; steps on memory only the running thread can   *)
(* reach are joined with the step before them.  All the atomics use the    *)
(* default memory order (sequentially consistent), so the behaviours are   *)
(* the interleavings of these steps.  A heap address that was deleted may  *)
(* be handed out again by the next `new`, so ABA is a behaviour here.      *)
(***************************************************************************)
EXTENDS Naturals, FiniteSets

CONSTANTS Pushers, Poppers,  \* threads calling push, threads calling pop
          Nodes,             \* heap addresses `new Node` can return
          Null,              \* nullptr
          Values,            \* pushed values; each is pushed once
          NoValue,           \* an empty shared_ptr
          ZeroInit           \* TRUE: std::atomic's constructor value-initialises
                             \* (C++20); FALSE: it leaves garbage (up to C++17)

Threads == Pushers \cup Poppers

ASSUME StackAssumption == /\ Null \notin Nodes
                          /\ NoValue \notin Values
                          /\ IsFiniteSet(Threads) /\ IsFiniteSet(Nodes)
                          /\ ZeroInit \in BOOLEAN

VARIABLES head,      \* _head
          pending,   \* _needToBeDeletedNodes
          cnt,       \* _threadCntInPop
          next,      \* Node::_next
          val,       \* Node::_val
          place,     \* "free": the allocator owns the node; otherwise a ghost:
                     \* which list or thread the node belongs to
          pc,
          newNode,   \* push: newNode
          oldHead,   \* pop: oldHead
          desired,   \* pop: the value of oldHead->_next passed to the CAS
          claimed,   \* tryReclaim: toBeDeletedNodesInMyThread
          mine,      \* ghost: the nodes of the list `claimed` starts
          tail,      \* addLinkInToDeletedNodes: tail
          res,       \* pop: res
          pushed     \* bounds the run: the values pushed so far

heap   == <<next, val, place>>
locals == <<newNode, oldHead, desired, claimed, mine, tail, res>>
vars   == <<head, pending, cnt, heap, pc, locals, pushed>>

Pointers == Nodes \cup {Null}
Places   == {"free", "new", "stack", "popped", "pending", "claimed"}
Labels   == {"idle", "push_cas", "pop_load", "pop_next", "pop_cas", "pop_swap",
             "check", "claim", "leave_alone", "delete_claimed", "find_tail",
             "link_load", "link_cas", "delete_old", "add_load", "add_cas", "leave"}

\* What the reads of the uninitialised members may return before C++20.
GarbagePointers == IF ZeroInit THEN {Null} ELSE Pointers
GarbageCounts   == IF ZeroInit THEN {0} ELSE 0..1

Init ==
  /\ head \in GarbagePointers
  /\ pending \in GarbagePointers
  /\ cnt \in GarbageCounts
  /\ next = [n \in Nodes |-> Null]
  /\ val = [n \in Nodes |-> NoValue]
  /\ place = [n \in Nodes |-> "free"]
  /\ pc = [t \in Threads |-> "idle"]
  /\ newNode = [t \in Threads |-> Null]
  /\ oldHead = [t \in Threads |-> Null]
  /\ desired = [t \in Threads |-> Null]
  /\ claimed = [t \in Threads |-> Null]
  /\ mine = [t \in Threads |-> {}]
  /\ tail = [t \in Threads |-> Null]
  /\ res = [t \in Threads |-> NoValue]
  /\ pushed = {}

Goto(t, from, to) == pc[t] = from /\ pc' = [pc EXCEPT ![t] = to]

Move(S, where) == place' = [n \in Nodes |-> IF n \in S THEN where ELSE place[n]]

-----------------------------------------------------------------------------
(* push *)

\* new Node(val); newNode->_next = _head.load().
PushStart(t, v) ==
  /\ Goto(t, "idle", "push_cas")
  /\ v \notin pushed
  /\ pushed' = pushed \cup {v}
  /\ \E n \in Nodes :
       /\ place[n] = "free"
       /\ Move({n}, "new")
       /\ val' = [val EXCEPT ![n] = v]
       /\ next' = [next EXCEPT ![n] = head]
       /\ newNode' = [newNode EXCEPT ![t] = n]
  /\ UNCHANGED <<head, pending, cnt, oldHead, desired, claimed, mine, tail, res>>

PushCas_Store(t) ==
  /\ Goto(t, "push_cas", "idle")
  /\ head' = newNode[t]
  /\ Move({newNode[t]}, "stack")
  /\ newNode' = [newNode EXCEPT ![t] = Null]
  /\ UNCHANGED <<pending, cnt, next, val, oldHead, desired, claimed, mine, tail, res, pushed>>

PushCas(t) ==
  /\ Goto(t, "push_cas", "idle")
  /\ head = next[newNode[t]]
  /\ head' = newNode[t]
  /\ Move({newNode[t]}, "stack")
  /\ newNode' = [newNode EXCEPT ![t] = Null]
  /\ UNCHANGED <<pending, cnt, next, val, oldHead, desired, claimed, mine, tail, res, pushed>>

PushCasFail_KeepsExpected(t) ==
  /\ pc[t] = "push_cas"
  /\ head # next[newNode[t]]
  /\ UNCHANGED vars

\* A failed CAS stores the current head in newNode->_next.
PushCasFail(t) ==
  /\ pc[t] = "push_cas"
  /\ head # next[newNode[t]]
  /\ next' = [next EXCEPT ![newNode[t]] = head]
  /\ UNCHANGED <<head, pending, cnt, val, place, pc, locals, pushed>>

-----------------------------------------------------------------------------
(* pop, up to the removal of the head *)

PopEnter(t) ==
  /\ Goto(t, "idle", "pop_load")
  /\ cnt' = cnt + 1
  /\ UNCHANGED <<head, pending, heap, locals, pushed>>

\* oldHead := head; the loop ends when it is null.
TakeHead(t, from) ==
  /\ Goto(t, from, IF head = Null THEN "check" ELSE "pop_next")
  /\ oldHead' = [oldHead EXCEPT ![t] = head]
  /\ desired' = [desired EXCEPT ![t] = Null]
  /\ UNCHANGED <<head, pending, cnt, heap, newNode, claimed, mine, tail, res, pushed>>

PopLoad(t) == TakeHead(t, "pop_load")

\* oldHead->_next is read before the CAS: another thread may already have
\* popped the node and be rewriting its _next.
PopReadNext(t) ==
  /\ Goto(t, "pop_next", "pop_cas")
  /\ desired' = [desired EXCEPT ![t] = next[oldHead[t]]]
  /\ UNCHANGED <<head, pending, cnt, heap, newNode, oldHead, claimed, mine, tail, res, pushed>>

PopCas(t) ==
  /\ Goto(t, "pop_cas", "pop_swap")
  /\ head = oldHead[t]
  /\ head' = desired[t]
  /\ Move({oldHead[t]}, "popped")
  /\ desired' = [desired EXCEPT ![t] = Null]
  /\ UNCHANGED <<pending, cnt, next, val, newNode, oldHead, claimed, mine, tail, res, pushed>>

PopCasFail_KeepsNext(t) ==
  /\ Goto(t, "pop_cas", IF head = Null THEN "check" ELSE "pop_cas")
  /\ oldHead' = [oldHead EXCEPT ![t] = head]
  /\ UNCHANGED <<head, pending, cnt, heap, newNode, desired, claimed, mine, tail, res, pushed>>

\* compare_exchange_weak may also fail when head = oldHead.
PopCasFail(t) == TakeHead(t, "pop_cas")

\* res.swap(oldHead->_val)
PopSwap(t) ==
  /\ Goto(t, "pop_swap", "check")
  /\ res' = [res EXCEPT ![t] = val[oldHead[t]]]
  /\ val' = [val EXCEPT ![oldHead[t]] = NoValue]
  /\ UNCHANGED <<head, pending, cnt, next, place, newNode, oldHead, desired, claimed, mine, tail, pushed>>

-----------------------------------------------------------------------------
(* tryReclaim *)

Check_TwoIsAlone(t) ==
  /\ Goto(t, "check", IF cnt <= 2 THEN "claim" ELSE IF oldHead[t] # Null THEN "add_load" ELSE "leave")
  /\ UNCHANGED <<head, pending, cnt, heap, locals, pushed>>

\* if (_threadCntInPop.load() == 1)
Check(t) ==
  /\ Goto(t, "check", CASE cnt = 1 -> "claim"
                        [] cnt # 1 /\ oldHead[t] # Null -> "add_load"
                        [] OTHER -> "leave")
  /\ UNCHANGED <<head, pending, cnt, heap, locals, pushed>>

\* _needToBeDeletedNodes.exchange(nullptr)
Claim(t) ==
  LET all == {n \in Nodes : place[n] = "pending"} IN
  /\ Goto(t, "claim", "leave_alone")
  /\ claimed' = [claimed EXCEPT ![t] = pending]
  /\ mine' = [mine EXCEPT ![t] = all]
  /\ Move(all, "claimed")
  /\ pending' = Null
  /\ UNCHANGED <<head, cnt, next, val, newNode, oldHead, desired, tail, res, pushed>>

LeaveAlone_DropsList(t) ==
  /\ Goto(t, "leave_alone", IF cnt = 1 THEN "delete_claimed" ELSE "delete_old")
  /\ cnt' = cnt - 1
  /\ UNCHANGED <<head, pending, heap, locals, pushed>>

\* if (!--_threadCntInPop) ... else if (toBeDeletedNodesInMyThread) ...
LeaveAlone(t) ==
  /\ Goto(t, "leave_alone", CASE cnt = 1 -> "delete_claimed"
                              [] cnt # 1 /\ claimed[t] # Null -> "find_tail"
                              [] OTHER -> "delete_old")
  /\ cnt' = cnt - 1
  /\ tail' = [tail EXCEPT ![t] = IF cnt = 1 THEN Null ELSE claimed[t]]
  /\ UNCHANGED <<head, pending, heap, newNode, oldHead, desired, claimed, mine, res, pushed>>

\* One iteration of deleteNodes.
DeleteClaimed(t) ==
  /\ pc[t] = "delete_claimed"
  /\ claimed[t] # Null
  /\ claimed' = [claimed EXCEPT ![t] = next[claimed[t]]]
  /\ mine' = [mine EXCEPT ![t] = @ \ {claimed[t]}]
  /\ Move({claimed[t]}, "free")
  /\ UNCHANGED <<head, pending, cnt, next, val, pc, newNode, oldHead, desired, tail, res, pushed>>

DeleteClaimedEnd(t) ==
  /\ claimed[t] = Null
  /\ Goto(t, "delete_claimed", "delete_old")
  /\ UNCHANGED <<head, pending, cnt, heap, locals, pushed>>

FindTail_FirstIsTail(t) ==
  /\ Goto(t, "find_tail", "link_load")
  /\ UNCHANGED <<head, pending, cnt, heap, locals, pushed>>

\* addLinkInToDeletedNodes: while (tail->_next) tail = tail->_next.
FindTail(t) ==
  /\ Goto(t, "find_tail", IF next[tail[t]] = Null THEN "link_load" ELSE "find_tail")
  /\ tail' = [tail EXCEPT ![t] = IF next[@] = Null THEN @ ELSE next[@]]
  /\ UNCHANGED <<head, pending, cnt, heap, newNode, oldHead, desired, claimed, mine, res, pushed>>

\* addInToDeletedNodesWithFirstAndLast: last->_next := _needToBeDeletedNodes,
\* by the load before the loop or by a failed CAS.
PointLast(last) ==
  /\ next' = [next EXCEPT ![last] = pending]
  /\ UNCHANGED <<head, pending, cnt, val, place, locals, pushed>>

LinkLoad(t) == Goto(t, "link_load", "link_cas") /\ PointLast(tail[t])
LinkCasFail(t) == Goto(t, "link_cas", "link_cas") /\ pending # next[tail[t]] /\ PointLast(tail[t])
LinkCas(t) ==
  /\ Goto(t, "link_cas", "delete_old")
  /\ pending = next[tail[t]]
  /\ pending' = claimed[t]
  /\ Move(mine[t], "pending")
  /\ mine' = [mine EXCEPT ![t] = {}]
  /\ claimed' = [claimed EXCEPT ![t] = Null]
  /\ tail' = [tail EXCEPT ![t] = Null]
  /\ UNCHANGED <<head, cnt, next, val, newNode, oldHead, desired, res, pushed>>

AddLoad(t) == Goto(t, "add_load", "add_cas") /\ PointLast(oldHead[t])
AddCasFail(t) == Goto(t, "add_cas", "add_cas") /\ pending # next[oldHead[t]] /\ PointLast(oldHead[t])
AddCas(t) ==
  /\ Goto(t, "add_cas", "leave")
  /\ pending = next[oldHead[t]]
  /\ pending' = oldHead[t]
  /\ Move({oldHead[t]}, "pending")
  /\ UNCHANGED <<head, cnt, next, val, locals, pushed>>

\* The locals of pop go out of scope, res is handed to the caller.
Return(t, from) ==
  /\ Goto(t, from, "idle")
  /\ oldHead' = [oldHead EXCEPT ![t] = Null]
  /\ res' = [res EXCEPT ![t] = NoValue]
  /\ UNCHANGED <<head, pending, next, val, newNode, desired, claimed, mine, tail, pushed>>

\* if (oldHead) delete oldHead; return.
DeleteOld(t) ==
  /\ Return(t, "delete_old")
  /\ Move({oldHead[t]}, "free")
  /\ UNCHANGED cnt

Leave_Uncounted(t) ==
  /\ Return(t, "leave")
  /\ UNCHANGED <<cnt, place>>

Leave_Twice(t) ==
  /\ Return(t, "leave")
  /\ cnt' = cnt - 2
  /\ UNCHANGED place

\* --_threadCntInPop at the end of the other branch; return.
Leave(t) ==
  /\ Return(t, "leave")
  /\ cnt' = cnt - 1
  /\ UNCHANGED place

-----------------------------------------------------------------------------
TryReclaim(t) ==
  \/ Check(t) \/ Claim(t) \/ LeaveAlone(t)
  \/ DeleteClaimed(t) \/ DeleteClaimedEnd(t)
  \/ FindTail(t) \/ LinkLoad(t) \/ LinkCas(t) \/ LinkCasFail(t)
  \/ AddLoad(t) \/ AddCas(t) \/ AddCasFail(t)
  \/ DeleteOld(t) \/ Leave(t)

\* The steps of an operation that has begun.
Continue(t) ==
  \/ PushCas(t) \/ PushCasFail(t)
  \/ PopLoad(t) \/ PopReadNext(t) \/ PopCas(t) \/ PopCasFail(t) \/ PopSwap(t)
  \/ TryReclaim(t)

Next == \/ \E t \in Pushers, v \in Values : PushStart(t, v)
        \/ \E t \in Poppers : PopEnter(t)
        \/ \E t \in Threads : Continue(t)

Spec == Init /\ [][Next]_vars

\* The scheduler runs every thread that is inside an operation, and
\* compare_exchange_weak does not fail spuriously for ever.
Fairness == \A t \in Threads : WF_vars(Continue(t)) /\ SF_vars(PopCas(t))

FairSpec == Spec /\ Fairness

-----------------------------------------------------------------------------
(* Properties *)

\* pop has been counted and not yet uncounted.
InPop(t) == pc[t] \in {"pop_load", "pop_next", "pop_cas", "pop_swap", "check",
                       "claim", "leave_alone", "add_load", "add_cas", "leave"}

TypeOK ==
  /\ head \in Pointers
  /\ pending \in Pointers
  /\ cnt \in Nat
  /\ next \in [Nodes -> Pointers]
  /\ val \in [Nodes -> Values \cup {NoValue}]
  /\ place \in [Nodes -> Places]
  /\ pc \in [Threads -> Labels]
  /\ newNode \in [Threads -> Pointers]
  /\ oldHead \in [Threads -> Pointers]
  /\ desired \in [Threads -> Pointers]
  /\ claimed \in [Threads -> Pointers]
  /\ mine \in [Threads -> SUBSET Nodes]
  /\ tail \in [Threads -> Pointers]
  /\ res \in [Threads -> Values \cup {NoValue}]
  /\ pushed \subseteq Values

\* The pointer a thread's next step dereferences or deletes.
Touches(t, n) ==
  \/ pc[t] = "push_cas" /\ n = newNode[t]
  \/ pc[t] \in {"pop_next", "pop_swap", "add_load", "add_cas"} /\ n = oldHead[t]
  \/ pc[t] = "delete_old" /\ n = oldHead[t] /\ n # Null
  \/ pc[t] = "delete_claimed" /\ n = claimed[t] /\ n # Null
  \/ pc[t] \in {"find_tail", "link_load", "link_cas"} /\ n = tail[t]

\* No thread dereferences or deletes a null pointer or memory that was already
\* given back: what the counting of threads in pop is for.
NoUseAfterFree ==
  \A t \in Threads, n \in Pointers : Touches(t, n) => n # Null /\ place[n] # "free"

\* A pop whose CAS is about to succeed installs the node that is the head's
\* successor now: its earlier read of oldHead->_next is not stale, whatever
\* pops, reclamations and reuses of the address (ABA) happened in between.
NoStaleNext ==
  \A t \in Threads :
    pc[t] = "pop_cas" /\ head = oldHead[t] => desired[t] = next[oldHead[t]]

\* _threadCntInPop is the number of threads inside pop; in particular the
\* unsigned counter never wraps below zero.
CountsPoppers == cnt = Cardinality({t \in Threads : InPop(t)})
=============================================================================
