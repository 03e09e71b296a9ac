-------------------------- MODULE DetailLockQueue --------------------------
(***************************************************************************)
(* ThreadSafeQueueWithDetailLock: a linked list with a dummy head node, a  *)
(* mutex for each end and one condition variable.                          *)
(* (algorithm/thread_safe/queue/thread_safe_queue_with_detail_lock.cpp)    *)
(*                                                                         *)
(* A step ends where another thread may come in between: before a mutex is *)
(* taken, between the two writes of a push, where the head mutex is given  *)
(* up to wait, and before the notification.  The two overloads of each pop *)
(* differ only in how they hand the element over.                          *)
(***************************************************************************)
EXTENDS Naturals, FiniteSets

CONSTANTS Pushers, Poppers,  \* threads calling pushElement, threads calling pops
          Calls,             \* what Poppers call: "try" is popElement, "wait" is
                             \* waitAndPopElement with t == 0ms, "timed" with a t
          Nodes,             \* heap addresses make_unique<Node> can return
          Null,              \* nullptr
          Values,            \* pushed elements; each is pushed once
          NoValue,           \* the T() of the first dummy node
          NoThread           \* the owner of a mutex nobody holds

Threads == Pushers \cup Poppers

ASSUME QueueAssumption == /\ IsFiniteSet(Nodes)
                          /\ Null \notin Nodes
                          /\ NoThread \notin Threads
                          /\ NoValue \notin Values
                          /\ Calls \subseteq {"try", "wait", "timed"}

VARIABLES headMutex,  \* the owner of _headMutex
          tailMutex,  \* the owner of _tailMutex
          head,       \* _head
          tail,       \* _tail
          next,       \* Node::_next
          val,        \* *Node::_value
          live,       \* the nodes that are allocated
          pc,
          newNode,    \* pushElement: ptr
          call,       \* the pop in progress
          timedOut,   \* wait_for's deadline has passed
          res,        \* the element popped
          pushed      \* bounds the run: the values pushed so far

mutexes == <<headMutex, tailMutex>>
list    == <<head, tail, next, val, live>>
locals  == <<newNode, call, timedOut, res>>
vars    == <<mutexes, list, pc, locals, pushed>>

Pointers == Nodes \cup {Null}
Labels   == {"idle", "push_lock", "link", "advance", "notify", "pop_lock", "get_tail",
             "read_tail", "block", "waiting", "take", "popped", "failed"}

Init ==
  /\ headMutex = NoThread
  /\ tailMutex = NoThread
  /\ head \in Nodes
  /\ tail = head
  /\ next = [n \in Nodes |-> Null]
  /\ val = [n \in Nodes |-> NoValue]
  /\ live = {head}
  /\ pc = [t \in Threads |-> "idle"]
  /\ newNode = [t \in Threads |-> Null]
  /\ call = [t \in Threads |-> "try"]
  /\ timedOut = [t \in Threads |-> FALSE]
  /\ res = [t \in Threads |-> NoValue]
  /\ pushed = {}

Goto(t, from, to) == pc[t] = from /\ pc' = [pc EXCEPT ![t] = to]

Acquire(mutex, t) == mutex = NoThread /\ mutex' = t
Release(mutex)    == mutex' = NoThread

-----------------------------------------------------------------------------
(* pushElement *)

\* The node is allocated before the lock is taken.
PushStart(t, v) ==
  /\ Goto(t, "idle", "push_lock")
  /\ v \notin pushed
  /\ pushed' = pushed \cup {v}
  /\ \E n \in Nodes \ live :
       /\ live' = live \cup {n}
       /\ next' = [next EXCEPT ![n] = Null]
       /\ val' = [val EXCEPT ![n] = v]
       /\ newNode' = [newNode EXCEPT ![t] = n]
  /\ UNCHANGED <<mutexes, head, tail, call, timedOut, res>>

PushLock(t) ==
  /\ Goto(t, "push_lock", "link")
  /\ Acquire(tailMutex, t)
  /\ UNCHANGED <<headMutex, list, locals, pushed>>

\* _tail->_next = std::move(ptr)
Link(t) ==
  /\ Goto(t, "link", "advance")
  /\ next' = [next EXCEPT ![tail] = newNode[t]]
  /\ newNode' = [newNode EXCEPT ![t] = Null]
  /\ UNCHANGED <<mutexes, head, tail, val, live, call, timedOut, res, pushed>>

Advance_Missing(t) ==
  /\ Goto(t, "advance", "notify")
  /\ Release(tailMutex)
  /\ UNCHANGED <<headMutex, list, locals, pushed>>

\* _tail = _tail->_next.get(); the lock_guard ends with the block.
Advance(t) ==
  /\ Goto(t, "advance", "notify")
  /\ tail' = next[tail]
  /\ Release(tailMutex)
  /\ UNCHANGED <<headMutex, head, next, val, live, locals, pushed>>

\* _cond.notify_all(), with no mutex held: whoever waits now takes the head
\* mutex and evaluates the predicate again.
NotifyAll(t) ==
  /\ pc[t] = "notify"
  /\ pc' = [u \in Threads |-> IF u = t THEN "idle"
                              ELSE IF pc[u] = "waiting" THEN "pop_lock" ELSE pc[u]]
  /\ UNCHANGED <<mutexes, list, locals, pushed>>

-----------------------------------------------------------------------------
(* popElement and waitAndPopElement *)

PopStart(t, c) ==
  /\ Goto(t, "idle", "pop_lock")
  /\ call' = [call EXCEPT ![t] = c]
  /\ UNCHANGED <<mutexes, list, newNode, timedOut, res, pushed>>

PopLock(t) ==
  /\ Goto(t, "pop_lock", "get_tail")
  /\ Acquire(headMutex, t)
  /\ UNCHANGED <<tailMutex, list, locals, pushed>>

GetTail_Unlocked(t) ==
  /\ Goto(t, "get_tail", "read_tail")
  /\ UNCHANGED <<mutexes, list, locals, pushed>>

\* _getTail takes the tail mutex while the head mutex is held.
GetTail(t) ==
  /\ Goto(t, "get_tail", "read_tail")
  /\ Acquire(tailMutex, t)
  /\ UNCHANGED <<headMutex, list, locals, pushed>>

\* An empty queue makes popElement throw, and waitAndPopElement once its time
\* is up; the unique_lock releases the head mutex then.
ThrowsIfEmpty(t) == call[t] = "try" \/ timedOut[t]

ReadTail_ThrowsLate(t) ==
  /\ Goto(t, "read_tail", CASE head # tail /\ ~timedOut[t]      -> "take"
                            [] head # tail /\ timedOut[t]       -> "failed"
                            [] head = tail /\ ThrowsIfEmpty(t)  -> "failed"
                            [] OTHER                            -> "block")
  /\ Release(tailMutex)
  /\ headMutex' = IF pc'[t] = "failed" THEN NoThread ELSE headMutex
  /\ UNCHANGED <<list, locals, pushed>>

ReadTail_NoCheck(t) ==
  /\ Goto(t, "read_tail", "take")
  /\ Release(tailMutex)
  /\ UNCHANGED <<headMutex, list, locals, pushed>>

ReadTail_ThrowsLocked(t) ==
  /\ Goto(t, "read_tail", CASE head # tail                     -> "take"
                            [] head = tail /\ ThrowsIfEmpty(t) -> "failed"
                            [] OTHER                           -> "block")
  /\ Release(tailMutex)
  /\ UNCHANGED <<headMutex, list, locals, pushed>>

\* _getTail returns _tail and releases its mutex; _head.get() is compared to it.
ReadTail(t) ==
  /\ Goto(t, "read_tail", CASE head # tail                     -> "take"
                            [] head = tail /\ ThrowsIfEmpty(t) -> "failed"
                            [] OTHER                           -> "block")
  /\ Release(tailMutex)
  /\ headMutex' = IF head = tail /\ ThrowsIfEmpty(t) THEN NoThread ELSE headMutex
  /\ UNCHANGED <<list, locals, pushed>>

\* The wait gives the head mutex up and blocks, in one step; but the predicate
\* was evaluated in an earlier one.
Block(t) ==
  /\ Goto(t, "block", "waiting")
  /\ Release(headMutex)
  /\ UNCHANGED <<tailMutex, list, locals, pushed>>

\* A condition variable may wake a thread for no reason.
SpuriousWakeup(t) ==
  /\ Goto(t, "waiting", "pop_lock")
  /\ UNCHANGED <<mutexes, list, locals, pushed>>

\* wait_for's time is up: the predicate is evaluated for the last time.
Timeout(t) ==
  /\ Goto(t, "waiting", "pop_lock")
  /\ call[t] = "timed"
  /\ timedOut' = [timedOut EXCEPT ![t] = TRUE]
  /\ UNCHANGED <<mutexes, list, newNode, call, res, pushed>>

\* The element of the node after the dummy is copied, that node becomes the
\* dummy, the old one is deleted, and the head mutex is released.
Take(t) ==
  /\ Goto(t, "take", "popped")
  /\ res' = [res EXCEPT ![t] = val[next[head]]]
  /\ head' = next[head]
  /\ live' = live \ {head}
  /\ Release(headMutex)
  /\ UNCHANGED <<tailMutex, tail, next, val, newNode, call, timedOut, pushed>>

Return(t) ==
  /\ pc[t] \in {"popped", "failed"}
  /\ pc' = [pc EXCEPT ![t] = "idle"]
  /\ call' = [call EXCEPT ![t] = "try"]
  /\ timedOut' = [timedOut EXCEPT ![t] = FALSE]
  /\ res' = [res EXCEPT ![t] = NoValue]
  /\ UNCHANGED <<mutexes, list, newNode, pushed>>

-----------------------------------------------------------------------------
Acquiring(t) == PushLock(t) \/ PopLock(t) \/ GetTail(t)

\* The steps of an operation that has begun and is not waiting.
Continue(t) ==
  \/ Acquiring(t)
  \/ Link(t) \/ Advance(t) \/ NotifyAll(t)
  \/ ReadTail(t) \/ Block(t) \/ Take(t) \/ Return(t)

Next == \/ \E t \in Pushers, v \in Values : PushStart(t, v)
        \/ \E t \in Poppers : \/ \E c \in Calls : PopStart(t, c)
                              \/ SpuriousWakeup(t) \/ Timeout(t)
        \/ \E t \in Threads : Continue(t)

Spec == Init /\ [][Next]_vars

\* main's consumer pops in an endless loop, the scheduler runs every thread that
\* can take a step, a mutex that is free again and again is obtained in the end,
\* and time passes.  Nothing promises a spurious wakeup.
Fairness ==
  \A t \in Threads :
    /\ WF_vars(Continue(t)) /\ SF_vars(Acquiring(t))
    /\ t \in Poppers => WF_vars(\E c \in Calls : PopStart(t, c)) /\ WF_vars(Timeout(t))

FairSpec == Spec /\ Fairness

-----------------------------------------------------------------------------
(* Properties *)

TypeOK ==
  /\ headMutex \in Threads \cup {NoThread}
  /\ tailMutex \in Threads \cup {NoThread}
  /\ head \in Nodes
  /\ tail \in Nodes
  /\ next \in [Nodes -> Pointers]
  /\ val \in [Nodes -> Values \cup {NoValue}]
  /\ live \subseteq Nodes
  /\ pc \in [Threads -> Labels]
  /\ newNode \in [Threads -> Pointers]
  /\ call \in [Threads -> Calls \cup {"try"}]
  /\ timedOut \in [Threads -> BOOLEAN]
  /\ res \in [Threads -> Values \cup {NoValue}]
  /\ pushed \subseteq Values

\* The memory a thread's next step reads and writes: the two pointers of the
\* queue, and the members of nodes that are linked into it.
Reads(t) ==
  CASE pc[t] = "link"      -> {<<"tail", Null>>}
    [] pc[t] = "advance"   -> {<<"tail", Null>>, <<"next", tail>>}
    [] pc[t] = "read_tail" -> {<<"tail", Null>>, <<"head", Null>>}
    [] pc[t] = "take"      -> {<<"head", Null>>, <<"next", head>>, <<"value", next[head]>>}
    [] OTHER               -> {}
Writes(t) ==
  CASE pc[t] = "link"    -> {<<"next", tail>>}
    [] pc[t] = "advance" -> {<<"tail", Null>>}
    [] pc[t] = "take"    -> {<<"head", Null>>, <<"next", head>>, <<"value", head>>}
    [] OTHER             -> {}

\* A pop under the head mutex and a push under the tail mutex never touch the
\* same member of the same node: the dummy node keeps the two ends apart.
NoDataRace ==
  \A t, u \in Threads : t # u => Writes(t) \cap (Reads(u) \cup Writes(u)) = {}

\* No thread follows a null pointer or touches a node that was deleted; in
\* particular _tail, which does not own its node, never dangles.
NoUseAfterFree ==
  /\ tail \in live
  /\ \A t \in Threads : \A a \in Reads(t) \cup Writes(t) :
       a[1] \in {"next", "value"} => a[2] \in live
=============================================================================
