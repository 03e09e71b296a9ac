--------------------------- MODULE WholeLockQueue ---------------------------
(***************************************************************************)
(* ThreadSafeQueueWithLock: a std::queue behind one mutex and one          *)
(* condition variable.                                                     *)
(* (algorithm/thread_safe/queue/thread_safe_queue_with_whole_lock.cpp)     *)
(*                                                                         *)
(* A step takes the mutex, or is what a thread does while it holds it up   *)
(* to the next call on the condition variable.  The two overloads of each  *)
(* pop differ only in how they hand the element over.                      *)
(***************************************************************************)
EXTENDS Naturals, FiniteSets, Sequences

CONSTANTS Pushers, Poppers,  \* threads calling push, threads calling the rest
          Calls,             \* what Poppers call: "wait" is wait_and_pop, "try"
                             \* is try_pop, "is_empty" is isEmpty
          Values,            \* pushed elements; each is pushed once
          NoValue,           \* an empty shared_ptr, or false
          NoThread           \* the owner of a mutex nobody holds

Threads == Pushers \cup Poppers

ASSUME QueueAssumption == /\ NoThread \notin Threads
                          /\ NoValue \notin Values
                          /\ Calls \subseteq {"wait", "try", "is_empty"}

VARIABLES mutex,    \* the owner of _mutex
          data,     \* _data
          alive,    \* the destructor has not run yet
          pc,
          element,  \* push: ptr
          call,     \* the call of a popper in progress
          res,      \* the element popped
          pushed    \* bounds the run: the values pushed so far

locals == <<element, call, res>>
vars   == <<mutex, data, alive, pc, locals, pushed>>

Labels == {"idle", "push_lock", "append", "notify", "lock", "test", "block", "waiting",
           "take", "popped", "failed", "empty", "not empty"}

Init ==
  /\ mutex = NoThread
  /\ data = <<>>
  /\ alive = TRUE
  /\ pc = [t \in Threads |-> "idle"]
  /\ element = [t \in Threads |-> NoValue]
  /\ call = [t \in Threads |-> "try"]
  /\ res = [t \in Threads |-> NoValue]
  /\ pushed = {}

Goto(t, from, to) == pc[t] = from /\ pc' = [pc EXCEPT ![t] = to]

Acquire(t) == mutex = NoThread /\ mutex' = t
Release    == mutex' = NoThread

-----------------------------------------------------------------------------
(* push *)

\* The element is made before the lock is taken.
PushStart(t, v) ==
  /\ alive
  /\ Goto(t, "idle", "push_lock")
  /\ v \notin pushed
  /\ pushed' = pushed \cup {v}
  /\ element' = [element EXCEPT ![t] = v]
  /\ UNCHANGED <<mutex, data, alive, call, res>>

PushLock(t) ==
  /\ Goto(t, "push_lock", "append")
  /\ Acquire(t)
  /\ UNCHANGED <<data, alive, locals, pushed>>

PushData_InFront(t) ==
  /\ Goto(t, "append", "notify")
  /\ data' = <<element[t]>> \o data
  /\ element' = [element EXCEPT ![t] = NoValue]
  /\ UNCHANGED <<mutex, alive, call, res, pushed>>

\* _data.push(std::move(ptr))
PushData(t) ==
  /\ Goto(t, "append", "notify")
  /\ data' = Append(data, element[t])
  /\ element' = [element EXCEPT ![t] = NoValue]
  /\ UNCHANGED <<mutex, alive, call, res, pushed>>

NotifyAll_Nobody(t) ==
  /\ Goto(t, "notify", "idle")
  /\ Release
  /\ UNCHANGED <<data, alive, locals, pushed>>

\* _cond.notify_all() under the lock, which is then released.
NotifyAll(t) ==
  /\ pc[t] = "notify"
  /\ pc' = [u \in Threads |-> IF u = t THEN "idle"
                              ELSE IF pc[u] = "waiting" THEN "lock" ELSE pc[u]]
  /\ Release
  /\ UNCHANGED <<data, alive, locals, pushed>>

-----------------------------------------------------------------------------
(* wait_and_pop, try_pop, isEmpty *)

PopStart(t, c) ==
  /\ alive
  /\ Goto(t, "idle", "lock")
  /\ call' = [call EXCEPT ![t] = c]
  /\ UNCHANGED <<mutex, data, alive, element, res, pushed>>

\* At the start of the call, and again each time a wait ends.
Lock(t) ==
  /\ Goto(t, "lock", "test")
  /\ Acquire(t)
  /\ UNCHANGED <<data, alive, locals, pushed>>

Test_NoRecheck(t) ==
  /\ Goto(t, "test", CASE call[t] = "is_empty" -> IF data = <<>> THEN "empty" ELSE "not empty"
                       [] call[t] = "wait"     -> IF data = <<>> THEN "block" ELSE "take"
                       [] OTHER                -> "take")
  /\ mutex' = IF call[t] = "is_empty" THEN NoThread ELSE mutex
  /\ UNCHANGED <<data, alive, locals, pushed>>

\* isEmpty answers, try_pop of an empty queue gives up: both release the mutex.
\* wait_and_pop blocks if the queue is empty.
Test(t) ==
  LET leaves == call[t] = "is_empty" \/ (call[t] = "try" /\ data = <<>>) IN
  /\ Goto(t, "test", CASE call[t] = "is_empty" /\ data = <<>> -> "empty"
                       [] call[t] = "is_empty" /\ data # <<>> -> "not empty"
                       [] call[t] = "try"      /\ data = <<>> -> "failed"
                       [] call[t] = "wait"     /\ data = <<>> -> "block"
                       [] OTHER                               -> "take")
  /\ mutex' = IF leaves THEN NoThread ELSE mutex
  /\ UNCHANGED <<data, alive, locals, pushed>>

\* _cond.wait gives the mutex up and blocks, in one step.
Block(t) ==
  /\ Goto(t, "block", "waiting")
  /\ Release
  /\ UNCHANGED <<data, alive, locals, pushed>>

\* A condition variable may wake a thread for no reason.
SpuriousWakeup(t) ==
  /\ Goto(t, "waiting", "lock")
  /\ UNCHANGED <<mutex, data, alive, locals, pushed>>

\* res = _data.front(); _data.pop(); the mutex is released at the end.
Take(t) ==
  /\ Goto(t, "take", "popped")
  /\ res' = [res EXCEPT ![t] = Head(data)]
  /\ data' = Tail(data)
  /\ Release
  /\ UNCHANGED <<alive, element, call, pushed>>

Return(t) ==
  /\ pc[t] \in {"popped", "failed", "empty", "not empty"}
  /\ pc' = [pc EXCEPT ![t] = "idle"]
  /\ call' = [call EXCEPT ![t] = "try"]
  /\ res' = [res EXCEPT ![t] = NoValue]
  /\ UNCHANGED <<mutex, data, alive, element, pushed>>

\* The destructor empties the queue; nobody may be using the object then.
Destroy ==
  /\ alive
  /\ \A t \in Threads : pc[t] = "idle"
  /\ mutex = NoThread
  /\ alive' = FALSE
  /\ data' = <<>>
  /\ UNCHANGED <<mutex, pc, locals, pushed>>

-----------------------------------------------------------------------------
Acquiring(t) == PushLock(t) \/ Lock(t)

\* The steps of an operation that has begun and is not waiting.
Continue(t) ==
  \/ Acquiring(t)
  \/ PushData(t) \/ NotifyAll(t)
  \/ Test(t) \/ Block(t) \/ Take(t) \/ Return(t)

Next == \/ \E t \in Pushers, v \in Values : PushStart(t, v)
        \/ \E t \in Poppers : SpuriousWakeup(t) \/ \E c \in Calls : PopStart(t, c)
        \/ \E t \in Threads : Continue(t)
        \/ Destroy

Spec == Init /\ [][Next]_vars

\* The scheduler runs every thread that can take a step, and a mutex that is
\* free again and again is obtained in the end.  Nothing promises a spurious
\* wakeup, and nobody has to start an operation.
Fairness == \A t \in Threads : WF_vars(Continue(t)) /\ SF_vars(Acquiring(t))

FairSpec == Spec /\ Fairness

-----------------------------------------------------------------------------
(* Properties *)

TypeOK ==
  /\ mutex \in Threads \cup {NoThread}
  /\ data \in Seq(Values)
  /\ alive \in BOOLEAN
  /\ pc \in [Threads -> Labels]
  /\ element \in [Threads -> Values \cup {NoValue}]
  /\ call \in [Threads -> Calls \cup {"try"}]
  /\ res \in [Threads -> Values \cup {NoValue}]
  /\ pushed \subseteq Values

\* The variables have their types, and a thread waits only while the queue is
\* empty, except for the moment between an append and its notification: no wakeup
\* is lost between the test of the predicate and the wait.
NoLostWakeup ==
  /\ TypeOK
  /\ \A t \in Threads : pc[t] \in {"block", "waiting"} /\ data # <<>> =>
       \E u \in Threads : pc[u] = "notify"

\* front() and pop() are never called on an empty queue, whoever emptied it
\* after the thread was notified.
NeverTakesFromEmpty == \A t \in Threads : pc[t] = "take" => data # <<>>

\* Where each thread is in the abstract operation: a push takes effect when it
\* appends, the others when they have tested or taken.
AbstractOp(t) ==
  LET Op(kind, arg) == [kind |-> kind, arg |-> arg] IN
  CASE pc[t] = "idle"                    -> Op("idle", "")
    [] pc[t] \in {"push_lock", "append"} -> Op("push", element[t])
    [] pc[t] = "notify"                  -> Op("done", "")
    [] pc[t] = "popped"                  -> Op("popped", res[t])
    [] pc[t] = "failed"                  -> Op("failed", "")
    [] pc[t] \in {"empty", "not empty"}  -> Op("answered", pc[t])
    [] OTHER                             -> Op("pop", call[t])

Fifo == INSTANCE FifoQueue
          WITH queue <- data, op <- [t \in Threads |-> AbstractOp(t)]

\* Linearizability: every behaviour of the code is one of the atomic queue.
ImplementsQueue == Fifo!Spec

\* A wait_and_pop in progress while the queue has an element gets one, unless
\* the queue runs empty first: neither the wait nor the others' calls, which go
\* on taking the mutex, hold it off for ever.
WaitersAreServed ==
  \A t \in Poppers :
    pc[t] \in {"lock", "test", "block", "waiting"} /\ call[t] = "wait" /\ data # <<>>
      ~> pc[t] = "popped" \/ data = <<>>
=============================================================================
