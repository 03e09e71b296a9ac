------------------------ MODULE WholeLockQueueProofs ------------------------
(***************************************************************************)
(* Safety of the one-lock queue and the refinement of FifoQueue, for any   *)
(* threads and values.                                                     *)
(***************************************************************************)
EXTENDS WholeLockQueue, SequenceTheorems, TLAPS

-----------------------------------------------------------------------------
(* The inductive invariant *)

\* t is between a lock of the mutex and the unlock, or the wait, that ends it.
Inside(t) == pc[t] \in {"append", "notify", "test", "block", "take"}

\* The mutex belongs to the thread that is inside, so there is only one.
InvMutex == \A t \in Threads : Inside(t) <=> mutex = t

\* Who is where, and with which call.
InvCalls ==
  \A t \in Threads :
    /\ pc[t] \in {"push_lock", "append"} => t \in Pushers /\ element[t] \in Values
    /\ pc[t] = "notify" => t \in Pushers
    /\ pc[t] \in {"lock", "test", "block", "waiting", "take", "popped", "failed",
                  "empty", "not empty"} => t \in Poppers
    /\ pc[t] \in {"lock", "test"} => call[t] \in Calls
    /\ pc[t] \in {"block", "waiting"} => call[t] = "wait"
    /\ pc[t] = "take" => call[t] \in {"wait", "try"}

\* What the thread that is inside has found out about the queue.
InvTested ==
  /\ \A t \in Threads : pc[t] = "block" => data = <<>>
  /\ NeverTakesFromEmpty

IInv == NoLostWakeup /\ InvMutex /\ InvCalls /\ InvTested

-----------------------------------------------------------------------------
\* The constructor establishes the invariant.
LEMMA InitInv == Init => IInv
BY QueueAssumption DEF Init, IInv, NoLostWakeup, TypeOK, InvMutex, Inside, InvCalls, InvTested, NeverTakesFromEmpty, Labels

\* Every step keeps the invariant.
LEMMA StepInv == IInv /\ [Next]_vars => IInv'
<1> SUFFICES ASSUME IInv, [Next]_vars PROVE IInv'
  OBVIOUS
<1> USE QueueAssumption DEF Goto, Acquire, Release, locals, IInv, NoLostWakeup, TypeOK, InvMutex, Inside,
        InvCalls, InvTested, NeverTakesFromEmpty, Labels
<1>1. ASSUME NEW t \in Pushers, NEW v \in Values, PushStart(t, v) PROVE IInv'
  BY <1>1 DEF PushStart, Threads
<1>2. ASSUME NEW t \in Poppers, SpuriousWakeup(t) PROVE IInv'
  BY <1>2 DEF SpuriousWakeup, Threads
<1>3. ASSUME NEW t \in Poppers, NEW c \in Calls, PopStart(t, c) PROVE IInv'
  BY <1>3 DEF PopStart, Threads
<1>4. ASSUME NEW t \in Threads, PushLock(t) PROVE IInv'
  BY <1>4 DEF PushLock
<1>5. ASSUME NEW t \in Threads, Lock(t) PROVE IInv'
  BY <1>5 DEF Lock
<1>6. ASSUME NEW t \in Threads, PushData(t) PROVE IInv'
  <2>1. element[t] \in Values /\ data \in Seq(Values) /\ data' = Append(data, element[t])
    BY <1>6 DEF PushData
  <2>2. data' \in Seq(Values) /\ data' # <<>>
    BY ONLY <2>1, AppendProperties
  <2>3. QED
    BY <1>6, <2>2 DEF PushData
<1>7. ASSUME NEW t \in Threads, NotifyAll(t) PROVE IInv'
  BY <1>7 DEF NotifyAll
<1>8. ASSUME NEW t \in Threads, Test(t) PROVE IInv'
  BY <1>8 DEF Test
<1>9. ASSUME NEW t \in Threads, Block(t) PROVE IInv'
  BY <1>9 DEF Block
<1>10. ASSUME NEW t \in Threads, Take(t) PROVE IInv'
  BY <1>10, HeadTailProperties DEF Take
<1>11. ASSUME NEW t \in Threads, Return(t) PROVE IInv'
  BY <1>11 DEF Return
<1>12. CASE Destroy
  <2>1. alive' \in BOOLEAN
    BY <1>12 DEF Destroy
  <2>2. data' \in Seq(Values)
    BY <1>12, EmptySeq DEF Destroy
  <2>3. NoLostWakeup'
    BY <1>12, <2>1, <2>2 DEF Destroy
  <2>4. InvMutex'
    BY <1>12 DEF Destroy
  <2>5. InvCalls'
    BY <1>12 DEF Destroy
  <2>6. InvTested'
    BY <1>12 DEF Destroy
  <2>7. QED
    BY <2>3, <2>4, <2>5, <2>6
<1>13. CASE UNCHANGED vars
  BY <1>13 DEF vars
<1>14. QED
  BY <1>1, <1>2, <1>3, <1>4, <1>5, <1>6, <1>7, <1>8, <1>9, <1>10, <1>11, <1>12, <1>13 DEF Next, Continue, Acquiring

-----------------------------------------------------------------------------
(* Each step is one of FifoQueue, or changes nothing there *)

ops == [t \in Threads |-> AbstractOp(t)]

\* A step after which every thread but t is in the operation it was in.
Others(t) == \A u \in Threads \ {t} : AbstractOp(u)' = AbstractOp(u)

\* A step of one thread changes only that thread's abstract operation.
LEMMA OpsOf ==
  ASSUME NEW t \in Threads, Others(t)
  PROVE  ops' = [ops EXCEPT ![t] = AbstractOp(t)']
BY DEF ops, Others

\* Most steps move one thread and none of its neighbours.
LEMMA OthersKept ==
  ASSUME NEW t \in Threads,
         \A u \in Threads \ {t} : pc'[u] = pc[u] /\ element'[u] = element[u]
                                 /\ call'[u] = call[u] /\ res'[u] = res[u]
  PROVE  Others(t)
BY DEF Others, AbstractOp

\* The initial queue is an empty FIFO queue.
LEMMA RefineInit == Init => Fifo!Init
BY DEF Init, Fifo!Init, Fifo!Idle, Fifo!Op, AbstractOp, Threads

\* PushLock, Lock, Block, SpuriousWakeup and NotifyAll are steps within an abstract
\* operation, and so is a Test that leads to another.
LEMMA RefineStep == IInv /\ [Next]_vars => [Fifo!Next]_(Fifo!fVars)
<1> SUFFICES ASSUME IInv, [Next]_vars PROVE Fifo!Next \/ UNCHANGED <<data, ops>>
  BY DEF Fifo!fVars, ops
<1> USE QueueAssumption DEF Goto, locals
<1>0. TypeOK
  BY DEF IInv, NoLostWakeup
<1>a. Threads = Pushers \cup Poppers
  BY DEF Threads
<1>1. ASSUME NEW t \in Pushers, NEW v \in Values, PushStart(t, v) PROVE Fifo!InvokePush(t, v)
  <2>1. t \in Threads
    BY <1>a
  <2>3. Others(t)
    BY <1>0, <1>1, <2>1, OthersKept DEF PushStart, TypeOK
  <2>4. AbstractOp(t) = Fifo!Idle /\ AbstractOp(t)' = Fifo!Op("push", v)
    BY <1>0, <1>1, <2>1 DEF PushStart, TypeOK, AbstractOp, Fifo!Op, Fifo!Idle
  <2>5. QED
    BY <1>1, <2>1, <2>3, <2>4, OpsOf DEF Fifo!InvokePush, Fifo!Become, ops, PushStart
<1>2. ASSUME NEW t \in Poppers, NEW c \in Calls, PopStart(t, c) PROVE Fifo!InvokePop(t, c)
  <2>1. t \in Threads
    BY <1>a
  <2>3. Others(t)
    BY <1>0, <1>2, <2>1, OthersKept DEF PopStart, TypeOK
  <2>4. AbstractOp(t) = Fifo!Idle /\ AbstractOp(t)' = Fifo!Op("pop", c)
    BY <1>0, <1>2, <2>1 DEF PopStart, TypeOK, AbstractOp, Fifo!Op, Fifo!Idle
  <2>5. QED
    BY <1>2, <2>1, <2>3, <2>4, OpsOf DEF Fifo!InvokePop, Fifo!Become, ops, PopStart
<1>3. ASSUME NEW t \in Threads, PushData(t) PROVE t \in Pushers /\ Fifo!Push(t)
  <2>1. t \in Threads
    BY <1>a
  <2>2. t \in Pushers
    BY <1>3 DEF IInv, InvCalls, PushData
  <2>3. Others(t)
    BY <1>0, <1>3, <2>1, OthersKept DEF PushData, TypeOK
  <2>4. AbstractOp(t).kind = "push" /\ AbstractOp(t).arg = element[t] /\ AbstractOp(t)' = Fifo!Op("done", "")
    BY <1>0, <1>3, <2>1, <2>2 DEF PushData, TypeOK, AbstractOp, Fifo!Op, Fifo!Idle
  <2>5. QED
    BY <1>3, <2>1, <2>2, <2>3, <2>4, OpsOf DEF Fifo!Push, Fifo!Become, ops, PushData
<1>4. ASSUME NEW t \in Threads, Test(t) PROVE Fifo!Next \/ UNCHANGED <<data, ops>>
  <2>1. t \in Poppers /\ call[t] \in Calls
    BY <1>4 DEF IInv, InvCalls, Test
  <2>2. Others(t) /\ data' = data /\ call'[t] = call[t]
    BY <1>0, <1>4, <2>1, OthersKept DEF Test, TypeOK
  <2>3. AbstractOp(t).kind = "pop" /\ AbstractOp(t).arg = call[t]
    BY <1>0, <1>4 DEF Test, TypeOK, AbstractOp, Fifo!Op
  <2>4. CASE call[t] = "is_empty"
    <3>1. AbstractOp(t)' = Fifo!Op("answered", IF data = <<>> THEN "empty" ELSE "not empty")
      BY <1>0, <1>4, <2>4 DEF Test, TypeOK, AbstractOp, Fifo!Op
    <3>2. Fifo!Answer(t)
      BY <2>2, <2>3, <2>4, <3>1, OpsOf DEF Fifo!Answer, Fifo!Become, ops
    <3>3. QED
      BY <2>1, <3>2 DEF Fifo!Next
  <2>5. CASE call[t] = "try" /\ data = <<>>
    <3>1. AbstractOp(t)' = Fifo!Op("failed", "")
      BY <1>0, <1>4, <2>5 DEF Test, TypeOK, AbstractOp, Fifo!Op
    <3>2. Fifo!GiveUp(t)
      BY <2>2, <2>3, <2>5, <3>1, OpsOf DEF Fifo!GiveUp, Fifo!Become, ops
    <3>3. QED
      BY <2>1, <3>2 DEF Fifo!Next
  <2>6. CASE call[t] # "is_empty" /\ ~(call[t] = "try" /\ data = <<>>)
    <3>1. AbstractOp(t)' = AbstractOp(t)
      BY <1>0, <1>4, <2>1, <2>2, <2>6 DEF Test, TypeOK, AbstractOp
    <3>2. QED
      BY <2>2, <3>1 DEF Others, ops
  <2>7. QED
    BY <2>4, <2>5, <2>6
<1>5. ASSUME NEW t \in Threads, Take(t) PROVE t \in Poppers /\ Fifo!Pop(t)
  <2>1. t \in Threads
    BY <1>a
  <2>2. t \in Poppers /\ call[t] # "is_empty" /\ data # <<>>
    BY <1>5 DEF IInv, InvCalls, InvTested, NeverTakesFromEmpty, Take
  <2>3. Others(t)
    BY <1>0, <1>5, <2>1, OthersKept DEF Take, TypeOK
  <2>4. AbstractOp(t) = Fifo!Op("pop", call[t]) /\ AbstractOp(t)' = Fifo!Op("popped", Head(data))
    BY <1>0, <1>5, <2>1, <2>2 DEF Take, TypeOK, AbstractOp, Fifo!Op, Fifo!Idle
  <2>5. QED
    BY <1>5, <2>1, <2>2, <2>3, <2>4, OpsOf DEF Fifo!Pop, Fifo!Op, Fifo!Become, ops, Take
<1>6. ASSUME NEW t \in Threads, Return(t) PROVE Fifo!Return(t)
  <2>1. Others(t)
    BY <1>0, <1>6, OthersKept DEF Return, TypeOK
  <2>2. AbstractOp(t).kind \in {"popped", "failed", "answered"} /\ AbstractOp(t)' = Fifo!Idle
    BY <1>0, <1>6 DEF Return, TypeOK, AbstractOp, Fifo!Op, Fifo!Idle
  <2>3. QED
    BY <1>6, <2>1, <2>2, OpsOf DEF Fifo!Return, Fifo!Become, ops, Return
<1>7. ASSUME NEW t \in Threads, NotifyAll(t) PROVE Fifo!Return(t)
  <2>1. Others(t)
    BY <1>0, <1>7 DEF NotifyAll, TypeOK, Others, AbstractOp
  <2>2. AbstractOp(t).kind = "done" /\ AbstractOp(t)' = Fifo!Idle
    BY <1>0, <1>7 DEF NotifyAll, TypeOK, AbstractOp, Fifo!Op, Fifo!Idle
  <2>3. QED
    BY <1>7, <2>1, <2>2, OpsOf DEF Fifo!Return, Fifo!Become, ops, NotifyAll
<1>8. CASE Destroy
  <2>1. \A t \in Threads : AbstractOp(t) = Fifo!Idle /\ AbstractOp(t)' = AbstractOp(t)
    BY <1>8 DEF Destroy, AbstractOp, Fifo!Op, Fifo!Idle
  <2>2. Fifo!Clear
    BY <1>8, <1>a, <2>1 DEF Destroy, Fifo!Clear, ops
  <2>3. QED
    BY <2>2 DEF Fifo!Next
<1>9. ASSUME NEW t \in Threads, PushLock(t) \/ Lock(t) \/ Block(t) \/ SpuriousWakeup(t)
      PROVE  UNCHANGED <<data, ops>>
  <2>1. Others(t)
    BY <1>0, <1>9, OthersKept DEF PushLock, Lock, Block, SpuriousWakeup, TypeOK
  <2>2. AbstractOp(t)' = AbstractOp(t)
    BY <1>0, <1>9 DEF PushLock, Lock, Block, SpuriousWakeup, TypeOK, AbstractOp
  <2>3. QED
    BY <1>9, <2>1, <2>2 DEF Others, ops, PushLock, Lock, Block, SpuriousWakeup
<1>10. CASE UNCHANGED vars
  BY <1>10 DEF vars, ops, AbstractOp
<1>11. QED
  BY <1>1, <1>2, <1>3, <1>4, <1>5, <1>6, <1>7, <1>8, <1>9, <1>10, <1>a
  DEF Next, Continue, Acquiring, Fifo!Next

-----------------------------------------------------------------------------
(* The theorems *)

\* The invariant always holds.
LEMMA Invariance == Spec => []IInv
<1>1. Init => IInv
  BY InitInv
<1>2. QED
  BY <1>1, StepInv, PTL DEF Spec

\* One thread at a time is between the lock and the unlock of _mutex.
THEOREM MutualExclusion == Spec => [](\A t, u \in Threads : Inside(t) /\ Inside(u) => t = u)
<1>1. IInv => \A t, u \in Threads : Inside(t) /\ Inside(u) => t = u
  BY DEF IInv, InvMutex
<1>2. QED
  BY <1>1, Invariance, PTL

\* wait_and_pop never sleeps through a notification: a thread waits beside an
\* element only while the push that appended it still holds the mutex.
THEOREM WakeupsArrive == Spec => []NoLostWakeup
<1>1. IInv => NoLostWakeup
  BY DEF IInv
<1>2. QED
  BY <1>1, Invariance, PTL

\* No pop calls front() or pop() on an empty _data.
THEOREM PopsHaveData == Spec => []NeverTakesFromEmpty
<1>1. IInv => NeverTakesFromEmpty
  BY DEF IInv, InvTested
<1>2. QED
  BY <1>1, Invariance, PTL

\* push, wait_and_pop, try_pop, isEmpty and the destructor are the atomic
\* operations of a FIFO queue.
THEOREM Linearizable == Spec => ImplementsQueue
<1>1. Init => Fifo!Init
  BY RefineInit
<1>2. QED
  BY <1>1, RefineStep, Invariance, PTL DEF Spec, ImplementsQueue, Fifo!Spec
=============================================================================
