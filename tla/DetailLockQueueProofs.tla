------------------------ MODULE DetailLockQueueProofs ------------------------
(***************************************************************************)
(* Safety of the two-lock queue and the refinement of FifoQueue, for any   *)
(* threads, nodes and values.                                              *)
(***************************************************************************)
EXTENDS DetailLockQueueRefinement, NodeListsProofs

-----------------------------------------------------------------------------
(* The inductive invariant *)

\* The threads between taking a mutex and releasing it.
HoldsHead(t) == pc[t] \in {"get_tail", "read_tail", "block", "take"}
HoldsTail(t) == pc[t] \in {"link", "advance", "read_tail"}

InvLocks ==
  \A t \in Threads : /\ HoldsHead(t) <=> headMutex = t
                     /\ HoldsTail(t) <=> tailMutex = t

\* Between the two writes of a push the last node is not the tail yet.
Linked == \E t \in Threads : pc[t] = "advance"
LastNode == IF Linked THEN next[tail] ELSE tail

\* The node of a push that is not linked yet.
InvNew ==
  \A t \in Threads :
    /\ pc[t] \in {"push_lock", "link"} <=> newNode[t] # Null
    /\ newNode[t] # Null => newNode[t] \in live /\ next[newNode[t]] = Null
    /\ \A u \in Threads \ {t} : newNode[t] # Null => newNode[t] # newNode[u]

\* The nodes of the list: those that are allocated and no longer new.
ListNodes == {n \in live : \A t \in Threads : newNode[t] # n}

\* Each node but the last leads to another one, no two to the same, and none to
\* the dummy.
InvList ==
  /\ head \in ListNodes /\ tail \in ListNodes /\ LastNode \in ListNodes
  /\ next[LastNode] = Null
  /\ Linked => next[tail] # tail
  /\ \A n \in ListNodes \ {LastNode} : next[n] \in ListNodes /\ next[n] # head
  /\ \A n, m \in ListNodes \ {LastNode} : next[n] = next[m] => n = m

\* A pop that goes on to take has seen a node after the dummy, and there still
\* is one.
InvTake == \A t \in Threads : pc[t] = "take" => head # tail

IInv == TypeOK /\ InvLocks /\ InvNew /\ InvList /\ InvTake

-----------------------------------------------------------------------------
(* Every step preserves the invariant *)

\* The constructor establishes the invariant: one dummy node, both ends at it.
LEMMA InitInv == Init => IInv
BY QueueAssumption
   DEF Init, IInv, TypeOK, Labels, Pointers, InvLocks, HoldsHead, HoldsTail, Linked, LastNode, InvNew,
       ListNodes, InvList, InvTake

\* The node is new: it is in no list.
LEMMA PushStartInv ==
  ASSUME IInv, NEW t \in Threads, NEW v \in Values, PushStart(t, v)
  PROVE  IInv'
<1> USE QueueAssumption DEF PushStart, Goto, mutexes, IInv, Pointers
<1>1. TypeOK'
  BY DEF TypeOK, Labels
<1>2. InvLocks' /\ InvTake'
  BY DEF TypeOK, InvLocks, HoldsHead, HoldsTail, InvTake
<1>3. InvNew'
  BY DEF TypeOK, InvNew
<1>4. ListNodes' = ListNodes /\ LastNode' = LastNode /\ (Linked' <=> Linked)
  BY DEF TypeOK, InvNew, InvList, ListNodes, LastNode, Linked
<1>5. InvList'
  BY <1>4 DEF TypeOK, InvList, ListNodes
<1>6. QED
  BY <1>1, <1>2, <1>3, <1>5 DEF IInv

\* The node becomes the last one, behind the tail.
LEMMA LinkInv ==
  ASSUME IInv, NEW t \in Threads, Link(t)
  PROVE  IInv'
<1> USE QueueAssumption DEF Link, Goto, mutexes, IInv, Pointers
<1>1. TypeOK'
  BY DEF TypeOK, Labels
<1>2. InvLocks' /\ InvTake'
  BY DEF TypeOK, InvLocks, HoldsHead, HoldsTail, InvTake
<1>3. ~Linked /\ LastNode = tail
  BY DEF TypeOK, InvLocks, HoldsTail, LastNode, Linked
<1>4. InvNew'
  BY <1>3 DEF TypeOK, InvNew, InvList, ListNodes
<1>5. /\ ListNodes' = ListNodes \cup {newNode[t]} /\ newNode[t] \notin ListNodes
      /\ newNode[t] # Null /\ newNode[t] # tail /\ next[newNode[t]] = Null
      /\ Linked' /\ LastNode' = newNode[t] /\ next' = [next EXCEPT ![tail] = newNode[t]]
  BY <1>3 DEF TypeOK, InvNew, InvList, ListNodes, LastNode, Linked
<1>6. InvList'
  BY <1>3, <1>5 DEF TypeOK, InvList, ListNodes
<1>7. QED
  BY <1>1, <1>2, <1>4, <1>6 DEF IInv

\* The last node becomes the tail; the list stays as it is.
LEMMA AdvanceInv ==
  ASSUME IInv, NEW t \in Threads, Advance(t)
  PROVE  IInv'
<1> USE QueueAssumption DEF Advance, Goto, Release, list, locals, IInv, Pointers
<1>1. Linked /\ LastNode = next[tail] /\ ~Linked' /\ LastNode' = LastNode /\ ListNodes' = ListNodes
  BY DEF TypeOK, InvLocks, HoldsTail, LastNode, Linked, ListNodes
<1>2. TypeOK'
  BY <1>1 DEF TypeOK, Labels, InvList, ListNodes
<1>3. InvLocks'
  BY DEF TypeOK, InvLocks, HoldsHead, HoldsTail
<1>4. tail # LastNode /\ next[tail] # head
  BY <1>1 DEF InvList
<1>5. InvTake' /\ InvNew'
  BY <1>4 DEF TypeOK, InvTake, InvNew
<1>6. InvList'
  BY <1>1 DEF InvList
<1>7. QED
  BY <1>2, <1>3, <1>5, <1>6 DEF IInv

\* The dummy goes, and the node after it takes its place.
LEMMA TakeInv ==
  ASSUME IInv, NEW t \in Threads, Take(t)
  PROVE  IInv'
<1> USE QueueAssumption DEF Take, Goto, Release, IInv, Pointers
<1>1. head # tail /\ head # LastNode
  BY DEF InvTake, InvList, LastNode, Linked
<1>2. /\ Linked' = Linked /\ LastNode' = LastNode
      /\ ListNodes' = ListNodes \ {head} /\ next[head] \in ListNodes
  BY <1>1 DEF TypeOK, LastNode, Linked, ListNodes, InvList
<1>3. TypeOK'
  BY <1>2 DEF TypeOK, Labels, ListNodes
<1>4. InvLocks' /\ InvTake'
  BY DEF TypeOK, InvLocks, HoldsHead, HoldsTail, InvTake
<1>5. InvNew'
  BY DEF TypeOK, InvNew, InvList, ListNodes
<1>6. InvList'
  BY <1>1, <1>2 DEF InvList
<1>7. QED
  BY <1>3, <1>4, <1>5, <1>6 DEF IInv

\* The steps that touch no node and end or begin no push's second write.
LEMMA UntouchedInv ==
  ASSUME IInv, UNCHANGED <<list, newNode>>, Linked' <=> Linked
  PROVE  InvList'
<1>1. ListNodes' = ListNodes /\ LastNode' = LastNode
  BY DEF list, ListNodes, LastNode
<1>2. QED
  BY <1>1 DEF IInv, InvList, list

\* Taking a mutex keeps the invariant.
LEMMA LockInv ==
  ASSUME IInv, NEW t \in Threads, PushLock(t) \/ PopLock(t) \/ GetTail(t)
  PROVE  IInv'
<1> USE QueueAssumption DEF PushLock, PopLock, GetTail, Goto, Acquire, list, locals
<1>1. TypeOK' /\ InvLocks'
  BY DEF IInv, TypeOK, Labels, InvLocks, HoldsHead, HoldsTail
<1>2. InvNew' /\ InvTake'
  BY DEF IInv, TypeOK, InvNew, InvTake
<1>3. Linked' <=> Linked
  BY DEF IInv, TypeOK, Linked
<1>4. QED
  BY <1>1, <1>2, <1>3, UntouchedInv DEF IInv

\* A pop goes on to take only if it has seen an element.
LEMMA ReadTailInv ==
  ASSUME IInv, NEW t \in Threads, ReadTail(t)
  PROVE  IInv'
<1> USE QueueAssumption DEF ReadTail, ThrowsIfEmpty, Goto, Release, list, locals
<1>1. TypeOK'
  BY DEF IInv, TypeOK, Labels
<1>2. InvLocks'
  BY DEF IInv, TypeOK, InvLocks, HoldsHead, HoldsTail
<1>3. InvNew' /\ InvTake'
  BY DEF IInv, TypeOK, InvNew, InvTake
<1>4. Linked' <=> Linked
  BY DEF IInv, TypeOK, Linked
<1>5. QED
  BY <1>1, <1>2, <1>3, <1>4, UntouchedInv DEF IInv

\* notify_all keeps the invariant.
LEMMA NotifyAllInv ==
  ASSUME IInv, NEW t \in Threads, NotifyAll(t)
  PROVE  IInv'
<1> USE QueueAssumption DEF NotifyAll, mutexes, list, locals
<1>1. TypeOK' /\ InvLocks'
  BY DEF IInv, TypeOK, Labels, InvLocks, HoldsHead, HoldsTail
<1>2. InvNew' /\ InvTake'
  BY DEF IInv, TypeOK, InvNew, InvTake
<1>3. Linked' <=> Linked
  BY DEF IInv, TypeOK, Linked
<1>4. QED
  BY <1>1, <1>2, <1>3, UntouchedInv DEF IInv

\* Blocking in a wait and leaving it without a notification keep the invariant.
LEMMA WaitInv ==
  ASSUME IInv, NEW t \in Threads, Block(t) \/ SpuriousWakeup(t) \/ Timeout(t)
  PROVE  IInv'
<1> USE QueueAssumption DEF Block, SpuriousWakeup, Timeout, Goto, Release, mutexes, list, locals
<1>1. TypeOK'
  BY DEF IInv, TypeOK, Labels
<1>2. InvLocks'
  BY DEF IInv, TypeOK, InvLocks, HoldsHead, HoldsTail
<1>3. InvNew' /\ InvTake'
  BY DEF IInv, TypeOK, InvNew, InvTake
<1>4. Linked' <=> Linked
  BY DEF IInv, TypeOK, Linked
<1>5. QED
  BY <1>1, <1>2, <1>3, <1>4, UntouchedInv DEF IInv

\* Starting a pop and returning from a call keep the invariant.
LEMMA CallInv ==
  ASSUME IInv, NEW t \in Threads, Return(t) \/ \E c \in Calls : PopStart(t, c)
  PROVE  IInv'
<1> USE QueueAssumption DEF Return, PopStart, Goto, mutexes, list
<1>1. TypeOK'
  <2>1. CASE Return(t)
    BY <2>1 DEF IInv, TypeOK, Labels
  <2>2. ASSUME NEW c \in Calls, PopStart(t, c) PROVE TypeOK'
    BY <2>2 DEF IInv, TypeOK, Labels
  <2>3. QED
    BY <2>1, <2>2
<1>2. InvLocks'
  BY DEF IInv, TypeOK, InvLocks, HoldsHead, HoldsTail
<1>3. InvNew' /\ InvTake'
  BY DEF IInv, TypeOK, InvNew, InvTake
<1>4. Linked' <=> Linked
  BY DEF IInv, TypeOK, Linked
<1>5. QED
  BY <1>1, <1>2, <1>3, <1>4, UntouchedInv DEF IInv

\* A step that changes nothing keeps the invariant.
LEMMA StutterInv == IInv /\ UNCHANGED vars => IInv'
<1> SUFFICES ASSUME IInv, UNCHANGED vars PROVE IInv'
  OBVIOUS
<1> USE DEF vars, mutexes, list, locals
<1>1. TypeOK' /\ InvLocks' /\ InvNew' /\ InvTake'
  BY DEF IInv, TypeOK, InvLocks, HoldsHead, HoldsTail, InvNew, InvTake
<1>2. Linked' <=> Linked
  BY DEF Linked
<1>3. QED
  BY <1>1, <1>2, UntouchedInv DEF IInv

\* Every step keeps the invariant.
LEMMA StepInv == IInv /\ [Next]_vars => IInv'
<1>1. Pushers \subseteq Threads /\ Poppers \subseteq Threads
  BY DEF Threads
<1>2. QED
  BY <1>1, PushStartInv, LinkInv, AdvanceInv, TakeInv, LockInv, ReadTailInv, NotifyAllInv, WaitInv, CallInv,
     StutterInv
  DEF Next, Continue, Acquiring

\* The invariant always holds.
LEMMA Invariance == Spec => []IInv
<1>1. Init => IInv
  BY InitInv
<1>2. QED
  BY <1>1, StepInv, PTL DEF Spec

-----------------------------------------------------------------------------
(* The theorems *)

\* The variables keep their types.
THEOREM TypeCorrect == Spec => []TypeOK
<1>1. IInv => TypeOK
  BY DEF IInv
<1>2. QED
  BY <1>1, Invariance, PTL

\* pushElement under the tail mutex and the pops under the head mutex never
\* touch the same member of the same node, however short the list is.
THEOREM RaceFree == Spec => []NoDataRace
<1>1. IInv => NoDataRace
  <2> SUFFICES ASSUME IInv, NEW t \in Threads, NEW u \in Threads, t # u
               PROVE  Writes(t) \cap (Reads(u) \cup Writes(u)) = {}
    BY DEF NoDataRace
  <2>1. CASE pc[t] = "link" \/ pc[t] = "advance"
    BY <2>1 DEF IInv, TypeOK, InvLocks, HoldsTail, InvTake, Writes, Reads
  <2>2. CASE pc[t] = "take"
    BY <2>2 DEF IInv, TypeOK, InvLocks, HoldsHead, InvTake, Writes, Reads
  <2>3. CASE pc[t] \notin {"link", "advance", "take"}
    BY <2>3 DEF Writes
  <2>4. QED
    BY <2>1, <2>2, <2>3
<1>2. QED
  BY <1>1, Invariance, PTL

\* _tail never dangles and no thread touches a deleted node.
THEOREM MemorySafe == Spec => []NoUseAfterFree
<1>1. IInv => NoUseAfterFree
  <2> SUFFICES ASSUME IInv PROVE NoUseAfterFree
    OBVIOUS
  <2>1. tail \in live /\ head \in live
    BY DEF IInv, InvList, ListNodes
  <2>2. ASSUME NEW t \in Threads, pc[t] = "take"
        PROVE  next[head] \in live
    BY <2>2 DEF IInv, InvTake, InvList, LastNode, Linked, ListNodes
  <2>3. QED
    BY <2>1, <2>2 DEF NoUseAfterFree, Reads, Writes
<1>2. QED
  BY <1>1, Invariance, PTL

-----------------------------------------------------------------------------
(* The list, as a sequence *)

\* The pointers from the dummy on spell out the nodes of the list.
InvPath ==
  /\ IsList(Path, head, next)
  /\ \A n \in Nodes : n \in ListNodes <=> \E i \in 1..Len(Path) : Path[i] = n
  /\ Path[Len(Path)] = LastNode

\* Path is the list from the head, whichever way that list is found.
LEMMA PathIs ==
  ASSUME TypeOK, NEW w, IsList(w, head, next)
  PROVE  Path = w
BY ListIsNodesFrom, QueueAssumption DEF TypeOK, Path

\* The path begins at the dummy node, so it is never empty.
LEMMA PathNonempty ==
  ASSUME IInv, InvPath
  PROVE  /\ Path \in Seq(Nodes) /\ Len(Path) \in Nat \ {0} /\ Path # <<>>
         /\ DOMAIN Path = 1..Len(Path)
         /\ Path[1] = head
<1>1. DOMAIN next = Nodes /\ head \in Nodes
  BY DEF IInv, TypeOK
<1>2. Path \in Seq(Nodes) /\ Path # <<>>
  BY <1>1 DEF InvPath, IsList
<1>3. Len(Path) \in Nat \ {0} /\ DOMAIN Path = 1..Len(Path)
  BY <1>2
<1> QED
  BY <1>2, <1>3 DEF InvPath, IsList

\* At first the path is the dummy node.
LEMMA PathInit == Init => InvPath
<1> SUFFICES ASSUME Init PROVE InvPath
  OBVIOUS
<1>1. TypeOK /\ ListNodes = {head} /\ LastNode = head
  BY QueueAssumption DEF Init, TypeOK, Labels, Pointers, ListNodes, LastNode, Linked
<1>2. IsList(<<head>>, head, next)
  BY QueueAssumption DEF Init, IsList
<1>3. Path = <<head>>
  BY <1>1, <1>2, PathIs
<1> QED
  BY <1>1, <1>2, <1>3 DEF InvPath

\* A node that is only allocated is not on the path.
LEMMA PathPushStart ==
  ASSUME IInv, IInv', InvPath, NEW t \in Threads, NEW v \in Values, PushStart(t, v)
  PROVE  InvPath' /\ Path' = Path
<1>1. PICK n \in Nodes \ live : next' = [next EXCEPT ![n] = Null] /\ head' = head
  BY DEF PushStart
<1>2. /\ DOMAIN next' = DOMAIN next
      /\ \A i \in 1..Len(Path) : next'[Path[i]] = next[Path[i]]
  <2>1. \A i \in 1..Len(Path) : Path[i] \in live
    BY PathNonempty DEF InvPath, ListNodes
  <2> QED
    BY <1>1, <2>1 DEF IInv, TypeOK
<1>3. IsList(Path, head', next')
  BY <1>1, <1>2, ListKept DEF InvPath
<1>4. Path' = Path
  BY <1>3, ListIsNodesFrom, QueueAssumption DEF IInv, TypeOK, Path
<1>5. ListNodes' = ListNodes /\ LastNode' = LastNode
  BY QueueAssumption DEF IInv, TypeOK, InvNew, InvList, ListNodes, LastNode, Linked, PushStart, Goto, Pointers
<1> QED
  BY <1>3, <1>4, <1>5 DEF InvPath

\* Linking the node of a push appends it to the path.
LEMMA PathLink ==
  ASSUME IInv, IInv', InvPath, NEW t \in Threads, Link(t)
  PROVE  InvPath' /\ Path' = Append(Path, newNode[t])
<1> DEFINE n == newNode[t]
<1> USE QueueAssumption
<1>1. /\ ListNodes' = ListNodes \cup {n} /\ n \notin ListNodes
      /\ n \in Nodes /\ next[n] = Null
      /\ LastNode = tail /\ LastNode' = n
      /\ next' = [next EXCEPT ![tail] = n] /\ head' = head
  BY DEF Link, Goto, mutexes, IInv, TypeOK, InvLocks, HoldsTail, InvNew, InvList, ListNodes, LastNode, Linked, Pointers
<1>2. /\ Path \in Seq(Nodes) /\ Len(Path) \in Nat \ {0} /\ Path # <<>>
      /\ DOMAIN next = Nodes /\ next[n] \notin Nodes
  BY <1>1, PathNonempty DEF IInv, TypeOK
<1>3. \A i \in 1..Len(Path) : Path[i] # n
  BY <1>1, <1>2 DEF InvPath
<1>4. IsList(Append(Path, n), head', next')
  BY <1>1, <1>2, <1>3, ListAppend DEF InvPath
<1>5. Path' = Append(Path, n)
  BY <1>4, ListIsNodesFrom DEF IInv, TypeOK, Path
<1>6. /\ Len(Append(Path, n)) = Len(Path) + 1
      /\ \A i \in 1..Len(Path) : Append(Path, n)[i] = Path[i]
      /\ Append(Path, n)[Len(Path) + 1] = n
  BY <1>2
<1>7. \A m \in Nodes : m \in ListNodes' <=> \E i \in 1..(Len(Path) + 1) : Append(Path, n)[i] = m
  BY <1>1, <1>2, <1>6 DEF InvPath
<1> QED
  BY <1>1, <1>4, <1>5, <1>6, <1>7 DEF InvPath

\* Taking an element drops the first node of the path.
LEMMA PathTake ==
  ASSUME IInv, IInv', InvPath, NEW t \in Threads, Take(t)
  PROVE  /\ InvPath'
         /\ Path' = Tail(Path)
<1> DEFINE w == Tail(Path)
<1> USE QueueAssumption
<1>1. /\ head # LastNode /\ LastNode' = LastNode /\ ListNodes' = ListNodes \ {head}
      /\ next' = next /\ head' = next[head]
  BY DEF Take, Goto, Release, IInv, TypeOK, InvTake, InvList, ListNodes, LastNode, Linked
<1>2. /\ Path \in Seq(Nodes) /\ Len(Path) \in Nat \ {0} /\ Path # <<>>
      /\ DOMAIN next = Nodes /\ Path[1] = head
  BY PathNonempty DEF IInv, TypeOK
<1>3. IsList(w, head', next') /\ \A i \in 1..Len(w) : w[i] # head
  BY <1>1, <1>2, ListTail DEF InvPath
<1>4. Path' = w
  BY <1>3, ListIsNodesFrom DEF IInv, TypeOK, Path
<1>5. /\ Len(w) = Len(Path) - 1
      /\ \A i \in 1..Len(w) : w[i] = Path[i + 1]
  BY <1>2
<1>6. Len(Path) > 1 /\ w[Len(w)] = LastNode
  BY <1>1, <1>2, <1>5 DEF InvPath
<1>7. ASSUME NEW m \in Nodes
      PROVE  m \in ListNodes' <=> \E i \in 1..Len(w) : w[i] = m
  <2>1. ASSUME m \in ListNodes' PROVE \E i \in 1..Len(w) : w[i] = m
    <3>1. PICK j \in 1..Len(Path) : Path[j] = m
      BY <1>1, <2>1 DEF InvPath
    <3>2. j # 1
      BY <1>1, <1>2, <2>1, <3>1
    <3>3. j - 1 \in 1..Len(w) /\ (j - 1) + 1 = j
      BY <1>2, <1>5, <3>2
    <3> QED
      BY <1>5, <3>1, <3>3
  <2>2. ASSUME NEW i \in 1..Len(w), w[i] = m PROVE m \in ListNodes'
    <3>1. i + 1 \in 1..Len(Path) /\ Path[i + 1] = m
      BY <1>2, <1>5, <2>2
    <3> QED
      BY <1>1, <1>3, <2>2, <3>1 DEF InvPath
  <2> QED
    BY <2>1, <2>2
<1> HIDE DEF w
<1>8. InvPath'
  BY <1>1, <1>3, <1>4, <1>6, <1>7 DEF InvPath
<1> QED
  BY <1>4, <1>8 DEF w

\* The other steps leave the nodes of the list and its last node alone.
LEMMA PathKept ==
  ASSUME InvPath, UNCHANGED <<head, next>>, ListNodes' = ListNodes, LastNode' = LastNode
  PROVE  InvPath' /\ Path' = Path
<1>1. Path' = Path
  BY DEF Path
<1> QED
  BY <1>1 DEF InvPath

\* Moving the tail to the linked node leaves the path alone.
LEMMA PathAdvance ==
  ASSUME IInv, InvPath, NEW t \in Threads, Advance(t)
  PROVE  InvPath' /\ Path' = Path
<1>1. LastNode' = LastNode /\ ListNodes' = ListNodes
  BY DEF Advance, Goto, Release, list, locals, IInv, TypeOK, InvLocks, HoldsTail, LastNode, Linked, ListNodes
<1> QED
  BY <1>1, PathKept DEF Advance

\* A step that changes neither the list nor a new node leaves the path alone.
LEMMA PathOther ==
  ASSUME IInv, InvPath, UNCHANGED <<list, newNode>>, Linked' <=> Linked
  PROVE  InvPath' /\ Path' = Path
<1>1. LastNode' = LastNode /\ ListNodes' = ListNodes
  BY DEF LastNode, ListNodes, list
<1> QED
  BY <1>1, PathKept DEF list

\* Every step keeps the path whole.
LEMMA PathStep == IInv /\ IInv' /\ InvPath /\ [Next]_vars => InvPath'
<1> SUFFICES ASSUME IInv, IInv', InvPath, [Next]_vars PROVE InvPath'
  OBVIOUS
<1>1. Pushers \subseteq Threads /\ Poppers \subseteq Threads
  BY DEF Threads
<1>2. ASSUME NEW t \in Threads, \/ PushLock(t) \/ PopLock(t) \/ GetTail(t) \/ ReadTail(t) \/ Block(t)
                                \/ SpuriousWakeup(t) \/ Timeout(t) \/ Return(t)
                                \/ \E c \in Calls : PopStart(t, c)
      PROVE  InvPath'
  <2>1. UNCHANGED <<list, newNode>> /\ (Linked' <=> Linked)
    BY <1>2 DEF PushLock, PopLock, GetTail, ReadTail, Block, SpuriousWakeup, Timeout, Return, PopStart,
                Goto, mutexes, list, locals, IInv, TypeOK, Linked
  <2> QED
    BY <2>1, PathOther
<1>3. ASSUME NEW t \in Threads, NotifyAll(t) PROVE InvPath'
  <2>1. UNCHANGED <<list, newNode>> /\ (Linked' <=> Linked)
    BY <1>3 DEF NotifyAll, list, locals, IInv, TypeOK, Linked
  <2> QED
    BY <2>1, PathOther
<1>4. CASE UNCHANGED vars
  <2>1. UNCHANGED <<list, newNode>> /\ (Linked' <=> Linked)
    BY <1>4 DEF vars, list, locals, Linked
  <2> QED
    BY <2>1, PathOther
<1> QED
  BY <1>1, <1>2, <1>3, <1>4, PathPushStart, PathLink, PathAdvance, PathTake DEF Next, Continue, Acquiring

\* The path is always whole.
LEMMA PathInvariance == Spec => [](IInv /\ InvPath)
<1>1. IInv /\ InvPath /\ [Next]_vars => IInv' /\ InvPath'
  BY StepInv, PathStep
<1> QED
  BY <1>1, InitInv, PathInit, PTL DEF Spec

\* The list runs from the dummy to _tail or one node further, and holds every
\* node but those not yet linked: none is lost, and there is no cycle.
THEOREM ListCorrect == Spec => []ListIntact
<1>1. ASSUME IInv, InvPath PROVE ListIntact
  <2> DEFINE unlinked == {newNode[t] : t \in Threads} \ {Null}
  <2>1. ListNodes = live \ unlinked
    BY <1>1, QueueAssumption DEF IInv, TypeOK, ListNodes, Pointers
  <2>2. /\ Path \in Seq(Nodes) /\ Len(Path) \in Nat \ {0} /\ Path # <<>>
        /\ DOMAIN Path = 1..Len(Path)
    BY <1>1, PathNonempty
  <2>3. ToSet(Path) = ListNodes
    BY <1>1, <2>2 DEF InvPath, ToSet, IInv, TypeOK, ListNodes
  <2>4. IsInjective(Path)
    BY <1>1, <2>2 DEF InvPath, IsList, IsInjective
  <2>5. Last(Path) = IF \E t \in Threads : pc[t] = "advance" THEN next[tail] ELSE tail
    BY <1>1 DEF InvPath, Last, LastNode, Linked
  <2> QED
    BY <1>1, <2>1, <2>3, <2>4, <2>5 DEF ListIntact, Exactly, IInv
<1> QED
  BY <1>1, PathInvariance, PTL

-----------------------------------------------------------------------------
(* The elements of the queue *)

\* Where _tail is in the list.
TailPos == IF Linked THEN Len(Path) - 1 ELSE Len(Path)

\* The tail is at TailPos on the path.
LEMMA TailPosIs ==
  ASSUME IInv, InvPath
  PROVE  TailPos \in 1..Len(Path) /\ Path[TailPos] = tail
<1>1. /\ Path \in Seq(Nodes) /\ Len(Path) \in Nat \ {0} /\ Path[Len(Path)] = LastNode
      /\ DOMAIN next = Nodes
  BY PathNonempty DEF InvPath, IInv, TypeOK
<1>2. CASE ~Linked
  BY <1>1, <1>2 DEF TailPos, LastNode
<1>3. CASE Linked
  <2>1. /\ LastNode = next[tail] /\ next[tail] # tail /\ tail \in ListNodes /\ tail \in Nodes
    BY <1>3 DEF LastNode, IInv, InvList, TypeOK
  <2>2. PICK j \in 1..Len(Path) : Path[j] = tail
    BY <2>1 DEF InvPath
  <2>3. j # Len(Path)
    BY <1>1, <2>1, <2>2
  <2>4. j < Len(Path) /\ j + 1 \in 1..Len(Path) /\ Len(Path) \in 1..Len(Path)
    BY <1>1, <2>3
  <2>5. Path[j + 1] = next[tail]
    BY <2>2, <2>4 DEF InvPath, IsList
  <2>6. j + 1 = Len(Path)
    BY <1>1, <2>1, <2>4, <2>5 DEF InvPath, IsList
  <2>7. j = Len(Path) - 1
    BY <1>1, <2>6
  <2> QED
    BY <1>3, <2>2, <2>7 DEF TailPos
<1> QED
  BY <1>2, <1>3

\* The elements are the values from the node after the dummy up to the tail.
LEMMA ElementsAre == IInv /\ InvPath => Elements = [i \in 1..(TailPos - 1) |-> val[Path[i + 1]]]
<1> SUFFICES ASSUME IInv, InvPath PROVE Elements = [i \in 1..(TailPos - 1) |-> val[Path[i + 1]]]
  OBVIOUS
<1> DEFINE upTo == CHOOSE i \in DOMAIN Path : Path[i] = tail
<1>1. /\ Path \in Seq(Nodes) /\ Len(Path) \in Nat \ {0} /\ DOMAIN Path = 1..Len(Path)
      /\ TailPos \in 1..Len(Path) /\ Path[TailPos] = tail
  BY PathNonempty, TailPosIs
<1>2. upTo \in 1..Len(Path) /\ Path[upTo] = tail
  BY <1>1
<1>3. upTo = TailPos
  BY <1>1, <1>2 DEF InvPath, IsList
<1>4. tail \in ToSet(Path)
  BY <1>1 DEF ToSet
<1> HIDE DEF upTo
<1>5. Elements = [i \in 1..(upTo - 1) |-> val[Path[i + 1]]]
  BY <1>4 DEF Elements, upTo
<1> QED
  BY <1>3, <1>5

\* ElementsAre, of the state after a step.
LEMMA ElementsAreNext ==
  (IInv /\ InvPath)' => Elements' = [i \in 1..(TailPos' - 1) |-> val'[Path'[i + 1]]]
<1>1. (IInv /\ InvPath => Elements = [i \in 1..(TailPos - 1) |-> val[Path[i + 1]]])'
  BY ElementsAre, PTL
<1> QED
  BY <1>1

\* A step that leaves the tail and the values up to it leaves the elements alone.
LEMMA ElementsKept ==
  ASSUME IInv, IInv', InvPath, InvPath', TailPos' = TailPos,
         \A i \in 1..(TailPos - 1) : val'[Path'[i + 1]] = val[Path[i + 1]]
  PROVE  Elements' = Elements
<1>1. Elements = [i \in 1..(TailPos - 1) |-> val[Path[i + 1]]]
  BY ElementsAre
<1>2. Elements' = [i \in 1..(TailPos' - 1) |-> val'[Path'[i + 1]]]
  BY ElementsAreNext
<1> QED
  BY <1>1, <1>2

-----------------------------------------------------------------------------
(* Each step is one of FifoQueue, or changes nothing there *)

\* Who is where, and only a timed pop runs out of time.
InvCalls ==
  \A t \in Threads :
    /\ pc[t] \in {"push_lock", "link", "advance", "notify"} => t \in Pushers
    /\ pc[t] \notin {"idle", "push_lock", "link", "advance", "notify"} => t \in Poppers
    /\ timedOut[t] => call[t] = "timed" /\ pc[t] \notin {"idle", "push_lock", "link", "advance", "notify"}

\* At first no thread is in a call.
LEMMA CallsInit == Init => InvCalls
BY DEF Init, InvCalls

\* Every step keeps each thread in a call of its own role.
LEMMA CallsStep == TypeOK /\ InvCalls /\ [Next]_vars => InvCalls'
<1> SUFFICES ASSUME TypeOK, InvCalls, [Next]_vars PROVE InvCalls'
  OBVIOUS
<1> USE DEF TypeOK, InvCalls, Goto, list, locals, mutexes
<1>a. Threads = Pushers \cup Poppers
  BY DEF Threads
<1>1. ASSUME NEW t \in Pushers, NEW v \in Values, PushStart(t, v) PROVE InvCalls'
  BY <1>1, <1>a DEF PushStart
<1>2. ASSUME NEW t \in Poppers, NEW c \in Calls, PopStart(t, c) PROVE InvCalls'
  BY <1>2, <1>a DEF PopStart
<1>3. ASSUME NEW t \in Poppers, SpuriousWakeup(t) \/ Timeout(t) PROVE InvCalls'
  BY <1>3, <1>a DEF SpuriousWakeup, Timeout
<1>4. ASSUME NEW t \in Threads, PushLock(t) \/ Link(t) \/ Advance(t) PROVE InvCalls'
  BY <1>4 DEF PushLock, Link, Advance
<1>5. ASSUME NEW t \in Threads, PopLock(t) \/ GetTail(t) \/ Block(t) \/ Take(t) PROVE InvCalls'
  BY <1>5 DEF PopLock, GetTail, Block, Take
<1>6. ASSUME NEW t \in Threads, ReadTail(t) PROVE InvCalls'
  BY <1>6 DEF ReadTail
<1>7. ASSUME NEW t \in Threads, NotifyAll(t) \/ Return(t) PROVE InvCalls'
  BY <1>7 DEF NotifyAll, Return
<1>8. CASE UNCHANGED vars
  BY <1>8 DEF vars
<1> QED
  BY <1>1, <1>2, <1>3, <1>4, <1>5, <1>6, <1>7, <1>8 DEF Next, Continue, Acquiring

ops == [t \in Threads |-> AbstractOp(t)]

\* A step after which every thread but t is in the operation it was in.
Others(t) == \A u \in Threads \ {t} : AbstractOp(u)' = AbstractOp(u)

\* A step of one thread changes only that thread's abstract operation.
LEMMA OpsOf ==
  ASSUME NEW t \in Threads, Others(t)
  PROVE  ops' = [ops EXCEPT ![t] = AbstractOp(t)']
BY DEF ops, Others

\* Most steps move one thread and touch no node in another one's hands.
LEMMA OthersKept ==
  ASSUME NEW t \in Threads,
         \A u \in Threads \ {t} : pc'[u] = pc[u] /\ newNode'[u] = newNode[u]
                                 /\ call'[u] = call[u] /\ res'[u] = res[u],
         UNCHANGED <<next, tail, val>>
  PROVE  Others(t)
BY DEF Others, AbstractOp

\* The initial queue is an empty FIFO queue.
LEMMA RefineInit == Init => Fifo!Init
<1> SUFFICES ASSUME Init PROVE Fifo!Init
  OBVIOUS
<1>1. IInv /\ InvPath
  BY InitInv, PathInit
<1>2. Path = <<head>>
  <2>1. TypeOK /\ IsList(<<head>>, head, next)
    BY <1>1, QueueAssumption DEF Init, IInv, IsList
  <2> QED
    BY <2>1, PathIs
<1>3. TailPos = 1
  BY <1>2 DEF TailPos, Init, Linked
<1>4. Elements = <<>>
  BY <1>1, <1>3, ElementsAre
<1>5. ops = [t \in Pushers \cup Poppers |-> Fifo!Idle]
  BY DEF Init, ops, AbstractOp, Fifo!Idle, Fifo!Op, Threads
<1> QED
  BY <1>4, <1>5 DEF Fifo!Init, ops

\* The steps that leave the list and its last node alone leave the elements alone.
LEMMA ElementsUntouched ==
  ASSUME IInv, IInv', InvPath, UNCHANGED <<list, newNode>>, Linked' <=> Linked
  PROVE  Elements' = Elements
<1>1. InvPath' /\ Path' = Path
  BY PathOther
<1>2. TailPos' = TailPos /\ val' = val
  BY <1>1 DEF TailPos, list
<1> QED
  BY <1>1, <1>2, ElementsKept

\* Every step is a step of the FIFO queue or leaves it alone.
LEMMA RefineStep == IInv /\ IInv' /\ InvPath /\ InvCalls /\ [Next]_vars => [Fifo!Next]_(Fifo!fVars)
<1> SUFFICES ASSUME IInv, IInv', InvPath, InvCalls, [Next]_vars PROVE Fifo!Next \/ UNCHANGED <<Elements, ops>>
  BY DEF Fifo!fVars, ops
<1> USE QueueAssumption DEF Goto
<1>0. TypeOK
  BY DEF IInv
<1>a. Threads = Pushers \cup Poppers
  BY DEF Threads
<1>b. /\ Path \in Seq(Nodes) /\ Len(Path) \in Nat \ {0}
      /\ TailPos \in 1..Len(Path) /\ Path[TailPos] = tail /\ Path[1] = head
      /\ Elements = [i \in 1..(TailPos - 1) |-> val[Path[i + 1]]]
  BY PathNonempty, TailPosIs, ElementsAre
<1>1. ASSUME NEW t \in Pushers, NEW v \in Values, PushStart(t, v) PROVE Fifo!InvokePush(t, v)
  <2>1. t \in Threads
    BY <1>a
  <2>2. PICK n \in Nodes \ live : /\ val' = [val EXCEPT ![n] = v]
                                  /\ next' = [next EXCEPT ![n] = Null]
                                  /\ newNode' = [newNode EXCEPT ![t] = n]
    BY <1>1 DEF PushStart
  <2>3. Others(t)
    <3>1. ASSUME NEW u \in Threads \ {t} PROVE AbstractOp(u)' = AbstractOp(u)
      <4>1. pc'[u] = pc[u] /\ newNode'[u] = newNode[u] /\ call'[u] = call[u] /\ res'[u] = res[u] /\ tail' = tail
        BY <1>0, <1>1, <2>1, <2>2 DEF PushStart, TypeOK, mutexes
      <4>2. CASE pc[u] \in {"push_lock", "link"}
        <5>1. newNode[u] \in live
          BY <4>2 DEF IInv, InvNew
        <5>2. val'[newNode[u]] = val[newNode[u]]
          BY <1>0, <2>2, <5>1 DEF TypeOK
        <5> QED
          BY <4>1, <4>2, <5>2 DEF AbstractOp
      <4>3. CASE pc[u] = "advance"
        <5>1. Linked /\ tail \in live /\ next[tail] \in live
          BY <4>3 DEF IInv, InvList, ListNodes, Linked, LastNode
        <5>2. next'[tail] = next[tail] /\ val'[next[tail]] = val[next[tail]]
          BY <1>0, <2>2, <5>1 DEF TypeOK
        <5> QED
          BY <4>1, <4>3, <5>2 DEF AbstractOp
      <4>4. CASE pc[u] \notin {"push_lock", "link", "advance"}
        BY <4>1, <4>4 DEF AbstractOp
      <4> QED
        BY <4>2, <4>3, <4>4
    <3> QED
      BY <3>1 DEF Others
  <2>4. AbstractOp(t) = Fifo!Idle /\ AbstractOp(t)' = Fifo!Op("push", v)
    BY <1>0, <1>1, <2>1, <2>2 DEF PushStart, TypeOK, AbstractOp, Fifo!Op, Fifo!Idle
  <2>5. Elements' = Elements
    <3>1. InvPath' /\ Path' = Path
      BY <1>1, <2>1, PathPushStart
    <3>2. TailPos' = TailPos
      BY <1>0, <1>1, <2>1, <3>1 DEF TailPos, Linked, PushStart, TypeOK
    <3>3. \A i \in 1..(TailPos - 1) : i + 1 \in 1..Len(Path)
      BY <1>b
    <3>4. \A i \in 1..Len(Path) : Path[i] \in live
      BY <1>b DEF InvPath, ListNodes
    <3>5. \A i \in 1..(TailPos - 1) : val'[Path'[i + 1]] = val[Path[i + 1]]
      BY <1>0, <2>2, <3>1, <3>3, <3>4 DEF TypeOK
    <3> QED
      BY <3>1, <3>2, <3>5, ElementsKept
  <2> QED
    BY <2>1, <2>3, <2>4, <2>5, OpsOf DEF Fifo!InvokePush, Fifo!Become, ops
<1>2. ASSUME NEW t \in Threads, Link(t) PROVE UNCHANGED <<Elements, ops>>
  <2>1. /\ newNode[t] \in Nodes /\ newNode[t] # Null /\ ~Linked /\ Linked'
        /\ next' = [next EXCEPT ![tail] = newNode[t]]
    BY <1>0, <1>2 DEF Link, IInv, TypeOK, InvNew, InvLocks, HoldsTail, Linked, Pointers
  <2>2. Elements' = Elements
    <3>1. InvPath' /\ Path' = Append(Path, newNode[t])
      BY <1>2, PathLink
    <3>2. Len(Path') = Len(Path) + 1 /\ \A i \in 1..Len(Path) : Path'[i] = Path[i]
      BY <1>b, <2>1, <3>1
    <3>3. TailPos = Len(Path) /\ TailPos' = TailPos
      BY <1>b, <2>1, <3>2 DEF TailPos
    <3>4. \A i \in 1..(TailPos - 1) : i + 1 \in 1..Len(Path)
      BY <1>b
    <3>5. \A i \in 1..(TailPos - 1) : val'[Path'[i + 1]] = val[Path[i + 1]]
      BY <1>2, <3>2, <3>4 DEF Link
    <3> QED
      BY <3>1, <3>3, <3>5, ElementsKept
  <2>3. AbstractOp(t)' = AbstractOp(t)
    BY <1>0, <1>2, <2>1 DEF Link, TypeOK, AbstractOp
  <2>4. Others(t)
    <3>1. ASSUME NEW u \in Threads \ {t} PROVE AbstractOp(u)' = AbstractOp(u)
      <4>1. pc[u] # "advance"
        BY <2>1 DEF Linked
      <4>2. /\ pc'[u] = pc[u] /\ newNode'[u] = newNode[u] /\ call'[u] = call[u] /\ res'[u] = res[u]
            /\ val' = val
        BY <1>0, <1>2 DEF Link, TypeOK
      <4> QED
        BY <4>1, <4>2 DEF AbstractOp
    <3> QED
      BY <3>1 DEF Others
  <2> QED
    BY <2>2, <2>3, <2>4 DEF Others, ops
<1>3. ASSUME NEW t \in Threads, Advance(t) PROVE t \in Pushers /\ Fifo!Push(t)
  <2>1. t \in Pushers /\ Linked /\ ~Linked'
    BY <1>0, <1>3 DEF Advance, InvCalls, IInv, InvLocks, HoldsTail, Linked, TypeOK
  <2>2. InvPath' /\ Path' = Path
    BY <1>3, PathAdvance
  <2>3. TailPos = Len(Path) - 1 /\ TailPos' = TailPos + 1 /\ Path[TailPos + 1] = next[tail]
    BY <1>b, <2>1, <2>2 DEF TailPos, InvPath, LastNode
  <2>4. Elements' = [i \in 1..TailPos |-> val[Path[i + 1]]]
    <3>1. Elements' = [i \in 1..(TailPos' - 1) |-> val'[Path'[i + 1]]]
      BY <2>2, ElementsAreNext
    <3>2. TailPos' - 1 = TailPos /\ val' = val
      BY <1>3, <1>b, <2>3 DEF Advance
    <3> QED
      BY <2>2, <3>1, <3>2
  <2>5. Elements' = Append(Elements, val[next[tail]])
    <3> DEFINE S == {val[Path[i + 1]] : i \in 1..TailPos}
    <3>1. Elements' \in [1..TailPos -> S] /\ Elements \in [1..(TailPos - 1) -> S]
      BY <1>b, <2>4
    <3>2. /\ \A i \in 1..(TailPos - 1) : Elements[i] = Elements'[i]
          /\ Elements'[TailPos] = val[next[tail]]
      BY <1>b, <2>3, <2>4
    <3> HIDE DEF S
    <3> QED
      BY <1>b, <3>1, <3>2, SeqAppend
  <2>6. AbstractOp(t).kind = "push" /\ AbstractOp(t).arg = val[next[tail]]
        /\ AbstractOp(t)' = Fifo!Op("done", "")
    BY <1>0, <1>3 DEF Advance, TypeOK, AbstractOp, Fifo!Op
  <2>7. Others(t)
    <3>1. ASSUME NEW u \in Threads \ {t} PROVE AbstractOp(u)' = AbstractOp(u)
      <4>1. pc[u] # "advance"
        BY <1>3 DEF Advance, IInv, InvLocks, HoldsTail
      <4>2. /\ pc'[u] = pc[u] /\ newNode'[u] = newNode[u] /\ call'[u] = call[u] /\ res'[u] = res[u]
            /\ val' = val
        BY <1>0, <1>3 DEF Advance, TypeOK, locals
      <4> QED
        BY <4>1, <4>2 DEF AbstractOp
    <3> QED
      BY <3>1 DEF Others
  <2> QED
    BY <2>1, <2>5, <2>6, <2>7, OpsOf DEF Fifo!Push, Fifo!Become, ops
<1>4. ASSUME NEW t \in Threads, NotifyAll(t) PROVE Fifo!Return(t)
  <2>1. Others(t)
    BY <1>0, <1>4 DEF NotifyAll, TypeOK, Others, AbstractOp, list, locals
  <2>2. AbstractOp(t).kind = "done" /\ AbstractOp(t)' = Fifo!Idle
    BY <1>0, <1>4 DEF NotifyAll, TypeOK, AbstractOp, Fifo!Op, Fifo!Idle
  <2>3. Elements' = Elements
    BY <1>0, <1>4, ElementsUntouched DEF NotifyAll, TypeOK, Linked, locals
  <2> QED
    BY <2>1, <2>2, <2>3, OpsOf DEF Fifo!Return, Fifo!Become, ops
<1>5. ASSUME NEW t \in Poppers, NEW c \in Calls, PopStart(t, c) PROVE Fifo!InvokePop(t, c)
  <2>1. t \in Threads
    BY <1>a
  <2>2. Others(t)
    BY <1>0, <1>5, <2>1, OthersKept DEF PopStart, TypeOK, list
  <2>3. AbstractOp(t) = Fifo!Idle /\ AbstractOp(t)' = Fifo!Op("pop", c)
    BY <1>0, <1>5, <2>1 DEF PopStart, TypeOK, AbstractOp, Fifo!Op, Fifo!Idle
  <2>4. Elements' = Elements
    BY <1>0, <1>5, <2>1, ElementsUntouched DEF PopStart, TypeOK, Linked
  <2> QED
    BY <2>1, <2>2, <2>3, <2>4, OpsOf DEF Fifo!InvokePop, Fifo!Become, ops
<1>6. ASSUME NEW t \in Threads, \/ PushLock(t) \/ PopLock(t) \/ GetTail(t) \/ Block(t)
                                \/ SpuriousWakeup(t) \/ Timeout(t)
      PROVE  UNCHANGED <<Elements, ops>>
  <2>1. Others(t)
    BY <1>0, <1>6, OthersKept DEF PushLock, PopLock, GetTail, Block, SpuriousWakeup, Timeout, TypeOK, list, locals
  <2>2. AbstractOp(t)' = AbstractOp(t)
    BY <1>0, <1>6 DEF PushLock, PopLock, GetTail, Block, SpuriousWakeup, Timeout, TypeOK, list, locals, AbstractOp
  <2>3. UNCHANGED <<list, newNode>> /\ (Linked' <=> Linked)
    BY <1>0, <1>6 DEF PushLock, PopLock, GetTail, Block, SpuriousWakeup, Timeout, TypeOK, locals, Linked
  <2> QED
    BY <2>1, <2>2, <2>3, ElementsUntouched DEF Others, ops
<1>7. ASSUME NEW t \in Threads, ReadTail(t) PROVE (t \in Poppers /\ Fifo!GiveUp(t)) \/ UNCHANGED <<Elements, ops>>
  <2>1. Others(t)
    BY <1>0, <1>7, OthersKept DEF ReadTail, TypeOK, list, locals
  <2>2. Elements' = Elements
    BY <1>0, <1>7, ElementsUntouched DEF ReadTail, TypeOK, locals, Linked
  <2>3. CASE head = tail /\ ThrowsIfEmpty(t)
    <3>1. TailPos = 1
      BY <1>b, <2>3 DEF InvPath, IsList
    <3>2. Elements = <<>>
      BY <1>b, <3>1
    <3>3. t \in Poppers /\ call[t] \in {"try", "timed"}
      BY <1>7, <2>3 DEF ReadTail, InvCalls, ThrowsIfEmpty
    <3>4. AbstractOp(t).kind = "pop" /\ AbstractOp(t).arg = call[t] /\ AbstractOp(t)' = Fifo!Op("failed", "")
      BY <1>0, <1>7, <2>3 DEF ReadTail, TypeOK, AbstractOp, Fifo!Op
    <3> QED
      BY <2>1, <2>2, <3>2, <3>3, <3>4, OpsOf DEF Fifo!GiveUp, Fifo!Become, ops
  <2>4. CASE ~(head = tail /\ ThrowsIfEmpty(t))
    <3>1. AbstractOp(t)' = AbstractOp(t)
      BY <1>0, <1>7, <2>4 DEF ReadTail, TypeOK, AbstractOp, locals
    <3> QED
      BY <2>1, <2>2, <3>1 DEF Others, ops
  <2> QED
    BY <2>3, <2>4
<1>8. ASSUME NEW t \in Threads, Take(t) PROVE t \in Poppers /\ Fifo!Pop(t)
  <2>1. t \in Poppers /\ call[t] # "is_empty" /\ head # tail /\ (Linked' <=> Linked)
    BY <1>0, <1>8 DEF Take, InvCalls, IInv, InvTake, TypeOK, Linked
  <2>2. InvPath' /\ Path' = Tail(Path)
    BY <1>8, PathTake
  <2>3. /\ Len(Path') = Len(Path) - 1
        /\ \A i \in 1..Len(Path') : Path'[i] = Path[i + 1]
    BY <1>b, <2>2
  <2>4. TailPos > 1 /\ TailPos' = TailPos - 1 /\ Path[2] = next[head]
    <3>1. TailPos > 1 /\ TailPos' = TailPos - 1
      BY <1>b, <2>1, <2>3 DEF TailPos
    <3>2. 1 \in 1..Len(Path) /\ 1 < Len(Path)
      BY <1>b, <3>1
    <3> QED
      BY <1>b, <3>1, <3>2 DEF InvPath, IsList
  <2>5. Elements' = [i \in 1..(TailPos - 2) |-> val[Path[i + 2]]]
    <3>1. Elements' = [i \in 1..(TailPos' - 1) |-> val'[Path'[i + 1]]]
      BY <2>2, ElementsAreNext
    <3>2. TailPos' - 1 = TailPos - 2 /\ val' = val
      BY <1>8, <1>b, <2>4 DEF Take
    <3>3. \A i \in 1..(TailPos - 2) : Path'[i + 1] = Path[i + 2]
      <4>1. \A i \in 1..(TailPos - 2) : i + 1 \in 1..Len(Path') /\ (i + 1) + 1 = i + 2
        BY <1>b, <2>3, <2>4
      <4> QED
        BY <2>3, <4>1
    <3> QED
      BY <3>1, <3>2, <3>3
  <2>6. Elements # <<>> /\ Head(Elements) = val[next[head]] /\ Elements' = Tail(Elements)
    <3> DEFINE S == {val[Path[i + 1]] : i \in 1..TailPos}
               k == TailPos - 1
    <3>1. k \in Nat \ {0} /\ k - 1 = TailPos - 2
      BY <1>b, <2>4
    <3>2. Elements \in [1..k -> S]
      BY <1>b
    <3>3. Elements' \in [1..(k - 1) -> S]
      <4>1. \A i \in 1..(TailPos - 2) : i + 1 \in 1..TailPos /\ (i + 1) + 1 = i + 2
        BY <1>b
      <4> QED
        BY <2>5, <3>1, <4>1
    <3>4. \A i \in 1..(k - 1) : Elements'[i] = Elements[i + 1]
      BY <1>b, <2>5, <3>1
    <3>5. Elements[1] = val[next[head]]
      BY <1>b, <2>4
    <3> HIDE DEF S, k
    <3> QED
      BY <3>1, <3>2, <3>3, <3>4, <3>5, SeqCons
  <2>7. Others(t)
    BY <1>0, <1>8, OthersKept DEF Take, TypeOK
  <2>8. /\ AbstractOp(t).kind = "pop" /\ AbstractOp(t).arg = call[t]
        /\ AbstractOp(t)' = Fifo!Op("popped", val[next[head]])
    BY <1>0, <1>8 DEF Take, TypeOK, AbstractOp, Fifo!Op
  <2> QED
    BY <2>1, <2>6, <2>7, <2>8, OpsOf DEF Fifo!Pop, Fifo!Become, ops
<1>9. ASSUME NEW t \in Threads, Return(t) PROVE Fifo!Return(t)
  <2>1. Others(t)
    BY <1>0, <1>9, OthersKept DEF Return, TypeOK, list
  <2>2. AbstractOp(t).kind \in {"popped", "failed"} /\ AbstractOp(t)' = Fifo!Idle
    BY <1>0, <1>9 DEF Return, TypeOK, AbstractOp, Fifo!Op, Fifo!Idle
  <2>3. Elements' = Elements
    BY <1>0, <1>9, ElementsUntouched DEF Return, TypeOK, Linked
  <2> QED
    BY <2>1, <2>2, <2>3, OpsOf DEF Fifo!Return, Fifo!Become, ops
<1>10. CASE UNCHANGED vars
  <2>1. UNCHANGED <<list, newNode>> /\ (Linked' <=> Linked)
    BY <1>10 DEF vars, list, locals, Linked
  <2>2. Elements' = Elements
    BY <2>1, ElementsUntouched
  <2> QED
    BY <1>10, <2>2 DEF vars, list, locals, ops, AbstractOp
<1> QED
  BY <1>1, <1>2, <1>3, <1>4, <1>5, <1>6, <1>7, <1>8, <1>9, <1>10, <1>a
  DEF Next, Continue, Acquiring, Fifo!Next

\* pushElement and the pops are the atomic operations of a FIFO queue: each takes
\* effect at one instant, and a pop gives up only at an instant when it is empty.
THEOREM Linearizable == Spec => ImplementsQueue
<1>1. Init => Fifo!Init
  BY RefineInit
<1>2. Init => IInv /\ InvPath /\ InvCalls
  BY InitInv, PathInit, CallsInit
<1>3. IInv /\ InvPath /\ InvCalls /\ [Next]_vars => IInv' /\ InvPath' /\ InvCalls'
  BY StepInv, PathStep, CallsStep DEF IInv
<1>4. IInv /\ InvPath /\ InvCalls /\ [Next]_vars => [Fifo!Next]_(Fifo!fVars)
  BY StepInv, RefineStep
<1> QED
  BY <1>1, <1>2, <1>3, <1>4, PTL DEF Spec, ImplementsQueue, Fifo!Spec
=============================================================================
