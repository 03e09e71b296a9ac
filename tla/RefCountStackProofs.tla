-------------------------- MODULE RefCountStackProofs --------------------------
(***************************************************************************)
(* Memory safety of the reference-counting stack, its lists and its        *)
(* linearizability, for every number of threads, nodes and values.         *)
(***************************************************************************)
EXTENDS RefCountStackRefinement, NodeListsProofs

-----------------------------------------------------------------------------
(* The inductive invariant *)

\* t is between reading a non-null head and removing it: it holds a pointer to
\* a node that is not its own.
Holds(t) == pc[t] \in {"pop_next", "pop_cas"}

\* t removed oldHead from the stack and has not passed it on yet.
Owns(t) == /\ oldHead[t] # Null
           /\ pc[t] \in {"pop_swap", "check", "claim", "leave_alone", "delete_claimed",
                         "find_tail", "link_load", "link_cas", "delete_old",
                         "add_load", "add_cas"}

\* t saw a count of 1 after it removed oldHead.
Solo(t) == pc[t] \in {"claim", "leave_alone", "delete_claimed", "find_tail",
                      "link_load", "link_cas", "delete_old"}

\* Each node is with the list or the thread its place names.
InvPlace ==
  /\ \A t \in Threads :
       /\ pc[t] = "push_cas" => newNode[t] # Null /\ place[newNode[t]] = "new"
       /\ pc[t] \in {"pop_next", "pop_cas", "pop_swap", "add_load", "add_cas"} => oldHead[t] # Null
       /\ Owns(t) => place[oldHead[t]] = "popped"
       /\ pc[t] \in {"find_tail", "link_load", "link_cas"} => tail[t] \in mine[t]
       /\ \A n \in mine[t] : place[n] = "claimed"
  /\ \A t, u \in Threads : t # u =>
       /\ pc[t] = "push_cas" /\ pc[u] = "push_cas" => newNode[t] # newNode[u]
       /\ Owns(t) /\ Owns(u) => oldHead[t] # oldHead[u]
       /\ mine[t] \cap mine[u] = {}

\* The nodes of S are linked into lists that stay in S, the one from `first`
\* among them: no node has two predecessors and `first` has none.  The nodes
\* of Loose are exempt, their _next is being rewritten.
Chain(first, S, Loose) ==
  /\ first # Null => first \in S
  /\ \A n \in S \ Loose : next[n] # Null => next[n] \in S /\ next[n] # first
  /\ \A n, m \in S \ Loose : next[n] = next[m] /\ next[n] # Null => n = m

InvChain ==
  /\ Chain(head, In("stack"), {})
  /\ Chain(pending, In("pending"), {})
  /\ \A t \in Threads :
       Chain(claimed[t], mine[t], IF pc[t] = "link_cas" THEN {tail[t]} ELSE {})

\* A node some thread still holds a pointer to is not free, and nobody is about
\* to free it.
InvHold ==
  \A t \in Threads : Holds(t) =>
    /\ place[oldHead[t]] \in {"stack", "popped", "pending", "claimed"}
    /\ \A u \in Threads : Owns(u) /\ Solo(u) => oldHead[u] # oldHead[t]
    /\ \A u \in Threads : pc[u] = "delete_claimed" => oldHead[t] \notin mine[u]

\* The successor a pop has read is current as long as the node is in the stack.
InvNext ==
  \A t \in Threads :
    pc[t] = "pop_cas" /\ place[oldHead[t]] = "stack" => desired[t] = next[oldHead[t]]

IInv == TypeOK /\ CountsPoppers /\ InvPlace /\ InvChain /\ InvHold /\ InvNext


-----------------------------------------------------------------------------
(* Counting *)

\* The threads _threadCntInPop counts.
InsidePop == {t \in Threads : InPop(t)}

\* What the count says about the threads inside pop.
LEMMA CountFacts ==
  ASSUME CountsPoppers
  PROVE  /\ IsFiniteSet(InsidePop)
         /\ cnt = Cardinality(InsidePop)
         /\ cnt \in Nat
         /\ cnt = 0 <=> InsidePop = {}
         /\ cnt = 1 => \A t, u \in InsidePop : t = u
<1>1. IsFiniteSet(InsidePop)
  BY StackAssumption, FS_Subset DEF InsidePop
<1>2. cnt = Cardinality(InsidePop)
  BY DEF CountsPoppers, InsidePop
<1>3. cnt = 1 => \A t, u \in InsidePop : t = u
  <2>1. cnt = 1 => \E t : InsidePop = {t}
    BY <1>1, <1>2, FS_Singleton
  <2>2. QED
    BY <2>1
<1>4. QED
  BY <1>1, <1>2, <1>3, FS_CardinalityType, FS_EmptySet

\* A step that moves no thread into or out of pop keeps the count right.
LEMMA CountKept ==
  ASSUME CountsPoppers, cnt' = cnt, \A t \in Threads : InPop(t)' <=> InPop(t)
  PROVE  CountsPoppers'
BY DEF CountsPoppers

\* So does ++_threadCntInPop as a thread enters.
LEMMA CountUp ==
  ASSUME CountsPoppers, cnt' = cnt + 1, NEW t \in Threads,
         ~InPop(t), InPop(t)', \A u \in Threads \ {t} : InPop(u)' <=> InPop(u)
  PROVE  CountsPoppers'
<1>1. InsidePop' = InsidePop \cup {t} /\ t \notin InsidePop
  BY DEF InsidePop
<1>2. Cardinality(InsidePop') = Cardinality(InsidePop) + 1
  BY <1>1, CountFacts, FS_AddElement
<1>3. QED
  BY <1>2, CountFacts DEF CountsPoppers, InsidePop

\* So does --_threadCntInPop as a thread leaves, and it does not wrap.
LEMMA CountDown ==
  ASSUME CountsPoppers, cnt' = cnt - 1, NEW t \in Threads,
         InPop(t), ~InPop(t)', \A u \in Threads \ {t} : InPop(u)' <=> InPop(u)
  PROVE  CountsPoppers' /\ cnt' \in Nat
<1>1. InsidePop' = InsidePop \ {t} /\ t \in InsidePop
  BY DEF InsidePop
<1>2. Cardinality(InsidePop') = Cardinality(InsidePop) - 1
  BY <1>1, CountFacts, FS_RemoveElement
<1>3. cnt' \in Nat
  BY <1>1, CountFacts
<1>4. QED
  BY <1>2, <1>3, CountFacts DEF CountsPoppers, InsidePop

-----------------------------------------------------------------------------
(* Every action preserves the invariant *)

\* A node the allocator hands out is in no list and no thread holds it.
LEMMA PushStartInv ==
  ASSUME NEW t \in Threads, NEW v \in Values, IInv, PushStart(t, v)
  PROVE  IInv'
<1> USE StackAssumption DEF PushStart, Goto, Move, heap, locals, Pointers
<1>1. CountsPoppers' /\ cnt' \in Nat
  BY CountFacts, CountKept DEF IInv, TypeOK, InPop
<1>2. TypeOK'
  BY <1>1 DEF IInv, TypeOK, Places, Labels, InvPlace, InvChain, Chain
<1>3. InvPlace'
  BY DEF IInv, TypeOK, InvPlace, InvChain, Chain, In, Owns, Places
<1>4. InvChain'
  BY DEF IInv, TypeOK, InvPlace, InvChain, Chain, In, InvNext
<1>5. InvHold'
  BY CountFacts DEF IInv, TypeOK, InvPlace, InvChain, Chain, In, InvHold, Owns, Solo, Holds, InPop, InsidePop
<1>6. InvNext'
  BY DEF IInv, TypeOK, InvPlace, InvHold, InvNext, Holds
<1>7. QED
  BY <1>1, <1>2, <1>3, <1>4, <1>5, <1>6 DEF IInv

\* The new node becomes the first of the stack; its _next is the old head.
LEMMA PushCasInv ==
  ASSUME NEW t \in Threads, IInv, PushCas(t)
  PROVE  IInv'
<1> USE StackAssumption DEF PushCas, Goto, Move, heap, locals, Pointers
<1>1. CountsPoppers' /\ cnt' \in Nat
  BY CountFacts, CountKept DEF IInv, TypeOK, InPop
<1>2. TypeOK'
  BY <1>1 DEF IInv, TypeOK, Places, Labels, InvPlace, InvChain, Chain
<1>3. InvPlace'
  BY DEF IInv, TypeOK, InvPlace, InvChain, Chain, In, Owns, Places
<1>4. InvChain'
  BY DEF IInv, TypeOK, InvPlace, InvChain, Chain, In, InvNext
<1>5. InvHold'
  BY CountFacts DEF IInv, TypeOK, InvPlace, InvChain, Chain, In, InvHold, Owns, Solo, Holds, InPop, InsidePop
<1>6. InvNext'
  BY DEF IInv, TypeOK, InvPlace, InvHold, InvNext, Holds
<1>7. QED
  BY <1>1, <1>2, <1>3, <1>4, <1>5, <1>6 DEF IInv

\* Only the _next of a node no other thread can reach changes.
LEMMA PushCasFailInv ==
  ASSUME NEW t \in Threads, IInv, PushCasFail(t)
  PROVE  IInv'
<1> USE StackAssumption DEF PushCasFail, Goto, Move, heap, locals, Pointers
<1>1. CountsPoppers' /\ cnt' \in Nat
  BY CountFacts, CountKept DEF IInv, TypeOK, InPop
<1>2. TypeOK'
  BY <1>1 DEF IInv, TypeOK, Places, Labels, InvPlace, InvChain, Chain
<1>3. InvPlace'
  BY DEF IInv, TypeOK, InvPlace, InvChain, Chain, In, Owns, Places
<1>4. InvChain'
  BY DEF IInv, TypeOK, InvPlace, InvChain, Chain, In, InvNext
<1>5. InvHold'
  BY CountFacts DEF IInv, TypeOK, InvPlace, InvChain, Chain, In, InvHold, Owns, Solo, Holds, InPop, InsidePop
<1>6. InvNext'
  BY DEF IInv, TypeOK, InvPlace, InvHold, InvNext, Holds
<1>7. QED
  BY <1>1, <1>2, <1>3, <1>4, <1>5, <1>6 DEF IInv

\* A thread that enters pop is counted before it reads _head.
LEMMA PopEnterInv ==
  ASSUME NEW t \in Threads, IInv, PopEnter(t)
  PROVE  IInv'
<1> USE StackAssumption DEF PopEnter, Goto, Move, heap, locals, Pointers
<1>1. CountsPoppers' /\ cnt' \in Nat
  BY CountFacts, CountUp DEF IInv, TypeOK, InPop
<1>2. TypeOK'
  BY <1>1 DEF IInv, TypeOK, Places, Labels, InvPlace, InvChain, Chain
<1>3. InvPlace'
  BY DEF IInv, TypeOK, InvPlace, InvChain, Chain, In, Owns, Places
<1>4. InvChain'
  BY DEF IInv, TypeOK, InvPlace, InvChain, Chain, In, InvNext
<1>5. InvHold'
  BY CountFacts DEF IInv, TypeOK, InvPlace, InvChain, Chain, In, InvHold, Owns, Solo, Holds, InPop, InsidePop
<1>6. InvNext'
  BY DEF IInv, TypeOK, InvPlace, InvHold, InvNext, Holds
<1>7. QED
  BY <1>1, <1>2, <1>3, <1>4, <1>5, <1>6 DEF IInv

\* The head a thread holds from now on is a node of the stack, so nobody is
\* about to free it.
LEMMA PopLoadInv ==
  ASSUME NEW t \in Threads, IInv, PopLoad(t)
  PROVE  IInv'
<1> USE StackAssumption DEF PopLoad, TakeHead, Goto, Move, heap, locals, Pointers
<1>1. CountsPoppers' /\ cnt' \in Nat
  BY CountFacts, CountKept DEF IInv, TypeOK, InPop
<1>2. TypeOK'
  BY <1>1 DEF IInv, TypeOK, Places, Labels, InvPlace, InvChain, Chain
<1>3. InvPlace'
  BY DEF IInv, TypeOK, InvPlace, InvChain, Chain, In, Owns, Places
<1>4. InvChain'
  BY DEF IInv, TypeOK, InvPlace, InvChain, Chain, In, InvNext
<1>5. InvHold'
  BY CountFacts DEF IInv, TypeOK, InvPlace, InvChain, Chain, In, InvHold, Owns, Solo, Holds, InPop, InsidePop
<1>6. InvNext'
  BY DEF IInv, TypeOK, InvPlace, InvHold, InvNext, Holds
<1>7. QED
  BY <1>1, <1>2, <1>3, <1>4, <1>5, <1>6 DEF IInv

\* The successor is current if the node is still in the stack.
LEMMA PopReadNextInv ==
  ASSUME NEW t \in Threads, IInv, PopReadNext(t)
  PROVE  IInv'
<1> USE StackAssumption DEF PopReadNext, Goto, Move, heap, locals, Pointers
<1>1. CountsPoppers' /\ cnt' \in Nat
  BY CountFacts, CountKept DEF IInv, TypeOK, InPop
<1>2. TypeOK'
  BY <1>1 DEF IInv, TypeOK, Places, Labels, InvPlace, InvChain, Chain
<1>3. InvPlace'
  BY DEF IInv, TypeOK, InvPlace, InvChain, Chain, In, Owns, Places
<1>4. InvChain'
  BY DEF IInv, TypeOK, InvPlace, InvChain, Chain, In, InvNext
<1>5. InvHold'
  BY CountFacts DEF IInv, TypeOK, InvPlace, InvChain, Chain, In, InvHold, Owns, Solo, Holds, InPop, InsidePop
<1>6. InvNext'
  BY DEF IInv, TypeOK, InvPlace, InvHold, InvNext, Holds
<1>7. QED
  BY <1>1, <1>2, <1>3, <1>4, <1>5, <1>6 DEF IInv

\* The node leaves the stack; the threads that hold it stay counted.
LEMMA PopCasInv ==
  ASSUME NEW t \in Threads, IInv, PopCas(t)
  PROVE  IInv'
<1> USE StackAssumption DEF PopCas, Goto, Move, heap, locals, Pointers
<1>1. CountsPoppers' /\ cnt' \in Nat
  BY CountFacts, CountKept DEF IInv, TypeOK, InPop
<1>2. TypeOK'
  BY <1>1 DEF IInv, TypeOK, Places, Labels, InvPlace, InvChain, Chain
<1>3. InvPlace'
  BY DEF IInv, TypeOK, InvPlace, InvChain, Chain, In, Owns, Places
<1>4. InvChain'
  BY DEF IInv, TypeOK, InvPlace, InvChain, Chain, In, InvNext
<1>5. InvHold'
  BY CountFacts DEF IInv, TypeOK, InvPlace, InvChain, Chain, In, InvHold, Owns, Solo, Holds, InPop, InsidePop
<1>6. InvNext'
  BY DEF IInv, TypeOK, InvPlace, InvHold, InvNext, Holds
<1>7. QED
  BY <1>1, <1>2, <1>3, <1>4, <1>5, <1>6 DEF IInv

\* The thread lets its node go and holds the head, or none.
LEMMA PopCasFailInv ==
  ASSUME NEW t \in Threads, IInv, PopCasFail(t)
  PROVE  IInv'
<1> USE StackAssumption DEF PopCasFail, TakeHead, Goto, Move, heap, locals, Pointers
<1>1. CountsPoppers' /\ cnt' \in Nat
  BY CountFacts, CountKept DEF IInv, TypeOK, InPop
<1>2. TypeOK'
  BY <1>1 DEF IInv, TypeOK, Places, Labels, InvPlace, InvChain, Chain
<1>3. InvPlace'
  BY DEF IInv, TypeOK, InvPlace, InvChain, Chain, In, Owns, Places
<1>4. InvChain'
  BY DEF IInv, TypeOK, InvPlace, InvChain, Chain, In, InvNext
<1>5. InvHold'
  BY CountFacts DEF IInv, TypeOK, InvPlace, InvChain, Chain, In, InvHold, Owns, Solo, Holds, InPop, InsidePop
<1>6. InvNext'
  BY DEF IInv, TypeOK, InvPlace, InvHold, InvNext, Holds
<1>7. QED
  BY <1>1, <1>2, <1>3, <1>4, <1>5, <1>6 DEF IInv

\* Only the node's value changes.
LEMMA PopSwapInv ==
  ASSUME NEW t \in Threads, IInv, PopSwap(t)
  PROVE  IInv'
<1> USE StackAssumption DEF PopSwap, Goto, Move, heap, locals, Pointers
<1>1. CountsPoppers' /\ cnt' \in Nat
  BY CountFacts, CountKept DEF IInv, TypeOK, InPop
<1>2. TypeOK'
  BY <1>1 DEF IInv, TypeOK, Places, Labels, InvPlace, InvChain, Chain
<1>3. InvPlace'
  BY DEF IInv, TypeOK, InvPlace, InvChain, Chain, In, Owns, Places
<1>4. InvChain'
  BY DEF IInv, TypeOK, InvPlace, InvChain, Chain, In, InvNext
<1>5. InvHold'
  BY CountFacts DEF IInv, TypeOK, InvPlace, InvChain, Chain, In, InvHold, Owns, Solo, Holds, InPop, InsidePop
<1>6. InvNext'
  BY DEF IInv, TypeOK, InvPlace, InvHold, InvNext, Holds
<1>7. QED
  BY <1>1, <1>2, <1>3, <1>4, <1>5, <1>6 DEF IInv

\* A count of 1 read by a thread inside pop says that no other thread holds
\* a node.
LEMMA CheckInv ==
  ASSUME NEW t \in Threads, IInv, Check(t)
  PROVE  IInv'
<1> USE StackAssumption DEF Check, Goto, Move, heap, locals, Pointers
<1>1. CountsPoppers' /\ cnt' \in Nat
  BY CountFacts, CountKept DEF IInv, TypeOK, InPop
<1>2. TypeOK'
  BY <1>1 DEF IInv, TypeOK, Places, Labels, InvPlace, InvChain, Chain
<1>3. InvPlace'
  BY DEF IInv, TypeOK, InvPlace, InvChain, Chain, In, Owns, Places
<1>4. InvChain'
  BY DEF IInv, TypeOK, InvPlace, InvChain, Chain, In, InvNext
<1>5. InvHold'
  <2>1. cnt = 1 => \A u \in Threads \ {t} : ~Holds(u)
    BY CountFacts DEF IInv, InsidePop, InPop, Holds
  <2>2. QED
    BY <2>1 DEF IInv, TypeOK, InvPlace, InvHold, Owns, Solo, Holds
<1>6. InvNext'
  BY DEF IInv, TypeOK, InvPlace, InvHold, InvNext, Holds
<1>7. QED
  BY <1>1, <1>2, <1>3, <1>4, <1>5, <1>6 DEF IInv

\* The whole pending list changes hands at once.
LEMMA ClaimInv ==
  ASSUME NEW t \in Threads, IInv, Claim(t)
  PROVE  IInv'
<1> USE StackAssumption DEF Claim, Goto, Move, heap, locals, Pointers
<1>1. CountsPoppers' /\ cnt' \in Nat
  BY CountFacts, CountKept DEF IInv, TypeOK, InPop
<1>2. TypeOK'
  BY <1>1 DEF IInv, TypeOK, Places, Labels, InvPlace, InvChain, Chain
<1>3. InvPlace'
  BY DEF IInv, TypeOK, InvPlace, InvChain, Chain, In, Owns, Places
<1>4. InvChain'
  BY DEF IInv, TypeOK, InvPlace, InvChain, Chain, In, InvNext
<1>5. InvHold'
  BY CountFacts DEF IInv, TypeOK, InvPlace, InvChain, Chain, In, InvHold, Owns, Solo, Holds, InPop, InsidePop
<1>6. InvNext'
  BY DEF IInv, TypeOK, InvPlace, InvHold, InvNext, Holds
<1>7. QED
  BY <1>1, <1>2, <1>3, <1>4, <1>5, <1>6 DEF IInv

\* The list is deleted only if the count drops to 0: then nobody is inside pop.
LEMMA LeaveAloneInv ==
  ASSUME NEW t \in Threads, IInv, LeaveAlone(t)
  PROVE  IInv'
<1> USE StackAssumption DEF LeaveAlone, Goto, Move, heap, locals, Pointers
<1>1. CountsPoppers' /\ cnt' \in Nat
  BY CountFacts, CountDown DEF IInv, TypeOK, InPop
<1>2. TypeOK'
  BY <1>1 DEF IInv, TypeOK, Places, Labels, InvPlace, InvChain, Chain
<1>3. InvPlace'
  BY DEF IInv, TypeOK, InvPlace, InvChain, Chain, In, Owns, Places
<1>4. InvChain'
  BY DEF IInv, TypeOK, InvPlace, InvChain, Chain, In, InvNext
<1>5. InvHold'
  <2>1. cnt = 1 => \A u \in Threads \ {t} : ~Holds(u)
    BY CountFacts DEF IInv, InsidePop, InPop, Holds
  <2>2. QED
    BY <2>1 DEF IInv, TypeOK, InvPlace, InvHold, Owns, Solo, Holds
<1>6. InvNext'
  BY DEF IInv, TypeOK, InvPlace, InvHold, InvNext, Holds
<1>7. QED
  BY <1>1, <1>2, <1>3, <1>4, <1>5, <1>6 DEF IInv

\* The first node of the claimed list is freed: no thread holds one of them.
LEMMA DeleteClaimedInv ==
  ASSUME NEW t \in Threads, IInv, DeleteClaimed(t)
  PROVE  IInv'
<1> USE StackAssumption DEF DeleteClaimed, Goto, Move, heap, locals, Pointers
<1>1. CountsPoppers' /\ cnt' \in Nat
  BY CountFacts, CountKept DEF IInv, TypeOK, InPop
<1>2. TypeOK'
  BY <1>1 DEF IInv, TypeOK, Places, Labels, InvPlace, InvChain, Chain
<1>3. InvPlace'
  BY DEF IInv, TypeOK, InvPlace, InvChain, Chain, In, Owns, Places
<1>4. InvChain'
  BY DEF IInv, TypeOK, InvPlace, InvChain, Chain, In, InvNext
<1>5. InvHold'
  BY CountFacts DEF IInv, TypeOK, InvPlace, InvChain, Chain, In, InvHold, Owns, Solo, Holds, InPop, InsidePop
<1>6. InvNext'
  BY DEF IInv, TypeOK, InvPlace, InvHold, InvNext, Holds
<1>7. QED
  BY <1>1, <1>2, <1>3, <1>4, <1>5, <1>6 DEF IInv

\* Only the program counter changes.
LEMMA DeleteClaimedEndInv ==
  ASSUME NEW t \in Threads, IInv, DeleteClaimedEnd(t)
  PROVE  IInv'
<1> USE StackAssumption DEF DeleteClaimedEnd, Goto, Move, heap, locals, Pointers
<1>1. CountsPoppers' /\ cnt' \in Nat
  BY CountFacts, CountKept DEF IInv, TypeOK, InPop
<1>2. TypeOK'
  BY <1>1 DEF IInv, TypeOK, Places, Labels, InvPlace, InvChain, Chain
<1>3. InvPlace'
  BY DEF IInv, TypeOK, InvPlace, InvChain, Chain, In, Owns, Places
<1>4. InvChain'
  BY DEF IInv, TypeOK, InvPlace, InvChain, Chain, In, InvNext
<1>5. InvHold'
  BY CountFacts DEF IInv, TypeOK, InvPlace, InvChain, Chain, In, InvHold, Owns, Solo, Holds, InPop, InsidePop
<1>6. InvNext'
  BY DEF IInv, TypeOK, InvPlace, InvHold, InvNext, Holds
<1>7. QED
  BY <1>1, <1>2, <1>3, <1>4, <1>5, <1>6 DEF IInv

\* The tail stays in the claimed list.
LEMMA FindTailInv ==
  ASSUME NEW t \in Threads, IInv, FindTail(t)
  PROVE  IInv'
<1> USE StackAssumption DEF FindTail, Goto, Move, heap, locals, Pointers
<1>1. CountsPoppers' /\ cnt' \in Nat
  BY CountFacts, CountKept DEF IInv, TypeOK, InPop
<1>2. TypeOK'
  BY <1>1 DEF IInv, TypeOK, Places, Labels, InvPlace, InvChain, Chain
<1>3. InvPlace'
  BY DEF IInv, TypeOK, InvPlace, InvChain, Chain, In, Owns, Places
<1>4. InvChain'
  BY DEF IInv, TypeOK, InvPlace, InvChain, Chain, In, InvNext
<1>5. InvHold'
  BY CountFacts DEF IInv, TypeOK, InvPlace, InvChain, Chain, In, InvHold, Owns, Solo, Holds, InPop, InsidePop
<1>6. InvNext'
  BY DEF IInv, TypeOK, InvPlace, InvHold, InvNext, Holds
<1>7. QED
  BY <1>1, <1>2, <1>3, <1>4, <1>5, <1>6 DEF IInv

\* The _next of the tail leaves the claimed list until the CAS.
LEMMA LinkLoadInv ==
  ASSUME NEW t \in Threads, IInv, LinkLoad(t)
  PROVE  IInv'
<1> USE StackAssumption DEF LinkLoad, PointLast, Goto, Move, heap, locals, Pointers
<1>1. CountsPoppers' /\ cnt' \in Nat
  BY CountFacts, CountKept DEF IInv, TypeOK, InPop
<1>2. TypeOK'
  BY <1>1 DEF IInv, TypeOK, Places, Labels, InvPlace, InvChain, Chain
<1>3. InvPlace'
  BY DEF IInv, TypeOK, InvPlace, InvChain, Chain, In, Owns, Places
<1>4. InvChain'
  BY DEF IInv, TypeOK, InvPlace, InvChain, Chain, In, InvNext
<1>5. InvHold'
  BY CountFacts DEF IInv, TypeOK, InvPlace, InvChain, Chain, In, InvHold, Owns, Solo, Holds, InPop, InsidePop
<1>6. InvNext'
  BY DEF IInv, TypeOK, InvPlace, InvHold, InvNext, Holds
<1>7. QED
  BY <1>1, <1>2, <1>3, <1>4, <1>5, <1>6 DEF IInv

\* The claimed list goes back in front of the pending one.
LEMMA LinkCasInv ==
  ASSUME NEW t \in Threads, IInv, LinkCas(t)
  PROVE  IInv'
<1> USE StackAssumption DEF LinkCas, Goto, Move, heap, locals, Pointers
<1>1. CountsPoppers' /\ cnt' \in Nat
  BY CountFacts, CountKept DEF IInv, TypeOK, InPop
<1>2. TypeOK'
  BY <1>1 DEF IInv, TypeOK, Places, Labels, InvPlace, InvChain, Chain
<1>3. InvPlace'
  BY DEF IInv, TypeOK, InvPlace, InvChain, Chain, In, Owns, Places
<1>4. InvChain'
  BY DEF IInv, TypeOK, InvPlace, InvChain, Chain, In, InvNext
<1>5. InvHold'
  BY CountFacts DEF IInv, TypeOK, InvPlace, InvChain, Chain, In, InvHold, Owns, Solo, Holds, InPop, InsidePop
<1>6. InvNext'
  BY DEF IInv, TypeOK, InvPlace, InvHold, InvNext, Holds
<1>7. QED
  BY <1>1, <1>2, <1>3, <1>4, <1>5, <1>6 DEF IInv

\* The tail is pointed at the first pending node again.
LEMMA LinkCasFailInv ==
  ASSUME NEW t \in Threads, IInv, LinkCasFail(t)
  PROVE  IInv'
<1> USE StackAssumption DEF LinkCasFail, PointLast, Goto, Move, heap, locals, Pointers
<1>1. CountsPoppers' /\ cnt' \in Nat
  BY CountFacts, CountKept DEF IInv, TypeOK, InPop
<1>2. TypeOK'
  BY <1>1 DEF IInv, TypeOK, Places, Labels, InvPlace, InvChain, Chain
<1>3. InvPlace'
  BY DEF IInv, TypeOK, InvPlace, InvChain, Chain, In, Owns, Places
<1>4. InvChain'
  BY DEF IInv, TypeOK, InvPlace, InvChain, Chain, In, InvNext
<1>5. InvHold'
  BY CountFacts DEF IInv, TypeOK, InvPlace, InvChain, Chain, In, InvHold, Owns, Solo, Holds, InPop, InsidePop
<1>6. InvNext'
  BY DEF IInv, TypeOK, InvPlace, InvHold, InvNext, Holds
<1>7. QED
  BY <1>1, <1>2, <1>3, <1>4, <1>5, <1>6 DEF IInv

\* Only the _next of a popped node changes.
LEMMA AddLoadInv ==
  ASSUME NEW t \in Threads, IInv, AddLoad(t)
  PROVE  IInv'
<1> USE StackAssumption DEF AddLoad, PointLast, Goto, Move, heap, locals, Pointers
<1>1. CountsPoppers' /\ cnt' \in Nat
  BY CountFacts, CountKept DEF IInv, TypeOK, InPop
<1>2. TypeOK'
  BY <1>1 DEF IInv, TypeOK, Places, Labels, InvPlace, InvChain, Chain
<1>3. InvPlace'
  BY DEF IInv, TypeOK, InvPlace, InvChain, Chain, In, Owns, Places
<1>4. InvChain'
  BY DEF IInv, TypeOK, InvPlace, InvChain, Chain, In, InvNext, Owns
<1>5. InvHold'
  BY CountFacts DEF IInv, TypeOK, InvPlace, InvChain, Chain, In, InvHold, Owns, Solo, Holds, InPop, InsidePop
<1>6. InvNext'
  BY DEF IInv, TypeOK, InvPlace, InvHold, InvNext, Holds, Owns
<1>7. QED
  BY <1>1, <1>2, <1>3, <1>4, <1>5, <1>6 DEF IInv

\* The popped node becomes the first pending one.
LEMMA AddCasInv ==
  ASSUME NEW t \in Threads, IInv, AddCas(t)
  PROVE  IInv'
<1> USE StackAssumption DEF AddCas, Goto, Move, heap, locals, Pointers
<1>1. CountsPoppers' /\ cnt' \in Nat
  BY CountFacts, CountKept DEF IInv, TypeOK, InPop
<1>2. TypeOK'
  BY <1>1 DEF IInv, TypeOK, Places, Labels, InvPlace, InvChain, Chain
<1>3. InvPlace'
  BY DEF IInv, TypeOK, InvPlace, InvChain, Chain, In, Owns, Places
<1>4. InvChain'
  BY DEF IInv, TypeOK, InvPlace, InvChain, Chain, In, InvNext, Owns
<1>5. InvHold'
  BY CountFacts DEF IInv, TypeOK, InvPlace, InvChain, Chain, In, InvHold, Owns, Solo, Holds, InPop, InsidePop
<1>6. InvNext'
  BY DEF IInv, TypeOK, InvPlace, InvHold, InvNext, Holds, Owns
<1>7. QED
  BY <1>1, <1>2, <1>3, <1>4, <1>5, <1>6 DEF IInv

\* Only the _next of a popped node changes.
LEMMA AddCasFailInv ==
  ASSUME NEW t \in Threads, IInv, AddCasFail(t)
  PROVE  IInv'
<1> USE StackAssumption DEF AddCasFail, PointLast, Goto, Move, heap, locals, Pointers
<1>1. CountsPoppers' /\ cnt' \in Nat
  BY CountFacts, CountKept DEF IInv, TypeOK, InPop
<1>2. TypeOK'
  BY <1>1 DEF IInv, TypeOK, Places, Labels, InvPlace, InvChain, Chain
<1>3. InvPlace'
  BY DEF IInv, TypeOK, InvPlace, InvChain, Chain, In, Owns, Places
<1>4. InvChain'
  BY DEF IInv, TypeOK, InvPlace, InvChain, Chain, In, InvNext, Owns
<1>5. InvHold'
  BY CountFacts DEF IInv, TypeOK, InvPlace, InvChain, Chain, In, InvHold, Owns, Solo, Holds, InPop, InsidePop
<1>6. InvNext'
  BY DEF IInv, TypeOK, InvPlace, InvHold, InvNext, Holds, Owns
<1>7. QED
  BY <1>1, <1>2, <1>3, <1>4, <1>5, <1>6 DEF IInv

\* A popped node whose owner was alone in pop is held by nobody.
LEMMA DeleteOldInv ==
  ASSUME NEW t \in Threads, IInv, DeleteOld(t)
  PROVE  IInv'
<1> USE StackAssumption DEF DeleteOld, Return, Goto, Move, heap, locals, Pointers
<1>1. CountsPoppers' /\ cnt' \in Nat
  BY CountFacts, CountKept DEF IInv, TypeOK, InPop
<1>2. TypeOK'
  BY <1>1 DEF IInv, TypeOK, Places, Labels, InvPlace, InvChain, Chain
<1>3. InvPlace'
  BY DEF IInv, TypeOK, InvPlace, InvChain, Chain, In, Owns, Places
<1>4. InvChain'
  BY DEF IInv, TypeOK, InvPlace, InvChain, Chain, In, InvNext, Owns
<1>5. InvHold'
  BY CountFacts DEF IInv, TypeOK, InvPlace, InvChain, Chain, In, InvHold, Owns, Solo, Holds, InPop, InsidePop
<1>6. InvNext'
  BY DEF IInv, TypeOK, InvPlace, InvHold, InvNext, Holds, Owns
<1>7. QED
  BY <1>1, <1>2, <1>3, <1>4, <1>5, <1>6 DEF IInv

\* The thread has let its node go before it is uncounted.
LEMMA LeaveInv ==
  ASSUME NEW t \in Threads, IInv, Leave(t)
  PROVE  IInv'
<1> USE StackAssumption DEF Leave, Return, Goto, Move, heap, locals, Pointers
<1>1. CountsPoppers' /\ cnt' \in Nat
  BY CountFacts, CountDown DEF IInv, TypeOK, InPop
<1>2. TypeOK'
  BY <1>1 DEF IInv, TypeOK, Places, Labels, InvPlace, InvChain, Chain
<1>3. InvPlace'
  BY DEF IInv, TypeOK, InvPlace, InvChain, Chain, In, Owns, Places
<1>4. InvChain'
  BY DEF IInv, TypeOK, InvPlace, InvChain, Chain, In, InvNext
<1>5. InvHold'
  BY CountFacts DEF IInv, TypeOK, InvPlace, InvChain, Chain, In, InvHold, Owns, Solo, Holds, InPop, InsidePop
<1>6. InvNext'
  BY DEF IInv, TypeOK, InvPlace, InvHold, InvNext, Holds
<1>7. QED
  BY <1>1, <1>2, <1>3, <1>4, <1>5, <1>6 DEF IInv

-----------------------------------------------------------------------------
(* Init and Next *)

\* With zero-initialised atomics every operation starts from an empty stack,
\* nothing to reclaim and a count of 0.
LEMMA InitInv == ASSUME ZeroInit PROVE Init => IInv
<1> SUFFICES ASSUME Init PROVE IInv
  OBVIOUS
<1> USE StackAssumption DEF Init, GarbagePointers, GarbageCounts, Pointers
<1>1. TypeOK
  BY DEF TypeOK, Places, Labels
<1>2. CountsPoppers
  <2>1. {t \in Threads : InPop(t)} = {}
    BY DEF InPop
  <2>2. QED
    BY <2>1, FS_EmptySet DEF CountsPoppers
<1>3. InvPlace
  BY DEF InvPlace, Owns
<1>4. InvChain
  BY DEF InvChain, Chain, In
<1>5. InvHold /\ InvNext
  BY DEF InvHold, InvNext, Holds
<1>6. QED
  BY <1>1, <1>2, <1>3, <1>4, <1>5 DEF IInv

\* A step that changes no variable keeps the invariant.
LEMMA StutterInv == IInv /\ UNCHANGED vars => IInv'
<1> SUFFICES ASSUME IInv, UNCHANGED vars PROVE IInv'
  OBVIOUS
<1> USE DEF vars, heap, locals
<1>1. CountsPoppers' /\ TypeOK'
  BY DEF IInv, CountsPoppers, InPop, TypeOK
<1>2. InvPlace'
  BY DEF IInv, InvPlace, Owns
<1>3. InvChain'
  BY DEF IInv, InvChain, Chain, In
<1>4. InvHold' /\ InvNext'
  BY DEF IInv, InvHold, InvNext, Holds, Owns, Solo
<1>5. QED
  BY <1>1, <1>2, <1>3, <1>4 DEF IInv

\* So does every step, by the lemma about its action.
LEMMA StepInv == IInv /\ [Next]_vars => IInv'
<1> SUFFICES ASSUME IInv, [Next]_vars PROVE IInv'
  OBVIOUS
<1>1. CASE \E t \in Pushers, v \in Values : PushStart(t, v)
  BY <1>1, PushStartInv DEF Threads
<1>2. CASE \E t \in Poppers : PopEnter(t)
  BY <1>2, PopEnterInv DEF Threads
<1>3. CASE \E t \in Threads : Continue(t)
  <2> SUFFICES ASSUME NEW t \in Threads, Continue(t) PROVE IInv'
    BY <1>3
  <2>1. CASE PushCas(t) \/ PushCasFail(t)
    BY <2>1, PushCasInv, PushCasFailInv
  <2>2. CASE PopLoad(t) \/ PopReadNext(t) \/ PopCas(t) \/ PopCasFail(t) \/ PopSwap(t)
    BY <2>2, PopLoadInv, PopReadNextInv, PopCasInv, PopCasFailInv, PopSwapInv
  <2>3. CASE TryReclaim(t)
    <3>1. CASE Check(t) \/ Claim(t) \/ LeaveAlone(t)
      BY <3>1, CheckInv, ClaimInv, LeaveAloneInv
    <3>2. CASE DeleteClaimed(t) \/ DeleteClaimedEnd(t)
      BY <3>2, DeleteClaimedInv, DeleteClaimedEndInv
    <3>3. CASE FindTail(t) \/ LinkLoad(t) \/ LinkCas(t) \/ LinkCasFail(t)
      BY <3>3, FindTailInv, LinkLoadInv, LinkCasInv, LinkCasFailInv
    <3>4. CASE AddLoad(t) \/ AddCas(t) \/ AddCasFail(t)
      BY <3>4, AddLoadInv, AddCasInv, AddCasFailInv
    <3>5. CASE DeleteOld(t) \/ Leave(t)
      BY <3>5, DeleteOldInv, LeaveInv
    <3>6. QED
      BY <2>3, <3>1, <3>2, <3>3, <3>4, <3>5 DEF TryReclaim
  <2>4. QED
    BY <2>1, <2>2, <2>3 DEF Continue
<1>4. CASE UNCHANGED vars
  BY <1>4, StutterInv
<1>5. QED
  BY <1>1, <1>2, <1>3, <1>4 DEF Next

\* The inductive invariant holds in every reachable state.
LEMMA Invariance == ASSUME ZeroInit PROVE Spec => []IInv
<1>1. Init => IInv
  BY InitInv
<1>2. QED
  BY <1>1, StepInv, PTL DEF Spec

-----------------------------------------------------------------------------
(* The theorems *)

\* With zero-initialised atomics, push, pop and tryReclaim keep every variable
\* in its type; in particular the unsigned count never goes below 0.
THEOREM TypeCorrect == ASSUME ZeroInit PROVE Spec => []TypeOK
<1>1. IInv => TypeOK
  BY DEF IInv
<1>2. QED
  BY <1>1, Invariance, PTL

\* _threadCntInPop always equals the number of threads inside pop.
THEOREM CountCorrect == ASSUME ZeroInit PROVE Spec => []CountsPoppers
<1>1. IInv => CountsPoppers
  BY DEF IInv
<1>2. QED
  BY <1>1, Invariance, PTL

\* No thread of push, pop or tryReclaim ever reads, writes or deletes a null
\* pointer or a node that was already deleted: deleting the claimed list only
\* when the count drops to 0, and oldHead only when it was 1, is enough.
THEOREM MemorySafe == ASSUME ZeroInit PROVE Spec => []NoUseAfterFree
<1>1. IInv => NoUseAfterFree
  <2> SUFFICES ASSUME IInv, NEW t \in Threads, NEW n \in Pointers, Touches(t, n)
               PROVE  n # Null /\ place[n] # "free"
    BY DEF NoUseAfterFree
  <2>1. CASE pc[t] = "push_cas" /\ n = newNode[t]
    BY <2>1 DEF IInv, InvPlace
  <2>2. CASE pc[t] = "pop_next" /\ n = oldHead[t]
    BY <2>2 DEF IInv, InvPlace, InvHold, Holds
  <2>3. CASE pc[t] \in {"pop_swap", "add_load", "add_cas"} /\ n = oldHead[t]
    BY <2>3 DEF IInv, InvPlace, Owns
  <2>4. CASE pc[t] = "delete_old" /\ n = oldHead[t] /\ n # Null
    BY <2>4 DEF IInv, InvPlace, Owns
  <2>5. CASE pc[t] = "delete_claimed" /\ n = claimed[t] /\ n # Null
    BY <2>5 DEF IInv, InvPlace, InvChain, Chain
  <2>6. CASE pc[t] \in {"find_tail", "link_load", "link_cas"} /\ n = tail[t]
    BY <2>6, StackAssumption DEF IInv, TypeOK, InvPlace
  <2>7. QED
    BY <2>1, <2>2, <2>3, <2>4, <2>5, <2>6 DEF Touches
<1>2. QED
  BY <1>1, Invariance, PTL

\* No successful CAS of pop installs a stale successor (no ABA), although the
\* allocator may reuse addresses.
THEOREM NoABA == ASSUME ZeroInit PROVE Spec => []NoStaleNext
<1>1. IInv => NoStaleNext
  <2> SUFFICES ASSUME IInv, NEW t \in Threads, pc[t] = "pop_cas", head = oldHead[t]
               PROVE  desired[t] = next[oldHead[t]]
    BY DEF NoStaleNext
  <2>1. place[oldHead[t]] = "stack"
    BY DEF IInv, InvPlace, InvChain, Chain, In
  <2>2. QED
    BY <2>1 DEF IInv, InvNext
<1>2. QED
  BY <1>1, Invariance, PTL

-----------------------------------------------------------------------------
(* The lists, whole *)

\* The pointers as t's claimed list sees them: between the load and the CAS that
\* link the list in front of the pending one, its tail points there already.
Cut(t) == IF pc[t] = "link_cas" THEN [next EXCEPT ![tail[t]] = Null] ELSE next

\* The pointers spell out the stack, the pending nodes and each claimed list.
InvSpells ==
  /\ Spells(head, next, In("stack"))
  /\ Spells(pending, next, In("pending"))
  /\ \A t \in Threads : Spells(claimed[t], Cut(t), mine[t])

\* A node that is in no list is in the hands of a thread, and find_tail finds
\* the end of the list.
InvOwned ==
  /\ \A n \in Nodes :
       /\ place[n] = "new" => \E t \in Threads : pc[t] = "push_cas" /\ newNode[t] = n
       /\ place[n] = "popped" => \E t \in Threads : Owns(t) /\ oldHead[t] = n
       /\ place[n] = "claimed" => \E t \in Threads : n \in mine[t]
  /\ \A t \in Threads :
       /\ pc[t] \notin {"leave_alone", "delete_claimed", "find_tail", "link_load", "link_cas"} =>
            mine[t] = {}
       /\ pc[t] = "link_load" => next[tail[t]] = Null

LInv == IInv /\ InvSpells /\ InvOwned

\* Most steps leave the three kinds of lists as they are.
LEMMA ListsOf ==
  ASSUME IInv, InvSpells, NEW t \in Threads, next' \in [Nodes -> Pointers],
         \A u \in Threads \ {t} : /\ pc'[u] = pc[u] /\ claimed'[u] = claimed[u]
                                  /\ mine'[u] = mine[u] /\ tail'[u] = tail[u]
                                  /\ \A n \in mine[u] : next'[n] = next[n]
  PROVE  \A u \in Threads \ {t} : Spells(claimed[u], Cut(u), mine[u])'
<1> SUFFICES ASSUME NEW u \in Threads \ {t} PROVE Spells(claimed[u]', Cut(u)', mine[u]')
  OBVIOUS
<1>1. DOMAIN Cut(u)' = Nodes /\ DOMAIN Cut(u) = Nodes /\ IsFiniteSet(Nodes)
  BY StackAssumption DEF IInv, TypeOK, Cut
<1>2. \A n \in mine[u] : Cut(u)'[n] = Cut(u)[n]
  BY DEF IInv, TypeOK, Cut
<1>3. Spells(claimed[u], Cut(u), mine[u])
  BY DEF InvSpells
<1> QED  BY <1>1, <1>2, <1>3, SpellsKept

\* A list is kept if its first node, its nodes and their pointers are.
LEMMA KeptList ==
  ASSUME IInv, NEW p, NEW S, Spells(p, next, S), next' \in [Nodes -> Pointers],
         \A n \in S : next'[n] = next[n]
  PROVE  Spells(p, next', S) /\ NodesFrom(p, next') = NodesFrom(p, next)
BY SpellsKept, StackAssumption DEF IInv, TypeOK

\* At first every list is empty.
LEMMA ListsInit == ASSUME ZeroInit, Init PROVE InvSpells /\ InvOwned
<1> USE StackAssumption DEF Init, GarbagePointers
<1>1. head \notin DOMAIN next /\ pending \notin DOMAIN next /\ IsFiniteSet(DOMAIN next)
  OBVIOUS
<1>2. In("stack") = {} /\ In("pending") = {}
  BY DEF In
<1>3. \A t \in Threads : claimed[t] = head /\ Cut(t) = next /\ mine[t] = {}
  BY DEF Cut
<1>4. Spells(head, next, {}) /\ Spells(pending, next, {})
  BY <1>1, SpellsNull
<1>5. InvSpells
  BY <1>2, <1>3, <1>4 DEF InvSpells
<1>6. InvOwned
  BY DEF InvOwned
<1> QED  BY <1>5, <1>6

\* Steps of push: the node is nobody else's until the CAS puts it in front.
LEMMA PushLists ==
  ASSUME IInv, IInv', InvSpells, NEW t \in Threads,
         PushCas(t) \/ PushCasFail(t) \/ \E v \in Values : PushStart(t, v)
  PROVE  InvSpells'
<1> USE StackAssumption DEF Pointers
<1>1. next' \in [Nodes -> Pointers] /\ DOMAIN next = Nodes
  BY DEF IInv, TypeOK
<1> DEFINE Only(n) == /\ \A m \in Nodes \ {n} : next'[m] = next[m]
                      /\ \A m \in Nodes \ {n} : place'[m] = place[m]
                      /\ place[n] \in {"free", "new"}
                      /\ UNCHANGED <<pending, claimed, mine, tail>>
                      /\ \A u \in Threads : pc[u] = "link_cas" <=> pc'[u] = "link_cas"
<1>2. PICK n \in Nodes : Only(n)
  <2>1. CASE PushCas(t) \/ PushCasFail(t)
    <3>1. newNode[t] \in Nodes /\ place[newNode[t]] = "new"
      BY <2>1 DEF PushCas, PushCasFail, Goto, IInv, TypeOK, InvPlace
    <3> QED  BY <2>1, <3>1 DEF PushCas, PushCasFail, Goto, Move, locals, IInv, TypeOK
  <2>2. ASSUME NEW v \in Values, PushStart(t, v) PROVE \E n \in Nodes : Only(n)
    <3>1. PICK n \in Nodes : /\ place[n] = "free" /\ Move({n}, "new")
                             /\ next' = [next EXCEPT ![n] = head]
      BY <2>2 DEF PushStart
    <3> QED  BY <2>2, <3>1 DEF PushStart, Goto, Move, IInv, TypeOK
  <2> QED  BY <2>1, <2>2
<1>3. /\ n \notin In("stack") /\ n \notin In("pending") /\ \A u \in Threads : n \notin mine[u]
      /\ In("pending")' = In("pending") \ {n} /\ place'[n] # "pending" /\ In("pending")' = In("pending")
  <2>1. place'[n] # "pending"
    BY <1>2 DEF IInv, TypeOK, PushCas, PushCasFail, PushStart, Move
  <2> QED  BY <1>2, <2>1 DEF In, IInv, InvPlace
<1>4. ASSUME NEW u \in Threads PROVE Spells(claimed[u]', Cut(u)', mine[u]')
  <2>1. DOMAIN Cut(u)' = Nodes /\ DOMAIN Cut(u) = Nodes /\ IsFiniteSet(Nodes)
    BY <1>1 DEF Cut
  <2>2. \A m \in mine[u] : Cut(u)'[m] = Cut(u)[m]
    BY <1>1, <1>2, <1>3 DEF IInv, TypeOK, Cut
  <2>3. Spells(claimed[u], Cut(u), mine[u]) /\ claimed[u]' = claimed[u] /\ mine[u]' = mine[u]
    BY <1>2 DEF InvSpells
  <2> QED  BY <2>1, <2>2, <2>3, SpellsKept
<1>5. Spells(pending', next', In("pending")')
  BY <1>1, <1>2, <1>3, KeptList DEF InvSpells, In
<1>6. Spells(head', next', In("stack")')
  <2>1. Spells(head, next', In("stack"))
    BY <1>1, <1>2, <1>3, KeptList DEF InvSpells, In
  <2>2. CASE PushCas(t)
    <3>1. /\ newNode[t] \in Nodes /\ newNode[t] \notin In("stack") /\ next' = next
          /\ next[newNode[t]] = head /\ head' = newNode[t]
          /\ In("stack")' = In("stack") \cup {newNode[t]}
      BY <2>2 DEF PushCas, Goto, Move, IInv, TypeOK, InvPlace, In
    <3>2. newNode[t] \in DOMAIN next /\ IsFiniteSet(DOMAIN next)
      BY <1>1, <3>1
    <3>3. Spells(head, next, In("stack"))
      BY DEF InvSpells
    <3>4. Spells(newNode[t], next, In("stack") \cup {newNode[t]})
      BY <3>1, <3>2, <3>3, SpellsCons
    <3> QED  BY <3>1, <3>4
  <2>3. CASE ~PushCas(t)
    <3>1. In("stack")' = In("stack") /\ head' = head
      BY <2>3 DEF PushCasFail, PushStart, Move, IInv, TypeOK, In
    <3> QED  BY <2>1, <3>1
  <2> QED  BY <2>2, <2>3
<1> QED  BY <1>4, <1>5, <1>6 DEF InvSpells

\* pop removes the first node of the stack.
LEMMA PopCasLists ==
  ASSUME IInv, IInv', InvSpells, NEW t \in Threads, PopCas(t)
  PROVE  InvSpells'
<1> USE StackAssumption DEF Pointers
<1>1. DOMAIN next = Nodes /\ next' = next /\ head \in Nodes
  BY DEF PopCas, Goto, IInv, TypeOK, InvPlace
<1>2. In("stack")' = In("stack") \ {head} /\ In("pending")' = In("pending") /\ head' = next[head]
  BY <1>1 DEF PopCas, Goto, Move, IInv, TypeOK, InvPlace, InvChain, Chain, InvNext, In
<1>3. Spells(head', next', In("stack")')
  BY <1>1, <1>2, SpellsTail DEF InvSpells
<1>4. \A u \in Threads : Spells(claimed[u]', Cut(u)', mine[u]')
  BY DEF PopCas, Goto, IInv, TypeOK, InvSpells, Cut
<1> QED  BY <1>1, <1>2, <1>3, <1>4 DEF InvSpells, PopCas

\* The thread that claims the pending nodes has their list from then on.
LEMMA ClaimLists ==
  ASSUME IInv, IInv', InvSpells, NEW t \in Threads, Claim(t)
  PROVE  InvSpells'
<1> USE StackAssumption DEF Pointers
<1>1. DOMAIN next = Nodes /\ next' = next /\ head' = head /\ pending' = Null
  BY DEF Claim, IInv, TypeOK
<1>2. In("stack")' = In("stack") /\ In("pending")' = {}
  BY DEF Claim, Move, IInv, TypeOK, In
<1>3. Spells(pending', next', In("pending")')
  BY <1>1, <1>2, SpellsNull
<1>4. ASSUME NEW u \in Threads \ {t} PROVE Spells(claimed[u]', Cut(u)', mine[u]')
  <2>1. claimed'[u] = claimed[u] /\ Cut(u)' = Cut(u) /\ mine'[u] = mine[u]
    BY DEF Claim, Goto, IInv, TypeOK, Cut
  <2> QED  BY <2>1 DEF InvSpells
<1>5. claimed'[t] = pending /\ Cut(t)' = next /\ mine'[t] = In("pending")
  BY DEF Claim, Goto, IInv, TypeOK, Cut, In
<1>6. Spells(claimed[t]', Cut(t)', mine[t]')
  BY <1>5 DEF InvSpells
<1> QED  BY <1>1, <1>2, <1>3, <1>4, <1>6 DEF InvSpells

\* deleteNodes goes on to the next node.
LEMMA DeleteClaimedLists ==
  ASSUME IInv, IInv', InvSpells, NEW t \in Threads, DeleteClaimed(t)
  PROVE  InvSpells'
<1> USE StackAssumption DEF Pointers
<1>1. /\ DOMAIN next = Nodes /\ next' = next /\ head' = head /\ pending' = pending
      /\ claimed[t] \in Nodes /\ place[claimed[t]] = "claimed"
  BY DEF DeleteClaimed, IInv, TypeOK, InvPlace, InvChain, Chain
<1>2. In("stack")' = In("stack") /\ In("pending")' = In("pending")
  BY <1>1 DEF DeleteClaimed, Move, IInv, TypeOK, In
<1>3. ASSUME NEW u \in Threads \ {t} PROVE Spells(claimed[u]', Cut(u)', mine[u]')
  <2>1. claimed'[u] = claimed[u] /\ Cut(u)' = Cut(u) /\ mine'[u] = mine[u]
    BY DEF DeleteClaimed, IInv, TypeOK, Cut
  <2> QED  BY <2>1 DEF InvSpells
<1>4. /\ claimed'[t] = next[claimed[t]] /\ mine'[t] = mine[t] \ {claimed[t]}
      /\ Cut(t)' = next /\ Cut(t) = next
  BY DEF DeleteClaimed, IInv, TypeOK, Cut
<1>5. Spells(claimed[t]', Cut(t)', mine[t]')
  BY <1>1, <1>4, SpellsTail DEF InvSpells
<1> QED  BY <1>1, <1>2, <1>3, <1>5 DEF InvSpells

\* The tail is pointed at the first pending node, but the claimed list still ends
\* with it.
LEMMA LinkLists ==
  ASSUME IInv, IInv', InvSpells, InvOwned, NEW t \in Threads, LinkLoad(t) \/ LinkCasFail(t)
  PROVE  InvSpells'
<1> USE StackAssumption DEF Pointers
<1>1. /\ next' \in [Nodes -> Pointers] /\ DOMAIN next = Nodes
      /\ next' = [next EXCEPT ![tail[t]] = pending]
      /\ UNCHANGED <<head, pending, place, claimed, mine, tail>>
      /\ pc'[t] = "link_cas" /\ pc' = [pc EXCEPT ![t] = "link_cas"]
      /\ tail[t] \in Nodes /\ tail[t] \in mine[t] /\ place[tail[t]] = "claimed"
  BY DEF LinkLoad, LinkCasFail, PointLast, Goto, locals, IInv, TypeOK, InvPlace
<1>2. In("stack")' = In("stack") /\ In("pending")' = In("pending")
  BY <1>1 DEF In
<1>3. Spells(head', next', In("stack")') /\ Spells(pending', next', In("pending")')
  <2>1. \A n \in In("stack") \cup In("pending") : next'[n] = next[n]
    BY <1>1 DEF In, IInv, TypeOK
  <2> QED  BY <1>1, <1>2, <2>1, KeptList DEF InvSpells
<1>4. \A u \in Threads \ {t} : Spells(claimed[u], Cut(u), mine[u])'
  <2>1. \A u \in Threads \ {t} : \A n \in mine[u] : next'[n] = next[n]
    BY <1>1 DEF IInv, TypeOK, InvPlace
  <2> QED  BY <1>1, <2>1, ListsOf DEF IInv, TypeOK
<1>5. Cut(t)' = Cut(t)
  <2>1. CASE LinkLoad(t)
    <3>1. pc[t] = "link_load" /\ next[tail[t]] = Null
      BY <2>1 DEF LinkLoad, Goto, InvOwned
    <3>2. Cut(t) = next /\ Cut(t)' = [next' EXCEPT ![tail[t]] = Null]
      BY <1>1, <3>1 DEF Cut
    <3>3. [next' EXCEPT ![tail[t]] = Null] = next
      BY <1>1, <3>1 DEF IInv, TypeOK
    <3> QED  BY <3>2, <3>3
  <2>2. CASE LinkCasFail(t)
    <3>1. Cut(t) = [next EXCEPT ![tail[t]] = Null] /\ Cut(t)' = [next' EXCEPT ![tail[t]] = Null]
      BY <1>1, <2>2 DEF LinkCasFail, Goto, Cut
    <3>2. [next' EXCEPT ![tail[t]] = Null] = [next EXCEPT ![tail[t]] = Null]
      BY <1>1 DEF IInv, TypeOK
    <3> QED  BY <3>1, <3>2
  <2> QED  BY <2>1, <2>2
<1>6. Spells(claimed[t]', Cut(t)', mine[t]')
  BY <1>1, <1>5 DEF InvSpells
<1> QED  BY <1>3, <1>4, <1>6 DEF InvSpells

\* The claimed list goes back in front of the pending one.
LEMMA LinkCasLists ==
  ASSUME IInv, IInv', InvSpells, NEW t \in Threads, LinkCas(t)
  PROVE  InvSpells'
<1> USE StackAssumption DEF Pointers
<1>1. /\ DOMAIN next = Nodes /\ next' = next /\ head' = head /\ pending' = claimed[t]
      /\ pc[t] = "link_cas" /\ next[tail[t]] = pending /\ tail[t] \in mine[t]
      /\ claimed'[t] = Null /\ mine'[t] = {} /\ Cut(t)' = next
      /\ mine[t] \subseteq Nodes /\ \A n \in mine[t] : place[n] = "claimed"
  BY DEF LinkCas, Goto, IInv, TypeOK, InvPlace, Cut
<1>2. /\ In("stack")' = In("stack") /\ In("pending")' = mine[t] \cup In("pending")
      /\ mine[t] \cap In("pending") = {}
  BY <1>1 DEF LinkCas, Move, IInv, TypeOK, In
<1>3. Spells(pending', next', In("pending")')
  <2>1. Spells(claimed[t], [next EXCEPT ![tail[t]] = Null], mine[t])
    BY <1>1 DEF InvSpells, Cut
  <2>2. Spells(next[tail[t]], next, In("pending"))
    BY <1>1 DEF InvSpells
  <2>3. IsFiniteSet(DOMAIN next) /\ Null \notin DOMAIN next
    BY <1>1
  <2>4. Spells(claimed[t], next, mine[t] \cup In("pending"))
    BY <1>1, <1>2, <2>1, <2>2, <2>3, SpellsConcat
  <2> QED  BY <1>1, <1>2, <2>4
<1>4. ASSUME NEW u \in Threads \ {t} PROVE Spells(claimed[u]', Cut(u)', mine[u]')
  <2>1. claimed'[u] = claimed[u] /\ Cut(u)' = Cut(u) /\ mine'[u] = mine[u]
    BY DEF LinkCas, Goto, IInv, TypeOK, Cut
  <2> QED  BY <2>1 DEF InvSpells
<1>5. Spells(claimed[t]', Cut(t)', mine[t]')
  BY <1>1, SpellsNull
<1> QED  BY <1>1, <1>2, <1>3, <1>4, <1>5 DEF InvSpells

\* A popped node is in no list, whatever its pointer, until the CAS puts it in
\* front of the pending ones.
LEMMA AddLists ==
  ASSUME IInv, IInv', InvSpells, NEW t \in Threads, AddLoad(t) \/ AddCas(t) \/ AddCasFail(t)
  PROVE  InvSpells'
<1> USE StackAssumption DEF Pointers
<1> DEFINE n == oldHead[t]
<1>1. /\ next' \in [Nodes -> Pointers] /\ DOMAIN next = Nodes /\ UNCHANGED <<head, claimed, mine, tail>>
      /\ n \in Nodes /\ place[n] = "popped"
      /\ \A m \in Nodes \ {n} : next'[m] = next[m]
      /\ \A u \in Threads \ {t} : pc'[u] = pc[u]
      /\ Cut(t) = next /\ Cut(t)' = next'
  BY DEF AddLoad, AddCas, AddCasFail, PointLast, Goto, locals, IInv, TypeOK, InvPlace, Owns, Cut
<1>2. /\ n \notin In("stack") /\ n \notin In("pending") /\ \A u \in Threads : n \notin mine[u]
      /\ In("stack")' = In("stack")
  BY <1>1 DEF AddLoad, AddCas, AddCasFail, PointLast, Move, In, IInv, TypeOK, InvPlace
<1>3. Spells(head', next', In("stack")') /\ Spells(pending, next', In("pending"))
  <2>1. \A m \in In("stack") \cup In("pending") : next'[m] = next[m]
    BY <1>1, <1>2 DEF In
  <2> QED  BY <1>1, <1>2, <2>1, KeptList DEF InvSpells
<1>4. \A u \in Threads \ {t} : Spells(claimed[u], Cut(u), mine[u])'
  <2>1. \A u \in Threads \ {t} : \A m \in mine[u] : next'[m] = next[m]
    BY <1>1, <1>2 DEF IInv, TypeOK
  <2> QED  BY <1>1, <2>1, ListsOf
<1>5. Spells(claimed[t]', Cut(t)', mine[t]')
  <2>1. \A m \in mine[t] : next'[m] = next[m]
    BY <1>1, <1>2 DEF IInv, TypeOK
  <2> QED  BY <1>1, <2>1, KeptList DEF InvSpells
<1>6. Spells(pending', next', In("pending")')
  <2>1. CASE AddCas(t)
    <3>1. /\ next' = next /\ next[n] = pending /\ pending' = n /\ In("pending")' = In("pending") \cup {n}
      BY <1>1, <2>1 DEF AddCas, Goto, Move, In, IInv, TypeOK
    <3>2. n \in DOMAIN next /\ IsFiniteSet(DOMAIN next)
      BY <1>1
    <3>3. Spells(pending, next, In("pending"))
      BY DEF InvSpells
    <3>4. Spells(n, next, In("pending") \cup {n})
      BY <1>2, <3>1, <3>2, <3>3, SpellsCons
    <3> QED  BY <3>1, <3>4
  <2>2. CASE ~AddCas(t)
    <3>1. In("pending")' = In("pending") /\ pending' = pending
      BY <2>2 DEF AddLoad, AddCasFail, PointLast, In
    <3> QED  BY <1>3, <3>1
  <2> QED  BY <2>1, <2>2
<1> QED  BY <1>3, <1>4, <1>5, <1>6 DEF InvSpells

\* The other steps change no pointer and no list.
LEMMA OtherLists ==
  ASSUME IInv, IInv', InvSpells, NEW t \in Threads,
         \/ PopEnter(t) \/ PopLoad(t) \/ PopReadNext(t) \/ PopCasFail(t) \/ PopSwap(t) \/ Check(t)
         \/ LeaveAlone(t) \/ DeleteClaimedEnd(t) \/ FindTail(t) \/ DeleteOld(t) \/ Leave(t)
  PROVE  InvSpells'
<1> USE DEF PopEnter, PopLoad, PopReadNext, PopCasFail, TakeHead, PopSwap, Check, LeaveAlone, DeleteClaimedEnd,
            FindTail, DeleteOld, Leave, Return, Goto, heap, locals
<1>1. UNCHANGED <<head, pending, next, claimed, mine>>
  OBVIOUS
<1>2. \A u \in Threads : Cut(u)' = Cut(u)
  BY DEF IInv, TypeOK, Cut
<1>3. In("stack")' = In("stack") /\ In("pending")' = In("pending")
  <2>1. CASE DeleteOld(t)
    BY <2>1, StackAssumption DEF Move, In, IInv, TypeOK, InvPlace, Owns, Pointers
  <2>2. CASE ~DeleteOld(t)
    BY <2>2 DEF In
  <2> QED  BY <2>1, <2>2
<1> QED  BY <1>1, <1>2, <1>3 DEF InvSpells

\* A step that changes nothing keeps the lists.
LEMMA StutterLists == ASSUME InvSpells, UNCHANGED vars PROVE InvSpells'
BY DEF InvSpells, vars, heap, locals, In, Cut

\* Every step keeps the stack, the pending list and the claimed lists whole.
LEMMA ListsStep == IInv /\ IInv' /\ InvSpells /\ InvOwned /\ [Next]_vars => InvSpells'
<1> SUFFICES ASSUME IInv, IInv', InvSpells, InvOwned, [Next]_vars PROVE InvSpells'
  OBVIOUS
<1>1. Pushers \subseteq Threads /\ Poppers \subseteq Threads
  BY DEF Threads
<1> QED
  BY <1>1, PushLists, PopCasLists, ClaimLists, DeleteClaimedLists, LinkLists, LinkCasLists, AddLists, OtherLists,
     StutterLists
  DEF Next, Continue, TryReclaim

\* Nobody lets go of a node that is still in hand.
LEMMA OwnedStep == IInv /\ InvSpells /\ InvOwned /\ [Next]_vars => InvOwned'
<1> SUFFICES ASSUME IInv, InvSpells, InvOwned, [Next]_vars PROVE InvOwned'
  OBVIOUS
<1> USE StackAssumption DEF Goto, Move, heap, locals, InvOwned, Owns, Pointers
<1>0. /\ Pushers \subseteq Threads /\ Poppers \subseteq Threads
      /\ \A t \in Threads : claimed[t] = Null => mine[t] = {} \/ pc[t] = "link_cas"
  <2>1. ASSUME NEW t \in Threads, claimed[t] = Null, pc[t] # "link_cas" PROVE mine[t] = {}
    <3>1. DOMAIN next = Nodes /\ Spells(claimed[t], next, mine[t])
      BY <2>1 DEF IInv, TypeOK, InvSpells, Cut
    <3> QED  BY <2>1, <3>1, SpellsNull
  <2> QED  BY <2>1 DEF Threads
<1>1. ASSUME NEW t \in Threads, NEW v \in Values, PushStart(t, v) PROVE InvOwned'
  BY <1>1 DEF PushStart, IInv, TypeOK, InvPlace
<1>2. ASSUME NEW t \in Threads, PushCas(t) PROVE InvOwned'
  BY <1>2 DEF PushCas, IInv, TypeOK, InvPlace
<1>3. ASSUME NEW t \in Threads, PushCasFail(t) PROVE InvOwned'
  BY <1>3 DEF PushCasFail, IInv, TypeOK, InvPlace
<1>4. ASSUME NEW t \in Threads, PopEnter(t) \/ PopLoad(t) \/ PopReadNext(t) \/ PopCasFail(t) PROVE InvOwned'
  BY <1>4 DEF PopEnter, PopLoad, PopReadNext, PopCasFail, TakeHead, IInv, TypeOK
<1>5. ASSUME NEW t \in Threads, PopCas(t) PROVE InvOwned'
  BY <1>5 DEF PopCas, IInv, TypeOK, InvPlace
<1>6. ASSUME NEW t \in Threads, PopSwap(t) \/ Check(t) PROVE InvOwned'
  BY <1>6 DEF PopSwap, Check, IInv, TypeOK
<1>7. ASSUME NEW t \in Threads, Claim(t) PROVE InvOwned'
  BY <1>7 DEF Claim, IInv, TypeOK
<1>8. ASSUME NEW t \in Threads, LeaveAlone(t) \/ DeleteClaimedEnd(t) PROVE InvOwned'
  BY <1>0, <1>8 DEF LeaveAlone, DeleteClaimedEnd, IInv, TypeOK
<1>9. ASSUME NEW t \in Threads, DeleteClaimed(t) PROVE InvOwned'
  BY <1>9 DEF DeleteClaimed, IInv, TypeOK, InvPlace, InvChain, Chain
<1>10. ASSUME NEW t \in Threads, FindTail(t) PROVE InvOwned'
  BY <1>10 DEF FindTail, IInv, TypeOK
<1>11. ASSUME NEW t \in Threads, LinkLoad(t) \/ LinkCasFail(t) PROVE InvOwned'
  BY <1>11 DEF LinkLoad, LinkCasFail, PointLast, IInv, TypeOK, InvPlace
<1>12. ASSUME NEW t \in Threads, LinkCas(t) PROVE InvOwned'
  BY <1>12 DEF LinkCas, IInv, TypeOK, InvPlace
<1>13. ASSUME NEW t \in Threads, AddLoad(t) \/ AddCasFail(t) PROVE InvOwned'
  BY <1>13 DEF AddLoad, AddCasFail, PointLast, IInv, TypeOK, InvPlace
<1>14. ASSUME NEW t \in Threads, AddCas(t) PROVE InvOwned'
  BY <1>14 DEF AddCas, IInv, TypeOK, InvPlace
<1>15. ASSUME NEW t \in Threads, DeleteOld(t) PROVE InvOwned'
  BY <1>15 DEF DeleteOld, Return, IInv, TypeOK, InvPlace
<1>16. ASSUME NEW t \in Threads, Leave(t) PROVE InvOwned'
  BY <1>16 DEF Leave, Return, IInv, TypeOK
<1>17. CASE UNCHANGED vars
  BY <1>17 DEF vars
<1> QED
  BY <1>0, <1>1, <1>2, <1>3, <1>4, <1>5, <1>6, <1>7, <1>8, <1>9, <1>10, <1>11, <1>12, <1>13, <1>14, <1>15, <1>16,
     <1>17
  DEF Next, Continue, TryReclaim

\* The lists are always whole.
LEMMA LInvariance == ASSUME ZeroInit PROVE Spec => []LInv
<1>1. Init => LInv
  BY InitInv, ListsInit DEF LInv
<1>2. LInv /\ [Next]_vars => LInv'
  BY StepInv, ListsStep, OwnedStep DEF LInv
<1> QED  BY <1>1, <1>2, PTL DEF Spec

\* push, pop and tryReclaim neither lose a node nor put one in two lists, and
\* make no cycle: the stack, the pending list and every claimed list are whole.
THEOREM ListsCorrect == ASSUME ZeroInit PROVE Spec => []ListsIntact
<1>1. ASSUME LInv PROVE ListsIntact
  <2> USE <1>1 DEF LInv
  <2>1. Exactly(Path(head), In("stack")) /\ Exactly(Path(pending), In("pending"))
    BY SpellsExactly DEF InvSpells, Path
  <2>2. ASSUME NEW t \in Threads, pc[t] # "link_cas" PROVE Exactly(Path(claimed[t]), mine[t])
    BY <2>2, SpellsExactly DEF InvSpells, Path, Cut
  <2>3. ASSUME \A t \in Threads : pc[t] = "idle", NEW n \in Nodes
        PROVE  place[n] \in {"free", "stack", "pending"}
    BY <2>3 DEF InvOwned, Owns, IInv, TypeOK, Places
  <2> QED  BY <2>1, <2>2, <2>3 DEF ListsIntact
<1> QED  BY <1>1, LInvariance, PTL

-----------------------------------------------------------------------------
(* Each step is one of AtomicStack, or changes nothing there *)

\* Who is where, and what a pop has got so far.
InvCalls ==
  \A t \in Threads :
    /\ pc[t] = "push_cas" => t \in Pushers
    /\ pc[t] \notin {"idle", "push_cas"} => t \in Poppers
    /\ pc[t] \in {"idle", "push_cas", "pop_load", "pop_next", "pop_cas", "pop_swap"} => res[t] = NoValue

\* Every step keeps each thread in a call of its own role.
LEMMA CallsStep == TypeOK /\ InvCalls /\ [Next]_vars => InvCalls'
<1> SUFFICES ASSUME TypeOK, InvCalls, [Next]_vars PROVE InvCalls'
  OBVIOUS
<1> USE DEF TypeOK, InvCalls, Goto, heap, locals
<1>0. Pushers \subseteq Threads /\ Poppers \subseteq Threads
  BY DEF Threads
<1>1. ASSUME NEW t \in Pushers, NEW v \in Values, PushStart(t, v) PROVE InvCalls'
  BY <1>0, <1>1 DEF PushStart
<1>2. ASSUME NEW t \in Poppers, PopEnter(t) PROVE InvCalls'
  BY <1>0, <1>2 DEF PopEnter
<1>3. ASSUME NEW t \in Threads, PushCas(t) \/ PushCasFail(t) PROVE InvCalls'
  BY <1>3 DEF PushCas, PushCasFail
<1>4. ASSUME NEW t \in Threads, PopLoad(t) \/ PopReadNext(t) \/ PopCas(t) \/ PopCasFail(t) \/ PopSwap(t)
      PROVE  InvCalls'
  BY <1>4 DEF PopLoad, PopReadNext, PopCas, PopCasFail, TakeHead, PopSwap
<1>5. ASSUME NEW t \in Threads, Check(t) \/ Claim(t) \/ LeaveAlone(t) \/ DeleteClaimed(t) \/ DeleteClaimedEnd(t)
      PROVE  InvCalls'
  BY <1>5 DEF Check, Claim, LeaveAlone, DeleteClaimed, DeleteClaimedEnd
<1>6. ASSUME NEW t \in Threads, FindTail(t) \/ LinkLoad(t) \/ LinkCas(t) \/ LinkCasFail(t) PROVE InvCalls'
  BY <1>6 DEF FindTail, LinkLoad, LinkCas, LinkCasFail, PointLast
<1>7. ASSUME NEW t \in Threads, AddLoad(t) \/ AddCas(t) \/ AddCasFail(t) PROVE InvCalls'
  BY <1>7 DEF AddLoad, AddCas, AddCasFail, PointLast
<1>8. ASSUME NEW t \in Threads, DeleteOld(t) \/ Leave(t) PROVE InvCalls'
  BY <1>8 DEF DeleteOld, Leave, Return
<1>9. CASE UNCHANGED vars
  BY <1>9 DEF vars
<1> QED
  BY <1>1, <1>2, <1>3, <1>4, <1>5, <1>6, <1>7, <1>8, <1>9 DEF Next, Continue, TryReclaim

stack == ValuesFrom(head)
ops   == [t \in Threads |-> AbstractOp(t)]

\* A step after which every thread but t is in the operation it was in.
Others(t) == \A u \in Threads \ {t} : AbstractOp(u)' = AbstractOp(u)

\* A step of one thread changes only that thread's abstract operation.
LEMMA OpsOf ==
  ASSUME NEW t \in Threads, Others(t)
  PROVE  ops' = [ops EXCEPT ![t] = AbstractOp(t)']
BY DEF ops, Others

\* A step moves one thread; the values in the hands of the others stay.
LEMMA OthersKept ==
  ASSUME NEW t \in Threads,
         \A u \in Threads \ {t} :
           /\ pc'[u] = pc[u] /\ newNode'[u] = newNode[u] /\ oldHead'[u] = oldHead[u] /\ res'[u] = res[u]
           /\ pc[u] = "push_cas" => val'[newNode[u]] = val[newNode[u]]
           /\ pc[u] = "pop_swap" => val'[oldHead[u]] = val[oldHead[u]]
  PROVE  Others(t)
BY DEF Others, AbstractOp

\* The stack stays if its first node, its pointers and its values do.
LEMMA StackKept ==
  ASSUME LInv, IInv', head' = head,
         \A n \in In("stack") : next'[n] = next[n] /\ val'[n] = val[n]
  PROVE  stack' = stack
<1>1. Spells(head, next, In("stack")) /\ next' \in [Nodes -> Pointers]
  BY DEF LInv, InvSpells, IInv, TypeOK
<1>2. Path(head)' = Path(head)
  BY <1>1, KeptList DEF LInv, Path
<1>3. \A i \in DOMAIN Path(head) : Path(head)[i] \in In("stack")
  BY <1>1 DEF Spells, Path, ToSet
<1> HIDE DEF Path
<1> QED  BY <1>2, <1>3 DEF stack, ValuesFrom

\* What the stack is when it is empty and when it is not.
LEMMA StackIs ==
  ASSUME LInv
  PROVE  /\ Path(head) \in Seq(Nodes)
         /\ head = Null => stack = <<>>
         /\ head # Null => /\ stack # <<>> /\ Head(stack) = val[head]
                           /\ Tail(stack) = ValuesFrom(next[head])
<1>1. /\ Spells(head, next, In("stack")) /\ DOMAIN next = Nodes /\ IsFiniteSet(DOMAIN next)
      /\ head \in Nodes \cup {Null}
  BY StackAssumption DEF LInv, InvSpells, IInv, TypeOK, Pointers
<1>2. Path(head) \in Seq(Nodes)
  BY <1>1, ListFacts DEF Spells, Path
<1>3. ASSUME head = Null PROVE stack = <<>>
  <2>1. Path(head) = <<>>
    BY <1>1, <1>3, StackAssumption, SpellsNull DEF Path
  <2> QED  BY <2>1 DEF stack, ValuesFrom
<1>4. ASSUME head # Null
      PROVE  stack # <<>> /\ Head(stack) = val[head] /\ Tail(stack) = ValuesFrom(next[head])
  <2>1. Path(head) # <<>> /\ Path(head)[1] = head /\ Path(next[head]) = Tail(Path(head))
    BY <1>1, <1>4, SpellsTail DEF Path
  <2>2. stack = [i \in DOMAIN Path(head) |-> val[Path(head)[i]]]
    BY DEF stack, ValuesFrom
  <2>3. ValuesFrom(next[head]) = [i \in DOMAIN Tail(Path(head)) |-> val[Tail(Path(head))[i]]]
    BY <2>1 DEF ValuesFrom
  <2> HIDE DEF stack
  <2> QED  BY <1>2, <2>1, <2>2, <2>3, ValuesTail
<1> QED  BY <1>2, <1>3, <1>4

\* With zero-initialised atomics the initial stack is the empty stack.
LEMMA RefineInit == ASSUME ZeroInit PROVE Init => Atomic!Init
<1> SUFFICES ASSUME Init PROVE Atomic!Init
  OBVIOUS
<1>1. LInv
  BY InitInv, ListsInit DEF LInv
<1>2. head = Null
  BY DEF Init, GarbagePointers
<1>3. stack = <<>>
  BY <1>1, <1>2, StackIs
<1>4. ops = [t \in Pushers \cup Poppers |-> Atomic!Idle]
  BY DEF Init, ops, AbstractOp, Atomic!Idle, Threads
<1> QED  BY <1>3, <1>4 DEF Atomic!Init, stack, ops

\* A push begins: the node is in nobody else's hands.
LEMMA RefinePushStart ==
  ASSUME LInv, IInv', InvCalls, NEW t \in Pushers, NEW v \in Values, PushStart(t, v)
  PROVE  Atomic!InvokePush(t, v)
<1> USE StackAssumption DEF Goto
<1>0. TypeOK /\ t \in Threads /\ IInv
  BY DEF LInv, IInv, Threads
<1>1. PICK n \in Nodes : /\ place[n] = "free"
                         /\ val' = [val EXCEPT ![n] = v]
                         /\ next' = [next EXCEPT ![n] = head]
                         /\ newNode' = [newNode EXCEPT ![t] = n]
  BY DEF PushStart
<1>2. \A u \in Threads \ {t} : /\ pc[u] = "push_cas" => newNode[u] # n /\ newNode[u] \in Nodes
                               /\ pc[u] = "pop_swap" => oldHead[u] # n /\ oldHead[u] \in Nodes
  BY <1>0, <1>1 DEF IInv, TypeOK, InvPlace, Owns, Pointers
<1>3. Others(t)
  BY <1>0, <1>1, <1>2, OthersKept DEF PushStart, TypeOK
<1>4. AbstractOp(t) = Atomic!Idle /\ AbstractOp(t)' = Atomic!Pushing(v)
  BY <1>0, <1>1 DEF PushStart, TypeOK, AbstractOp, Atomic!Idle, Atomic!Pushing
<1>5. stack' = stack
  BY <1>0, <1>1, StackKept DEF PushStart, TypeOK, In
<1> QED  BY <1>0, <1>3, <1>4, <1>5, OpsOf DEF Atomic!InvokePush, ops, stack

\* A push takes effect at its CAS.
LEMMA RefinePushCas ==
  ASSUME LInv, LInv', InvCalls, NEW t \in Threads, PushCas(t)
  PROVE  t \in Pushers /\ Atomic!Push(t)
<1> USE StackAssumption DEF Goto
<1> DEFINE n == newNode[t]
<1>0. TypeOK /\ t \in Pushers /\ IInv
  BY DEF LInv, IInv, InvCalls, PushCas
<1>1. /\ n \in Nodes /\ n \notin In("stack") /\ next[n] = head /\ head' = n /\ next' = next /\ val' = val
      /\ DOMAIN next = Nodes /\ IsFiniteSet(DOMAIN next)
  BY <1>0 DEF PushCas, IInv, TypeOK, InvPlace, In, Pointers
<1>2. Path(head)' = <<n>> \o Path(head)
  BY <1>1, SpellsCons DEF LInv, InvSpells, Path
<1>3. stack' = <<val[n]>> \o stack
  <2>1. Path(head) \in Seq(Nodes)
    BY StackIs
  <2>2. stack' = [i \in DOMAIN (Path(head)') |-> val[(Path(head)')[i]]]
    BY <1>1 DEF stack, ValuesFrom
  <2>3. stack = [i \in DOMAIN Path(head) |-> val[Path(head)[i]]]
    BY DEF stack, ValuesFrom
  <2> HIDE DEF n, stack
  <2> QED  BY <1>1, <1>2, <2>1, <2>2, <2>3, ValuesCons
<1>4. Others(t)
  BY <1>0, <1>1, OthersKept DEF PushCas, TypeOK
<1>5. AbstractOp(t).kind = "push" /\ AbstractOp(t).val = val[n] /\ AbstractOp(t)' = Atomic!Idle
  BY <1>0 DEF PushCas, TypeOK, AbstractOp, Atomic!Idle
<1> QED  BY <1>0, <1>3, <1>4, <1>5, OpsOf DEF Atomic!Push, ops, stack

\* A pop that reads a null head takes effect there.
LEMMA RefineTakeHead ==
  ASSUME LInv, IInv', InvCalls, NEW t \in Threads, PopLoad(t) \/ PopCasFail(t)
  PROVE  (t \in Poppers /\ Atomic!PopEmpty(t)) \/ UNCHANGED <<stack, ops>>
<1> USE DEF Goto, PopLoad, PopCasFail, TakeHead, heap
<1>0. TypeOK /\ t \in Poppers /\ res[t] = NoValue
  BY DEF LInv, IInv, InvCalls
<1>1. Others(t) /\ stack' = stack
  BY <1>0, OthersKept, StackKept DEF TypeOK
<1>2. AbstractOp(t) = Atomic!Popping
  BY <1>0 DEF TypeOK, AbstractOp, Atomic!Popping
<1>3. CASE head = Null
  <2>1. AbstractOp(t)' = Atomic!Popped(NoValue)
    BY <1>0, <1>3 DEF TypeOK, AbstractOp, Atomic!Popped
  <2>2. stack = <<>>
    BY <1>3, StackIs
  <2> QED  BY <1>0, <1>1, <1>2, <2>1, <2>2, OpsOf DEF Atomic!PopEmpty, ops, stack
<1>4. CASE head # Null
  <2>1. AbstractOp(t)' = AbstractOp(t)
    BY <1>0, <1>4 DEF TypeOK, AbstractOp
  <2> QED  BY <1>1, <2>1 DEF Others, ops
<1> QED  BY <1>3, <1>4

\* Any other pop takes effect at its CAS.
LEMMA RefinePopCas ==
  ASSUME LInv, IInv', InvCalls, NEW t \in Threads, PopCas(t)
  PROVE  t \in Poppers /\ Atomic!PopTop(t)
<1> USE StackAssumption DEF Goto
<1>0. TypeOK /\ t \in Poppers /\ IInv
  BY DEF LInv, IInv, InvCalls, PopCas
<1>1. head # Null /\ head' = next[head] /\ oldHead[t] = head /\ next' = next /\ val' = val
  BY <1>0 DEF PopCas, IInv, TypeOK, InvPlace, InvChain, Chain, InvNext, In
<1>2. stack # <<>> /\ Head(stack) = val[head] /\ stack' = Tail(stack)
  <2>1. stack' = ValuesFrom(next[head])
    BY <1>1 DEF stack, ValuesFrom, Path
  <2> QED  BY <1>1, <2>1, StackIs
<1>3. Others(t)
  BY <1>0, <1>1, OthersKept DEF PopCas, TypeOK
<1>4. AbstractOp(t) = Atomic!Popping /\ AbstractOp(t)' = Atomic!Popped(val[head])
  BY <1>0, <1>1 DEF PopCas, TypeOK, AbstractOp, Atomic!Popping, Atomic!Popped
<1> QED  BY <1>0, <1>2, <1>3, <1>4, OpsOf DEF Atomic!PopTop, ops, stack

\* The value moves from the node to the caller: the pop has its result already.
LEMMA RefinePopSwap ==
  ASSUME LInv, IInv', InvCalls, NEW t \in Threads, PopSwap(t)
  PROVE  UNCHANGED <<stack, ops>>
<1> USE StackAssumption DEF Goto
<1>0. TypeOK /\ IInv
  BY DEF LInv, IInv
<1>1. /\ oldHead[t] \in Nodes /\ place[oldHead[t]] = "popped"
      /\ \A u \in Threads \ {t} : /\ pc[u] = "push_cas" => newNode[u] # oldHead[t]
                                  /\ pc[u] = "pop_swap" => oldHead[u] # oldHead[t]
  BY <1>0 DEF PopSwap, IInv, TypeOK, InvPlace, Owns, Pointers
<1>2. val' = [val EXCEPT ![oldHead[t]] = NoValue] /\ next' = next /\ head' = head
  BY DEF PopSwap
<1>3. Others(t)
  BY <1>0, <1>1, <1>2, OthersKept DEF PopSwap, TypeOK, Pointers
<1>4. stack' = stack
  BY <1>0, <1>1, <1>2, StackKept DEF TypeOK, In
<1>5. AbstractOp(t)' = AbstractOp(t)
  BY <1>0 DEF PopSwap, TypeOK, AbstractOp
<1> QED  BY <1>3, <1>4, <1>5 DEF Others, ops

\* Reclamation does not show.
LEMMA RefineReclaim ==
  ASSUME LInv, IInv', InvCalls, NEW t \in Threads,
         \/ PushCasFail(t) \/ PopReadNext(t) \/ Check(t) \/ Claim(t) \/ LeaveAlone(t) \/ DeleteClaimed(t)
         \/ DeleteClaimedEnd(t) \/ FindTail(t) \/ LinkLoad(t) \/ LinkCas(t) \/ LinkCasFail(t)
         \/ AddLoad(t) \/ AddCas(t) \/ AddCasFail(t)
  PROVE  UNCHANGED <<stack, ops>>
<1> USE StackAssumption DEF Goto, heap, locals
<1>0. TypeOK /\ IInv
  BY DEF LInv, IInv
<1>1. /\ UNCHANGED <<head, val, newNode, oldHead, res>>
      /\ \A u \in Threads \ {t} : pc'[u] = pc[u]
      /\ AbstractOp(t)' = AbstractOp(t)
  BY <1>0 DEF PushCasFail, PopReadNext, Check, Claim, LeaveAlone, DeleteClaimed, DeleteClaimedEnd, FindTail, LinkLoad,
              LinkCas, LinkCasFail, AddLoad, AddCas, AddCasFail, PointLast, TypeOK, AbstractOp
<1>2. \A n \in In("stack") : next'[n] = next[n]
  <2>1. CASE PushCasFail(t)
    BY <1>0, <2>1 DEF PushCasFail, IInv, TypeOK, InvPlace, In
  <2>2. CASE LinkLoad(t) \/ LinkCasFail(t)
    BY <1>0, <2>2 DEF LinkLoad, LinkCasFail, PointLast, IInv, TypeOK, InvPlace, In
  <2>3. CASE AddLoad(t) \/ AddCasFail(t)
    BY <1>0, <2>3 DEF AddLoad, AddCasFail, PointLast, IInv, TypeOK, InvPlace, Owns, In
  <2>4. CASE ~(PushCasFail(t) \/ LinkLoad(t) \/ LinkCasFail(t) \/ AddLoad(t) \/ AddCasFail(t))
    BY <2>4 DEF PopReadNext, Check, Claim, LeaveAlone, DeleteClaimed, DeleteClaimedEnd, FindTail, LinkCas, AddCas
  <2> QED  BY <2>1, <2>2, <2>3, <2>4
<1>3. Others(t)
  BY <1>1, OthersKept
<1>4. stack' = stack
  BY <1>1, <1>2, StackKept
<1> QED  BY <1>1, <1>3, <1>4 DEF Others, ops

\* pop returns after reclaiming, or with nothing to reclaim.
LEMMA RefineReturn ==
  ASSUME LInv, IInv', InvCalls, NEW t \in Threads, DeleteOld(t) \/ Leave(t)
  PROVE  t \in Poppers /\ Atomic!Return(t)
<1> USE DEF DeleteOld, Leave, Return, Goto
<1>0. TypeOK /\ t \in Poppers
  BY DEF LInv, IInv, InvCalls
<1>1. Others(t)
  BY <1>0, OthersKept DEF TypeOK
<1>2. stack' = stack
  BY <1>0, StackKept
<1>3. AbstractOp(t).kind = "popped" /\ AbstractOp(t)' = Atomic!Idle
  BY <1>0 DEF TypeOK, AbstractOp, Atomic!Idle
<1> QED  BY <1>0, <1>1, <1>2, <1>3, OpsOf DEF Atomic!Return, ops, stack

\* Counting itself in is how pop begins.
LEMMA RefinePopEnter ==
  ASSUME LInv, IInv', InvCalls, NEW t \in Poppers, PopEnter(t)
  PROVE  Atomic!InvokePop(t)
<1> USE DEF PopEnter, Goto, heap, locals
<1>0. TypeOK /\ t \in Threads
  BY DEF LInv, IInv, Threads
<1>1. Others(t)
  BY <1>0, OthersKept DEF TypeOK
<1>2. stack' = stack
  BY <1>0, StackKept
<1>3. AbstractOp(t) = Atomic!Idle /\ AbstractOp(t)' = Atomic!Popping
  BY <1>0 DEF TypeOK, AbstractOp, Atomic!Idle, Atomic!Popping
<1> QED  BY <1>0, <1>1, <1>2, <1>3, OpsOf DEF Atomic!InvokePop, ops, stack

\* Every step is a step of the atomic stack or leaves it alone.
LEMMA RefineStep == LInv /\ LInv' /\ InvCalls /\ [Next]_vars => [Atomic!Next]_(Atomic!aVars)
<1> SUFFICES ASSUME LInv, LInv', InvCalls, [Next]_vars PROVE Atomic!Next \/ UNCHANGED <<stack, ops>>
  BY DEF Atomic!aVars, stack, ops
<1>1. IInv'
  BY DEF LInv
<1>2. CASE UNCHANGED vars
  BY <1>2 DEF vars, heap, locals, stack, ops, ValuesFrom, Path, AbstractOp
<1> HIDE DEF stack, ops
<1> QED
  BY <1>1, <1>2, RefinePushStart, RefinePushCas, RefineTakeHead, RefinePopCas, RefinePopSwap, RefineReclaim,
     RefineReturn, RefinePopEnter
  DEF Next, Continue, TryReclaim, Atomic!Next

\* Linearizability: push and pop are the atomic operations of a LIFO stack,
\* however their steps and the reclamation of nodes interleave.
THEOREM Linearizable == ASSUME ZeroInit PROVE Spec => ImplementsStack
<1>1. Init => Atomic!Init
  BY RefineInit
<1>2. Init => LInv /\ InvCalls
  BY InitInv, ListsInit DEF LInv, Init, InvCalls
<1>3. LInv /\ InvCalls /\ [Next]_vars => LInv' /\ InvCalls'
  BY StepInv, ListsStep, OwnedStep, CallsStep DEF LInv, IInv
<1>4. LInv /\ InvCalls /\ [Next]_vars => [Atomic!Next]_(Atomic!aVars)
  <2>1. LInv /\ [Next]_vars => LInv'
    BY StepInv, ListsStep, OwnedStep DEF LInv
  <2> QED  BY <2>1, RefineStep
<1> QED  BY <1>1, <1>2, <1>3, <1>4, PTL DEF Spec, ImplementsStack, Atomic!Spec
=============================================================================
