---------------------- MODULE DetailLockQueueRefinement ----------------------
(***************************************************************************)
(* The list the pointers of DetailLockQueue spell out, the refinement of   *)
(* FifoQueue, and the properties that need the list.                       *)
(***************************************************************************)
EXTENDS DetailLockQueue, NodeLists

Path == NodesFrom(head, next)

\* The nodes after the dummy, up to _tail: a node that is linked but not yet
\* the tail is not in the queue.
Elements ==
  LET path == Path
      upTo == CHOOSE i \in DOMAIN path : path[i] = tail
  IN  IF tail \in ToSet(path) THEN [i \in 1..(upTo - 1) |-> val[path[i + 1]]] ELSE <<>>

\* A push takes effect when _tail moves, a pop when _head does, and a pop of an
\* empty queue when it reads _tail for the last time.
AbstractOp(t) ==
  LET Op(kind, arg) == [kind |-> kind, arg |-> arg] IN
  CASE pc[t] = "idle"                   -> Op("idle", "")
    [] pc[t] \in {"push_lock", "link"}  -> Op("push", val[newNode[t]])
    [] pc[t] = "advance"                -> Op("push", val[next[tail]])
    [] pc[t] = "notify"                 -> Op("done", "")
    [] pc[t] = "popped"                 -> Op("popped", res[t])
    [] pc[t] = "failed"                 -> Op("failed", "")
    [] OTHER                            -> Op("pop", call[t])

Fifo == INSTANCE FifoQueue
          WITH queue <- Elements, op <- [t \in Threads |-> AbstractOp(t)]

\* Linearizability: every behaviour of the code is one of the atomic queue.  An
\* "Empty Queue" or a timeout is reported only if the queue was empty at an
\* instant of the call, and a pop without a time limit never gives up.
ImplementsQueue == Fifo!Spec

\* The variables have their types, and the list runs from the dummy node to
\* _tail, or one node further between the two writes of a push, and holds every
\* node but those not yet linked.
ListIntact ==
  LET path     == Path
      unlinked == {newNode[t] : t \in Threads} \ {Null} IN
  /\ TypeOK
  /\ Exactly(path, live \ unlinked)
  /\ Last(path) = IF \E t \in Threads : pc[t] = "advance" THEN next[tail] ELSE tail

\* With a consumer that pops for ever, as main's does, every element that is in
\* the queue leaves it.
EveryElementPopped == \A v \in Values : v \in ToSet(Elements) ~> v \notin ToSet(Elements)
=============================================================================
