----------------------- MODULE RefCountStackRefinement -----------------------
(***************************************************************************)
(* The lists the pointers of RefCountStack spell out, the refinement of    *)
(* AtomicStack, and the properties that need the lists.                    *)
(***************************************************************************)
EXTENDS RefCountStack, NodeLists

Path(p)       == NodesFrom(p, next)
ValuesFrom(p) == LET path == Path(p) IN [i \in DOMAIN path |-> val[path[i]]]
In(where)     == {n \in Nodes : place[n] = where}

\* Where each thread is in the abstract operation.  A push takes effect at its
\* successful CAS, a pop at its successful CAS or when it reads a null head.
AbstractOp(t) ==
  LET Op(kind, v) == [kind |-> kind, val |-> v] IN
  CASE pc[t] = "idle"                              -> Op("idle", NoValue)
    [] pc[t] = "push_cas"                          -> Op("push", val[newNode[t]])
    [] pc[t] \in {"pop_load", "pop_next", "pop_cas"} -> Op("pop", NoValue)
    [] pc[t] = "pop_swap"                          -> Op("popped", val[oldHead[t]])
    [] OTHER                                       -> Op("popped", res[t])

Atomic == INSTANCE AtomicStack
            WITH stack <- ValuesFrom(head), op <- [t \in Threads |-> AbstractOp(t)]

\* Linearizability: every behaviour of the code is one of the atomic stack.
ImplementsStack == Atomic!Spec

\* No node is lost or shared: the stack and the list of nodes waiting to be
\* deleted are free of cycles and of each other, and hold every node that is
\* not in the hands of a thread; a thread's own list is whole until it relinks
\* it, and when no operation runs nobody has a node in hand.
ListsIntact ==
  /\ Exactly(Path(head), In("stack"))
  /\ Exactly(Path(pending), In("pending"))
  /\ \A t \in Threads : pc[t] # "link_cas" => Exactly(Path(claimed[t]), mine[t])
  /\ (\A t \in Threads : pc[t] = "idle") =>
       \A n \in Nodes : place[n] \in {"free", "stack", "pending"}

\* Lock-freedom: as long as operations are in progress, operations complete.
LockFree ==
  \/ <>[](\A t \in Threads : pc[t] = "idle")
  \/ []<><<\E t \in Threads : pc[t] # "idle" /\ pc'[t] = "idle">>_vars

\* Pops that overlap leave their nodes to a later pop.  However they did, once no
\* two pops overlap any more every node that was pushed is given back, if only
\* pops go on.
AllReclaimed ==
  /\ <>[](Cardinality({t \in Threads : InPop(t)}) <= 1)
  /\ []<>(\E t \in Threads : pc[t] = "pop_load")
  => <>[](\A n \in Nodes : place[n] = "free")
=============================================================================
