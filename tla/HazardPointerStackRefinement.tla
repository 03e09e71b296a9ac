-------------------- MODULE HazardPointerStackRefinement --------------------
(***************************************************************************)
(* The lists the pointers of HazardPointerStack spell out, the refinement  *)
(* of AtomicStack, and the properties that need the lists.                 *)
(***************************************************************************)
EXTENDS HazardPointerStack, NodeLists

Path(p)       == NodesFrom(p, next)
ValuesFrom(p) == LET path == Path(p) IN [i \in DOMAIN path |-> val[path[i]]]
In(where)     == {n \in Nodes : place[n] = where}

\* Where each thread is in the abstract operation.  A pop that has not got its
\* hazard pointer yet may still throw: it has not begun.  It takes effect at
\* its successful CAS, or when it validates a null head.
AbstractOp(t) ==
  LET Op(kind, v) == [kind |-> kind, val |-> v] IN
  CASE pc[t] \in {"idle", "claim_slot", "thrown", "exited"} -> Op("idle", NoValue)
    [] pc[t] = "push_cas" -> Op("push", val[newNode[t]])
    [] pc[t] \in {"load_tmp", "publish", "validate", "read_next", "pop_cas"} -> Op("pop", NoValue)
    [] pc[t] \in {"clear", "swap"} ->
         Op("popped", IF oldHead[t] = Null THEN NoValue ELSE val[oldHead[t]])
    [] OTHER -> Op("popped", res[t])

Atomic == INSTANCE AtomicStack
            WITH stack <- ValuesFrom(head), op <- [t \in Threads |-> AbstractOp(t)]

\* Linearizability: every behaviour of the code is one of the atomic stack.
ImplementsStack == Atomic!Spec

\* The variables have their types, and no node is lost or shared: the stack and
\* the list of nodes put aside are free of cycles and of each other and hold
\* every node that is not in the hands of a thread, and what tryReclaim has yet
\* to visit is still linked together; when no operation runs nobody has a node in
\* hand.
ListsIntact ==
  /\ TypeOK
  /\ Exactly(Path(head), In("stack"))
  /\ Exactly(Path(pending), In("pending"))
  /\ \A t \in Threads :
       LET rest == mine[t] \ {node[t]} IN
       CASE pc[t] = "read_succ" -> Exactly(Path(node[t]), mine[t])
         [] pc[t] # "read_succ" /\ after[t] = "advance" -> Exactly(Path(nextNode[t]), rest)
         [] OTHER -> mine[t] = {}
  /\ (\A t \in Threads : pc[t] \in {"idle", "exited"}) =>
       \A n \in Nodes : place[n] \in {"free", "stack", "pending"}
=============================================================================
