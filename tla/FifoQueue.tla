----------------------------- MODULE FifoQueue -----------------------------
(***************************************************************************)
(* What a thread-safe queue promises its callers: every call takes effect  *)
(* at one instant between its invocation and its return, pops take the     *)
(* oldest element, and a pop gives up only at an instant when the queue is *)
(* empty, and only if it is not one that waits without a time limit.  Both *)
(* queues of algorithm/thread_safe/queue are shown to implement this.      *)
(***************************************************************************)
EXTENDS Sequences

CONSTANTS Pushers,  \* threads that push
          Poppers,  \* threads that pop
          Calls,    \* what Poppers call: "try", "wait", "timed", "is_empty"
          Values    \* what is pushed

VARIABLES queue,    \* the elements, oldest first
          op        \* the operation each thread has in progress

fVars == <<queue, op>>

Op(kind, arg) == [kind |-> kind, arg |-> arg]
Idle          == Op("idle", "")

Init == /\ queue = <<>>
        /\ op = [t \in Pushers \cup Poppers |-> Idle]

Become(t, o) == op' = [op EXCEPT ![t] = o]

InvokePush(t, v) == op[t] = Idle /\ Become(t, Op("push", v)) /\ UNCHANGED queue
InvokePop(t, c)  == op[t] = Idle /\ Become(t, Op("pop", c)) /\ UNCHANGED queue

Push(t) == /\ op[t].kind = "push"
           /\ queue' = Append(queue, op[t].arg)
           /\ Become(t, Op("done", ""))

Pop(t) == /\ op[t].kind = "pop" /\ op[t].arg # "is_empty"
          /\ queue # <<>>
          /\ queue' = Tail(queue)
          /\ Become(t, Op("popped", Head(queue)))

\* "Empty Queue", "wait queue element timeout", an empty pointer or false.
GiveUp(t) == /\ op[t].kind = "pop" /\ op[t].arg \in {"try", "timed"}
             /\ queue = <<>>
             /\ Become(t, Op("failed", ""))
             /\ UNCHANGED queue

Answer(t) == /\ op[t].kind = "pop" /\ op[t].arg = "is_empty"
             /\ Become(t, Op("answered", IF queue = <<>> THEN "empty" ELSE "not empty"))
             /\ UNCHANGED queue

Return(t) == /\ op[t].kind \in {"done", "popped", "failed", "answered"}
             /\ Become(t, Idle)
             /\ UNCHANGED queue

\* The destructor, called when no operation is in progress.
Clear == /\ \A t \in Pushers \cup Poppers : op[t] = Idle
         /\ queue' = <<>>
         /\ UNCHANGED op

Next == \/ \E t \in Pushers : Push(t) \/ \E v \in Values : InvokePush(t, v)
        \/ \E t \in Poppers : \/ \E c \in Calls : InvokePop(t, c)
                              \/ Pop(t) \/ GiveUp(t) \/ Answer(t)
        \/ \E t \in Pushers \cup Poppers : Return(t)
        \/ Clear

Spec == Init /\ [][Next]_fVars
=============================================================================
