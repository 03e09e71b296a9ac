---------------------------- MODULE AtomicStack ----------------------------
(***************************************************************************)
(* What a concurrent stack promises its callers: every push and every pop  *)
(* takes effect at one instant between its invocation and its return, and  *)
(* those instants obey LIFO order.  Both lock-free stacks of               *)
(* algorithm/thread_safe/stack are shown to implement this specification.  *)
(***************************************************************************)
EXTENDS Sequences

CONSTANTS Pushers,   \* threads that call push
          Poppers,   \* threads that call pop
          Values,    \* what is pushed
          NoValue    \* the empty shared_ptr a pop of an empty stack returns

VARIABLES stack,     \* the values, top first
          op         \* the operation each thread has in progress

aVars == <<stack, op>>

Idle       == [kind |-> "idle",   val |-> NoValue]
Pushing(v) == [kind |-> "push",   val |-> v]
Popping    == [kind |-> "pop",    val |-> NoValue]
Popped(v)  == [kind |-> "popped", val |-> v]

Init == /\ stack = <<>>
        /\ op = [t \in Pushers \cup Poppers |-> Idle]

InvokePush(t, v) == /\ op[t] = Idle
                    /\ op' = [op EXCEPT ![t] = Pushing(v)]
                    /\ UNCHANGED stack

\* push has nothing left to do once its value is on the stack.
Push(t) == /\ op[t].kind = "push"
           /\ stack' = <<op[t].val>> \o stack
           /\ op' = [op EXCEPT ![t] = Idle]

InvokePop(t) == /\ op[t] = Idle
                /\ op' = [op EXCEPT ![t] = Popping]
                /\ UNCHANGED stack

PopTop(t) == /\ op[t] = Popping
             /\ stack # <<>>
             /\ stack' = Tail(stack)
             /\ op' = [op EXCEPT ![t] = Popped(Head(stack))]

PopEmpty(t) == /\ op[t] = Popping
               /\ stack = <<>>
               /\ op' = [op EXCEPT ![t] = Popped(NoValue)]
               /\ UNCHANGED stack

Return(t) == /\ op[t].kind = "popped"
             /\ op' = [op EXCEPT ![t] = Idle]
             /\ UNCHANGED stack

Next == \/ \E t \in Pushers : Push(t) \/ \E v \in Values : InvokePush(t, v)
        \/ \E t \in Poppers : InvokePop(t) \/ PopTop(t) \/ PopEmpty(t) \/ Return(t)

Spec == Init /\ [][Next]_aVars
=============================================================================
