----------------------------- MODULE AtomicMap -----------------------------
(***************************************************************************)
(* What a concurrent hash table promises its callers: every put and every  *)
(* get takes effect at one instant between its invocation and its return.  *)
(***************************************************************************)
CONSTANTS Putters,   \* threads that call put
          Getters,   \* threads that call get
          Keys, Values,
          NoValue    \* what a get of an unknown key returns

VARIABLES map,       \* the value of each key, NoValue if it has none
          op         \* the operation each thread has in progress

mVars == <<map, op>>

Op(kind, key, val) == [kind |-> kind, key |-> key, val |-> val]
Idle == Op("idle", "", NoValue)

Init == /\ map = [k \in Keys |-> NoValue]
        /\ op = [t \in Putters \cup Getters |-> Idle]

Become(t, o) == op' = [op EXCEPT ![t] = o]

InvokePut(t, k, v) == op[t] = Idle /\ Become(t, Op("put", k, v)) /\ UNCHANGED map
InvokeGet(t, k)    == op[t] = Idle /\ Become(t, Op("get", k, NoValue)) /\ UNCHANGED map

\* put has nothing left to do once its value is in the map.
Put(t) == /\ op[t].kind = "put"
          /\ map' = [map EXCEPT ![op[t].key] = op[t].val]
          /\ Become(t, Idle)

Get(t) == /\ op[t].kind = "get"
          /\ Become(t, Op("got", op[t].key, map[op[t].key]))
          /\ UNCHANGED map

Return(t) == op[t].kind = "got" /\ Become(t, Idle) /\ UNCHANGED map

Next == \/ \E t \in Putters : Put(t) \/ \E k \in Keys, v \in Values : InvokePut(t, k, v)
        \/ \E t \in Getters : Get(t) \/ Return(t) \/ \E k \in Keys : InvokeGet(t, k)

Spec == Init /\ [][Next]_mVars
=============================================================================
