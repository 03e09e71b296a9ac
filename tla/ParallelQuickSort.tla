-------------------------- MODULE ParallelQuickSort --------------------------
(***************************************************************************)
(* QuickSort: a call takes a pivot out of its list, divides the rest, has  *)
(* one part sorted by a call of its own thread and the other by std::async *)
(* and puts the results together when the future is ready; or it does      *)
(* everything by itself.  (language/cxx/multi_thread/quick_sort.cpp)       *)
(*                                                                         *)
(* A call is named by the way to it from the first: a sequence of "low"    *)
(* and "high".  std::partition leaves the order within the parts open, so  *)
(* a list still to be sorted is a set of elements and its first element    *)
(* any of them.                                                            *)
(***************************************************************************)
EXTENDS Integers, FiniteSets, SequencesExt

CONSTANTS Elements,  \* list nodes, or places of a vector
          Values     \* the numbers they hold

VARIABLES function,  \* the member function that is called
          value,     \* the number each element holds
          calls      \* the calls in progress: their lists, pivots and results

quickVars == <<function, value, calls>>

Functions == {"list", "vector", "parallelList", "parallelVector"}

NoPivot == "none"

ASSUME QuickAssumption == Values \subseteq Int /\ NoPivot \notin Elements

NewCall(elements, how) ==
  [list |-> elements, pivot |-> NoPivot, how |-> how, pc |-> "divide", result |-> <<>>]

QuickInit == /\ function \in Functions
             /\ value \in [Elements -> Values]
             /\ calls = [c \in {<<>>} |-> NewCall(Elements, "called")]

\* The part a call sorts in its own thread first.
Own   == IF function = "parallelList" THEN "high" ELSE "low"
Other == IF function = "parallelList" THEN "low" ELSE "high"

\* std::async may start a thread or leave the work to get; the functions that are
\* not parallel make the second call after the first.
Ways == IF function \in {"list", "vector"} THEN {"deferred"} ELSE {"async", "deferred"}

\* Whether a call has begun: a deferred one begins when its caller waits for it.
Begun(c) == calls[c].how = "deferred" => calls[Front(c)].pc = "get"

Returned(c) == calls[c].pc = "returned"

InLowPart(e, pivot) == IF function \in {"list", "parallelList"} THEN value[e] < value[pivot]
                                                               ELSE value[e] <= value[pivot]

ReturnEmpty(c) == /\ calls[c].pc = "divide" /\ calls[c].list = {}
                  /\ calls' = [calls EXCEPT ![c].pc = "returned"]

\* std::partition of the list without the pivot.
Part(c, pivot, side) ==
  LET rest == calls[c].list \ {pivot}
      low  == {e \in rest : InLowPart(e, pivot)}
  IN  IF side = "low" THEN low ELSE rest \ low

Divide(c) ==
  /\ calls[c].pc = "divide"
  /\ \E pivot \in calls[c].list, how \in Ways :
       calls' = [d \in DOMAIN calls \cup {Append(c, Own), Append(c, Other)} |->
                   IF d = c THEN [calls[c] EXCEPT !.pc = "sortOwn", !.pivot = pivot, !.list = {}]
                   ELSE IF d = Append(c, Own)   THEN NewCall(Part(c, pivot, Own), "called")
                   ELSE IF d = Append(c, Other) THEN NewCall(Part(c, pivot, Other), how)
                   ELSE calls[d]]

OwnReturned(c) == /\ calls[c].pc = "sortOwn"
                  /\ Returned(Append(c, Own))
                  /\ calls' = [calls EXCEPT ![c].pc = "get"]

\* The result of a call, and the calls that are left, when its parts are sorted.
Combine(c) ==
  LET low   == Append(c, "low")
      high  == Append(c, "high")
      whole == calls[low].result \o <<calls[c].pivot>> \o calls[high].result
  IN  calls' = [d \in DOMAIN calls \ {low, high} |->
                  IF d = c THEN [calls[c] EXCEPT !.pc = "returned", !.pivot = NoPivot, !.result = whole]
                  ELSE calls[d]]

Get_NoWait(c) == calls[c].pc = "get" /\ Combine(c)

\* future.get, or the return of the second call.
Get(c) == /\ calls[c].pc = "get"
          /\ Returned(Append(c, Other))
          /\ Combine(c)

QuickNext == /\ \E c \in DOMAIN calls :
                  Begun(c) /\ (ReturnEmpty(c) \/ Divide(c) \/ OwnReturned(c) \/ Get(c))
             /\ UNCHANGED <<function, value>>

QuickDone == Returned(<<>>)

-----------------------------------------------------------------------------
\* The elements in the hands of a call.
Held(c) == calls[c].list \cup ToSet(calls[c].result) \cup ({calls[c].pivot} \ {NoPivot})

\* Whatever the threads do in which order, an element that moves between lists
\* is always in the hands of exactly one call, and what a call returns is in
\* order.
CallsSort ==
  /\ \A e \in Elements : \E c \in DOMAIN calls :
       e \in Held(c) /\ \A d \in DOMAIN calls \ {c} : e \notin Held(d)
  /\ \A c \in DOMAIN calls : LET sorted == calls[c].result IN
       /\ IsInjective(sorted)
       /\ \A k, m \in DOMAIN sorted : k < m => value[sorted[k]] <= value[sorted[m]]
=============================================================================
