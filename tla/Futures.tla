------------------------------ MODULE Futures ------------------------------
(***************************************************************************)
(* Four ways to have a thread compute a value: std::async, a packaged      *)
(* task, a promise the thread refers to, and a promise whose value several *)
(* consumers share and hand on with promises of their own.                 *)
(* (language/cxx/multi_thread/future.cpp)                                  *)
(***************************************************************************)
EXTENDS Naturals, Sequences, FiniteSets

CONSTANT Consumers  \* the threads of consumerCnt

VARIABLES demo,   \* the function main is in
          main,   \* where in it
          thread, \* where each thread is
          ready   \* the threads whose promise has its value

futureVars == <<demo, main, thread, ready>>

Demos == <<"async", "packaged", "promise", "shared">>

ThreadsOf(d) == CASE d = 4            -> {"producer"} \cup Consumers
                  [] d \in DOMAIN Demos \ {4} -> {Demos[d]}
                  [] OTHER            -> {}

AllThreads == UNION {ThreadsOf(d) : d \in DOMAIN Demos}

FuturesInit == /\ demo = 1
               /\ main = "start"
               /\ thread = [t \in AllThreads |-> "none"]
               /\ ready = {}

MainGoes(from, to) == main = from /\ main' = to

\* std::async starts a thread or leaves the work to get.  The producer is
\* started before the consumers.
Start(t) == /\ main = "start" /\ thread[t] = "none"
            /\ t \in Consumers => thread["producer"] # "none"
            /\ \E at \in CASE t = "async"       -> {"work", "deferred"}
                           [] t \in Consumers   -> {"get"}
                           [] OTHER             -> {"work"} :
                 thread' = [thread EXCEPT ![t] = at]
            /\ UNCHANGED <<demo, main, ready>>

\* doLongTimeWork of main itself, with every thread under way.
MainWork == /\ demo <= Len(Demos)
            /\ MainGoes("start", IF demo = 1 THEN "get" ELSE "join")
            /\ \A t \in ThreadsOf(demo) : thread[t] # "none"
            /\ UNCHANGED <<demo, thread, ready>>

Join_Skipped == MainGoes("join", "get") /\ UNCHANGED <<demo, thread, ready>>

Join == /\ MainGoes("join", "get")
        /\ \A t \in ThreadsOf(demo) : thread[t] = "over"
        /\ UNCHANGED <<demo, thread, ready>>

\* The futures main asks: the task's, or those of the consumers.
Asked == IF demo = 4 THEN Consumers ELSE ThreadsOf(demo)

\* get waits for the value, or does the work that was deferred.
MainGet == /\ MainGoes("get", "leave")
           /\ \A t \in Asked : t \in ready \/ thread[t] = "deferred"
           /\ thread' = [t \in AllThreads |-> IF thread[t] = "deferred" THEN "over" ELSE thread[t]]
           /\ UNCHANGED <<demo, ready>>

\* The end of the function: the future of std::async waits for its thread.
LeaveScope == /\ MainGoes("leave", "start")
              /\ demo = 1 => thread["async"] = "over"
              /\ demo' = demo + 1
              /\ UNCHANGED <<thread, ready>>

\* A thread works, or a consumer's get returns.
ThreadWork(t) == /\ \/ thread[t] = "work"
                    \/ thread[t] = "get" /\ "producer" \in ready
                 /\ thread' = [thread EXCEPT ![t] = "set"]
                 /\ UNCHANGED <<demo, main, ready>>

\* In set_value a value is there for those who wait before the call returns.
SetValue(t) == /\ thread[t] = "set"
               /\ ready' = ready \cup {t}
               /\ thread' = [thread EXCEPT ![t] = "setting"]
               /\ UNCHANGED <<demo, main>>

SetReturns(t) == /\ thread[t] = "setting"
                 /\ thread' = [thread EXCEPT ![t] = "over"]
                 /\ UNCHANGED <<demo, main, ready>>

FuturesNext == \/ MainWork \/ Join \/ MainGet \/ LeaveScope
               \/ \E t \in ThreadsOf(demo) : Start(t)
               \/ \E t \in AllThreads : ThreadWork(t) \/ SetValue(t) \/ SetReturns(t)

FuturesDone == demo > Len(Demos)

-----------------------------------------------------------------------------
\* A future may be ready while set_value is still at work in the promise, which
\* is the caller's own in promiseTask: no thread of a function is under way
\* when main has left it, and what it asked for it has got.
ScopesOutliveThreads ==
  \A d \in DOMAIN Demos : d < demo =>
    \A t \in ThreadsOf(d) : thread[t] = "over"
=============================================================================
