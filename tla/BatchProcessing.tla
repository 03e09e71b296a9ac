-------------------------- MODULE BatchProcessing --------------------------
(***************************************************************************)
(* A thread that prepares a batch of data every second, and a thread that  *)
(* waits for data and processes it.  Nothing removes data: after the first *)
(* batch each round processes everything again, without waiting.           *)
(* (language/cxx/multi_thread/condition_variable.cpp)                      *)
(***************************************************************************)
EXTENDS Naturals

CONSTANTS BatchSize,  \* the elements of a batch
          MaxBatches  \* bounds the run: data_prepare_thread goes on for ever

VARIABLES owner,   \* who holds _m
          data,    \* _data.size()
          pos,     \* i of data_processing_thread
          prepare, \* where the threads are
          process

batchVars == <<owner, data, pos, prepare, process>>

BatchInit == /\ owner = "nobody"
             /\ data = 0 /\ pos = 0
             /\ prepare = "lock"
             /\ process = "lock"

PrepareLock == /\ prepare = "lock" /\ owner = "nobody"
               /\ data < MaxBatches * BatchSize
               /\ owner' = "prepare" /\ prepare' = "push"
               /\ UNCHANGED <<data, pos, process>>

PushBack == /\ prepare = "push"
            /\ data' = data + 1
            /\ prepare' = IF data' % BatchSize = 0 THEN "notify" ELSE "push"
            /\ UNCHANGED <<owner, pos, process>>

NotifyAll_Nobody == /\ prepare = "notify"
                    /\ prepare' = "unlock"
                    /\ UNCHANGED <<owner, data, pos, process>>

NotifyAll == /\ prepare = "notify"
             /\ process' = IF process = "waiting" THEN "lock" ELSE process
             /\ prepare' = "unlock"
             /\ UNCHANGED <<owner, data, pos>>

\* The mutex is released before the thread sleeps.
PrepareUnlock == /\ prepare = "unlock"
                 /\ owner' = "nobody" /\ prepare' = "lock"
                 /\ UNCHANGED <<data, pos, process>>

\* At the start of a round, and when wait wakes up.
ProcessLock == /\ process = "lock" /\ owner = "nobody"
               /\ owner' = "process" /\ process' = "test"
               /\ UNCHANGED <<data, pos, prepare>>

Test == /\ process = "test"
        /\ process' = IF data = 0 THEN "waiting" ELSE "read"
        /\ owner'   = IF data = 0 THEN "nobody" ELSE owner
        /\ pos' = 0
        /\ UNCHANGED <<data, prepare>>

SpuriousWakeup == /\ process = "waiting"
                  /\ process' = "lock"
                  /\ UNCHANGED <<owner, data, pos, prepare>>

Read == /\ process = "read" /\ pos < data
        /\ pos' = pos + 1
        /\ UNCHANGED <<owner, data, prepare, process>>

ProcessUnlock == /\ process = "read" /\ pos >= data
                 /\ owner' = "nobody" /\ process' = "lock"
                 /\ UNCHANGED <<data, pos, prepare>>

PrepareNext == PrepareLock \/ PushBack \/ NotifyAll \/ PrepareUnlock
ProcessNext == ProcessLock \/ Test \/ Read \/ ProcessUnlock
BatchNext   == PrepareNext \/ ProcessNext \/ SpuriousWakeup

-----------------------------------------------------------------------------
\* A round of processing that goes over all of a batch follows every batch, the
\* last one included.
EveryBatchProcessed ==
  \A b \in 1..MaxBatches : (data = b * BatchSize /\ prepare = "lock") ~>
                           (pos >= b * BatchSize /\ process = "read")
=============================================================================
