----------------------------- MODULE HashTable -----------------------------
(***************************************************************************)
(* ThreadSafeHashTableWithBucketLock: a fixed number of buckets, each a    *)
(* list of entries behind a shared mutex.                                  *)
(* (algorithm/thread_safe/hash_table/                                      *)
(* thread_safe_hash_table_with_bucket_lock.cpp)                            *)
(*                                                                         *)
(* put searches and changes a bucket under the exclusive lock, get         *)
(* searches and copies under the shared one.  A step takes the lock, or is *)
(* an access to the list, so that what two threads do to one bucket at the *)
(* same time shows.                                                        *)
(***************************************************************************)
EXTENDS Naturals, FiniteSets, Sequences

CONSTANTS Putters, Getters,  \* threads calling put, threads calling get
          Keys, Values,
          NoValue,           \* V()
          NoThread,          \* the owner of a lock nobody holds
          Buckets,           \* the indexes of _buckets
          BucketOf           \* _getBucketIndex: _hasher(key) % _buckets.size()

Threads == Putters \cup Getters

ASSUME TableAssumption == /\ Keys # {}
                          /\ Putters \cap Getters = {}
                          /\ NoValue \notin Values
                          /\ NoThread \notin Threads
                          /\ BucketOf \in [Keys -> Buckets]

VARIABLES writer,     \* _bucketLock: the thread that holds it exclusively ...
          readers,    \* ... or those that share it
          bucketList, \* _bucketList of each bucket
          pc,
          key, val,   \* the arguments of the call in progress
          it,         \* put: the position findEntry found, 0 for end()
          res         \* get: the value returned

locks  == <<writer, readers>>
locals == <<key, val, it, res>>
vars   == <<locks, bucketList, pc, locals>>

Labels == {"idle", "put_lock", "find", "write", "get_lock", "read", "got"}

\* `key` of a thread that has no call in progress.
AnyKey == CHOOSE k \in Keys : TRUE

Init ==
  /\ writer = [b \in Buckets |-> NoThread]
  /\ readers = [b \in Buckets |-> {}]
  /\ bucketList = [b \in Buckets |-> <<>>]
  /\ pc = [t \in Threads |-> "idle"]
  /\ key = [t \in Threads |-> AnyKey]
  /\ val = [t \in Threads |-> NoValue]
  /\ it = [t \in Threads |-> 0]
  /\ res = [t \in Threads |-> NoValue]

Goto(t, from, to) == pc[t] = from /\ pc' = [pc EXCEPT ![t] = to]

\* The bucket of the call in progress.
Bucket(t) == BucketOf[key[t]]

\* Where k is in a bucket: the positions of its entries.
Positions(k, list) == {i \in DOMAIN list : list[i].key = k}

\* std::find_if: the first entry of the key, or end().
FindEntry(k, list) ==
  LET at == Positions(k, list) IN
  IF at = {} THEN 0 ELSE CHOOSE i \in at : \A j \in at : i <= j

-----------------------------------------------------------------------------
(* put *)

PutStart(t, k, v) ==
  /\ Goto(t, "idle", "put_lock")
  /\ key' = [key EXCEPT ![t] = k]
  /\ val' = [val EXCEPT ![t] = v]
  /\ UNCHANGED <<locks, bucketList, it, res>>

PutLock_Shared(t) ==
  /\ Goto(t, "put_lock", "find")
  /\ writer[Bucket(t)] = NoThread
  /\ readers' = [readers EXCEPT ![Bucket(t)] = @ \cup {t}]
  /\ UNCHANGED <<writer, bucketList, locals>>

\* unique_lock<shared_mutex>
PutLock(t) ==
  /\ Goto(t, "put_lock", "find")
  /\ writer[Bucket(t)] = NoThread
  /\ readers[Bucket(t)] = {}
  /\ writer' = [writer EXCEPT ![Bucket(t)] = t]
  /\ UNCHANGED <<readers, bucketList, locals>>

Find_Unlocks(t) ==
  /\ Goto(t, "find", "write")
  /\ it' = [it EXCEPT ![t] = FindEntry(key[t], bucketList[Bucket(t)])]
  /\ writer' = [writer EXCEPT ![Bucket(t)] = NoThread]
  /\ UNCHANGED <<readers, bucketList, key, val, res>>

Find(t) ==
  /\ Goto(t, "find", "write")
  /\ it' = [it EXCEPT ![t] = FindEntry(key[t], bucketList[Bucket(t)])]
  /\ UNCHANGED <<locks, bucketList, key, val, res>>

\* The call returns: its locals go out of scope.
Leave(t, from) ==
  /\ Goto(t, from, "idle")
  /\ key' = [key EXCEPT ![t] = AnyKey]
  /\ val' = [val EXCEPT ![t] = NoValue]
  /\ it' = [it EXCEPT ![t] = 0]
  /\ res' = [res EXCEPT ![t] = NoValue]

Write_KeepsValue(t) ==
  /\ Leave(t, "write")
  /\ bucketList' = [bucketList EXCEPT ![Bucket(t)] =
                      IF it[t] = 0 THEN Append(@, [key |-> key[t], val |-> val[t]]) ELSE @]
  /\ writer' = [writer EXCEPT ![Bucket(t)] = NoThread]
  /\ UNCHANGED readers

Write_KeepsLock(t) ==
  /\ Leave(t, "write")
  /\ bucketList' = [bucketList EXCEPT ![Bucket(t)] =
                      IF it[t] = 0 THEN Append(@, [key |-> key[t], val |-> val[t]])
                                   ELSE [@ EXCEPT ![it[t]].val = val[t]]]
  /\ UNCHANGED locks

\* push_back, or it->second = val; the lock is released at the end.
Write(t) ==
  /\ Leave(t, "write")
  /\ bucketList' = [bucketList EXCEPT ![Bucket(t)] =
                      IF it[t] = 0 THEN Append(@, [key |-> key[t], val |-> val[t]])
                                   ELSE [@ EXCEPT ![it[t]].val = val[t]]]
  /\ writer' = [writer EXCEPT ![Bucket(t)] = NoThread]
  /\ UNCHANGED readers

-----------------------------------------------------------------------------
(* get *)

GetStart(t, k) ==
  /\ Goto(t, "idle", "get_lock")
  /\ key' = [key EXCEPT ![t] = k]
  /\ UNCHANGED <<locks, bucketList, val, it, res>>

\* shared_lock<shared_mutex>: beside other readers.
GetLock(t) ==
  /\ Goto(t, "get_lock", "read")
  /\ writer[Bucket(t)] = NoThread
  /\ readers' = [readers EXCEPT ![Bucket(t)] = @ \cup {t}]
  /\ UNCHANGED <<writer, bucketList, locals>>

\* The value is copied before the lock is released; V() if there is no entry.
Read(t) ==
  LET list == bucketList[Bucket(t)]
      at   == FindEntry(key[t], list) IN
  /\ Goto(t, "read", "got")
  /\ res' = [res EXCEPT ![t] = IF at = 0 THEN NoValue ELSE list[at].val]
  /\ readers' = [readers EXCEPT ![Bucket(t)] = @ \ {t}]
  /\ UNCHANGED <<writer, bucketList, key, val, it>>

Return(t) ==
  /\ Leave(t, "got")
  /\ UNCHANGED <<locks, bucketList>>

-----------------------------------------------------------------------------
Acquiring(t) == PutLock(t) \/ GetLock(t)

\* The steps of a call that has begun.
Continue(t) == Acquiring(t) \/ Find(t) \/ Write(t) \/ Read(t) \/ Return(t)

Next == \/ \E t \in Putters, k \in Keys, v \in Values : PutStart(t, k, v)
        \/ \E t \in Getters, k \in Keys : GetStart(t, k)
        \/ \E t \in Threads : Continue(t)

Spec == Init /\ [][Next]_vars

\* The scheduler runs every thread whose call has begun, and a lock that is free
\* again and again is obtained in the end.
Fairness == \A t \in Threads : WF_vars(Continue(t)) /\ SF_vars(Acquiring(t))

FairSpec == Spec /\ Fairness

-----------------------------------------------------------------------------
(* Properties *)

TypeOK ==
  /\ writer \in [Buckets -> Threads \cup {NoThread}]
  /\ readers \in [Buckets -> SUBSET Threads]
  /\ bucketList \in [Buckets -> Seq([key : Keys, val : Values])]
  /\ pc \in [Threads -> Labels]
  /\ key \in [Threads -> Keys]
  /\ val \in [Threads -> Values \cup {NoValue}]
  /\ it \in [Threads -> Nat]
  /\ res \in [Threads -> Values \cup {NoValue}]

\* While a put is between its lock and its unlock nobody else searches, reads or
\* changes the list of the same bucket; gets may overlap each other.
NoDataRace ==
  \A t, u \in Threads :
    /\ t # u /\ Bucket(t) = Bucket(u)
    /\ pc[t] \in {"find", "write"}
    => pc[u] \notin {"find", "write", "read"}

\* The table is well formed: a key has at most one entry, in the bucket its hash
\* selects.
OneEntryPerKey ==
  /\ TypeOK
  /\ \A b \in Buckets, k \in Keys :
       Cardinality(Positions(k, bucketList[b])) <= IF BucketOf[k] = b THEN 1 ELSE 0

\* The map the buckets stand for, and each thread's abstract operation: a put
\* takes effect when it writes, a get when it reads.
MapOf == [k \in Keys |->
            LET list == bucketList[BucketOf[k]]
                at   == FindEntry(k, list)
            IN  IF at = 0 THEN NoValue ELSE list[at].val]

AbstractOp(t) ==
  LET Op(kind, k, v) == [kind |-> kind, key |-> k, val |-> v] IN
  CASE pc[t] = "idle"                         -> Op("idle", "", NoValue)
    [] pc[t] \in {"put_lock", "find", "write"} -> Op("put", key[t], val[t])
    [] pc[t] \in {"get_lock", "read"}          -> Op("get", key[t], NoValue)
    [] OTHER                                   -> Op("got", key[t], res[t])

Atomic == INSTANCE AtomicMap WITH map <- MapOf, op <- [t \in Threads |-> AbstractOp(t)]

\* Linearizability: every behaviour of the code is one of the atomic map.
ImplementsMap == Atomic!Spec

\* Every get returns, and a put that never does is kept out by gets that share
\* its bucket's lock without a gap: no lock is left behind, nobody deadlocks.
CallsReturn ==
  \A t \in Threads :
    <>[](pc[t] # "idle") => t \in Putters /\ <>[](readers[Bucket(t)] # {})
=============================================================================
