--------------------------- MODULE HashTableProofs ---------------------------
(***************************************************************************)
(* Safety of the hash table and the refinement of AtomicMap, for any       *)
(* threads, keys, values and buckets.                                      *)
(***************************************************************************)
EXTENDS HashTable, FiniteSetTheorems, SequenceTheorems, TLAPS

-----------------------------------------------------------------------------
(* What findEntry finds *)

\* No two entries of a list have the same key.
OneEach(list) == \A i, j \in DOMAIN list : list[i].key = list[j].key => i = j

\* In a list without a second entry of a key, the entry of k is the one found,
\* and end() means that there is none.
LEMMA FindEntryFinds ==
  ASSUME NEW k, NEW list, OneEach(list), 0 \notin DOMAIN list
  PROVE  LET at == FindEntry(k, list) IN
         /\ at = 0 => \A i \in DOMAIN list : list[i].key # k
         /\ at # 0 => at \in DOMAIN list /\ list[at].key = k
         /\ \A i \in DOMAIN list : list[i].key = k => at = i
<1>1. CASE Positions(k, list) = {}
  BY <1>1 DEF FindEntry, Positions
<1>2. ASSUME NEW i \in DOMAIN list, list[i].key = k
      PROVE  FindEntry(k, list) = i
  <2>1. Positions(k, list) = {i}
    BY <1>2 DEF Positions, OneEach
  <2>2. QED
    BY <2>1 DEF FindEntry
<1>3. QED
  BY <1>1, <1>2 DEF Positions

-----------------------------------------------------------------------------
(* The inductive invariant *)

\* t holds the exclusive lock of its bucket.
Exclusive(t) == pc[t] \in {"find", "write"}

\* A lock is held by the threads that are between taking and releasing it, and
\* not by a writer and readers at once.
InvLocks ==
  /\ \A b \in Buckets, t \in Threads :
       /\ writer[b] = t <=> Exclusive(t) /\ Bucket(t) = b
       /\ t \in readers[b] <=> pc[t] = "read" /\ Bucket(t) = b
  /\ \A b \in Buckets : writer[b] # NoThread => readers[b] = {}

\* Who is where, and with which arguments.
InvCalls ==
  \A t \in Threads :
    /\ pc[t] \in {"put_lock", "find", "write"} => t \in Putters /\ val[t] \in Values
    /\ pc[t] \in {"get_lock", "read", "got"} => t \in Getters

\* The entries of a list are of different keys, which belong there.
WellFormed(b) ==
  /\ OneEach(bucketList[b])
  /\ \A i \in DOMAIN bucketList[b] : BucketOf[bucketList[b][i].key] = b

\* What a put has found is still so when it writes.
InvFound ==
  \A t \in Threads : pc[t] = "write" => it[t] = FindEntry(key[t], bucketList[Bucket(t)])

IInv == TypeOK /\ InvLocks /\ InvCalls /\ (\A b \in Buckets : WellFormed(b)) /\ InvFound

\* findEntryFor returns 0, for no entry, or the place of one.
LEMMA FindEntryType ==
  ASSUME NEW k, TypeOK, NEW b \in Buckets, WellFormed(b)
  PROVE  /\ FindEntry(k, bucketList[b]) \in Nat
         /\ FindEntry(k, bucketList[b]) # 0 => FindEntry(k, bucketList[b]) \in 1..Len(bucketList[b])
<1>1. DOMAIN bucketList[b] = 1..Len(bucketList[b]) /\ Len(bucketList[b]) \in Nat
  BY LenProperties DEF TypeOK
<1>2. QED
  BY <1>1, FindEntryFinds DEF WellFormed

Entries == [key : Keys, val : Values]

\* `new` is `list` after the value of `entry` was written to it.
Written(list, new, entry) ==
  /\ new \in Seq(Entries)
  /\ \E i \in DOMAIN new : new[i] = entry
  /\ \A i \in DOMAIN list : i \in DOMAIN new /\ new[i].key = list[i].key
  /\ \A i \in DOMAIN list : list[i].key # entry.key => new[i] = list[i]
  /\ \A i \in DOMAIN new : i \in DOMAIN list \/ (new[i] = entry /\ \A j \in DOMAIN list : list[j].key # entry.key)
  /\ \A i, j \in DOMAIN new \ DOMAIN list : i = j

\* push_back of the first entry of its key.
LEMMA AppendWrites ==
  ASSUME NEW list \in Seq(Entries), NEW entry \in Entries,
         \A i \in DOMAIN list : list[i].key # entry.key
  PROVE  Written(list, Append(list, entry), entry)
<1> DEFINE new == Append(list, entry)
<1>1. DOMAIN list = 1..Len(list) /\ Len(list) \in Nat
  BY LenProperties
<1>2. /\ new \in Seq(Entries)
      /\ Len(new) = Len(list) + 1
      /\ \A i \in 1..Len(list) : new[i] = list[i]
      /\ new[Len(list) + 1] = entry
  BY AppendProperties
<1>3. DOMAIN new = 1..(Len(list) + 1)
  BY <1>2, LenProperties
<1> HIDE DEF new
<1>4. QED
  BY <1>1, <1>2, <1>3 DEF Written, new

\* it->second = val
LEMMA AssignmentWrites ==
  ASSUME NEW list \in Seq(Entries), NEW entry \in Entries, OneEach(list),
         NEW at \in DOMAIN list, list[at].key = entry.key
  PROVE  Written(list, [list EXCEPT ![at].val = entry.val], entry)
<1> DEFINE new == [list EXCEPT ![at] = entry]
<1>1. DOMAIN list = 1..Len(list) /\ Len(list) \in Nat
  BY LenProperties
<1>2. list[at] \in Entries
  BY <1>1, ElementOfSeq
<1>3. [list EXCEPT ![at].val = entry.val] = new
  BY <1>2 DEF Entries
<1>4. new \in Seq(Entries) /\ DOMAIN new = DOMAIN list
  BY <1>1, ExceptSeq
<1>5. \A i \in DOMAIN list : new[i] = IF i = at THEN entry ELSE list[i]
  OBVIOUS
<1> HIDE DEF new
<1>6. Written(list, new, entry)
  BY <1>4, <1>5 DEF Written, OneEach
<1>7. QED
  BY <1>3, <1>6

\* Either way the list stays well formed.
LEMMA WrittenWellFormed ==
  ASSUME NEW list, NEW new, NEW entry, NEW b, Written(list, new, entry), OneEach(list),
         BucketOf[entry.key] = b, \A i \in DOMAIN list : BucketOf[list[i].key] = b
  PROVE  OneEach(new) /\ \A i \in DOMAIN new : BucketOf[new[i].key] = b
BY DEF Written, OneEach

\* The step that writes.
LEMMA WriteWrites ==
  ASSUME IInv, NEW t \in Threads, Write(t)
  PROVE  /\ Bucket(t) \in Buckets /\ Bucket(t) = BucketOf[key[t]]
         /\ bucketList' = [bucketList EXCEPT ![Bucket(t)] = bucketList'[Bucket(t)]]
         /\ Written(bucketList[Bucket(t)], bucketList'[Bucket(t)], [key |-> key[t], val |-> val[t]])
<1> DEFINE list  == bucketList[Bucket(t)]
           entry == [key |-> key[t], val |-> val[t]]
<1>1. /\ key[t] \in Keys /\ val[t] \in Values
      /\ Bucket(t) \in Buckets /\ Bucket(t) = BucketOf[key[t]]
      /\ list \in Seq(Entries) /\ entry \in Entries
      /\ it[t] = FindEntry(key[t], list) /\ OneEach(list)
  BY TableAssumption DEF IInv, TypeOK, InvCalls, InvFound, Bucket, Entries, WellFormed, Write, Leave, Goto
<1>2. 0 \notin DOMAIN list
  BY <1>1, LenProperties
<1>3. bucketList' = [bucketList EXCEPT ![Bucket(t)] =
                       IF it[t] = 0 THEN Append(list, entry) ELSE [list EXCEPT ![it[t]].val = entry.val]]
  BY DEF Write
<1>4. bucketList \in [Buckets -> Seq(Entries)]
  BY DEF IInv, TypeOK, Entries
<1>5. entry.key = key[t]
  OBVIOUS
<1> HIDE DEF list, entry
<1>6. CASE it[t] = 0
  <2>1. Written(list, Append(list, entry), entry)
    BY <1>1, <1>2, <1>5, <1>6, FindEntryFinds, AppendWrites
  <2>2. QED
    BY <1>1, <1>3, <1>4, <1>6, <2>1 DEF list, entry
<1>7. CASE it[t] # 0
  <2>1. Written(list, [list EXCEPT ![it[t]].val = entry.val], entry)
    BY <1>1, <1>2, <1>5, <1>7, FindEntryFinds, AssignmentWrites
  <2>2. QED
    BY <1>1, <1>3, <1>4, <1>7, <2>1 DEF list, entry
<1>8. QED
  BY <1>6, <1>7

-----------------------------------------------------------------------------
(* Every step preserves the invariant *)

\* The constructor establishes the invariant: every bucket is empty.
LEMMA InitInv == Init => IInv
<1> SUFFICES ASSUME Init PROVE IInv
  OBVIOUS
<1>1. AnyKey \in Keys
  BY TableAssumption DEF AnyKey
<1>2. TypeOK
  BY <1>1 DEF Init, TypeOK, Labels
<1>3. QED
  BY <1>2, TableAssumption DEF Init, IInv, InvLocks, Exclusive, InvCalls, WellFormed, OneEach, InvFound

\* A step that leaves the lists alone.
LEMMA ListsKept ==
  ASSUME IInv, UNCHANGED bucketList
  PROVE  \A b \in Buckets : WellFormed(b)'
BY DEF IInv, WellFormed

\* Every step keeps the invariant.
LEMMA StepInv == IInv /\ [Next]_vars => IInv'
<1> SUFFICES ASSUME IInv, [Next]_vars PROVE IInv'
  OBVIOUS
<1> USE TableAssumption DEF Goto, locks, locals, Bucket
<1>0. TypeOK /\ InvLocks /\ InvCalls /\ InvFound
  BY DEF IInv
<1>a. AnyKey \in Keys /\ Threads = Putters \cup Getters
  BY DEF AnyKey, Threads
<1>1. ASSUME NEW t \in Putters, NEW k \in Keys, NEW v \in Values, PutStart(t, k, v) PROVE IInv'
  <2>1. TypeOK'
    BY <1>0, <1>1, <1>a DEF PutStart, TypeOK, Labels
  <2>2. InvLocks'
    BY <1>0, <1>1 DEF PutStart, TypeOK, InvLocks, Exclusive
  <2>3. InvCalls'
    BY <1>0, <1>1 DEF PutStart, TypeOK, InvCalls
  <2>4. InvFound'
    BY <1>0, <1>1 DEF PutStart, TypeOK, InvFound
  <2>5. QED
    BY <1>1, <2>1, <2>2, <2>3, <2>4, ListsKept DEF PutStart, IInv
<1>2. ASSUME NEW t \in Getters, NEW k \in Keys, GetStart(t, k) PROVE IInv'
  <2>1. TypeOK'
    BY <1>0, <1>2, <1>a DEF GetStart, TypeOK, Labels
  <2>2. InvLocks'
    BY <1>0, <1>2 DEF GetStart, TypeOK, InvLocks, Exclusive
  <2>3. InvCalls'
    BY <1>0, <1>2 DEF GetStart, TypeOK, InvCalls
  <2>4. InvFound'
    BY <1>0, <1>2 DEF GetStart, TypeOK, InvFound
  <2>5. QED
    BY <1>2, <2>1, <2>2, <2>3, <2>4, ListsKept DEF GetStart, IInv
<1>3. ASSUME NEW t \in Threads, PutLock(t) PROVE IInv'
  <2>1. TypeOK' /\ InvCalls' /\ InvFound'
    BY <1>0, <1>3 DEF PutLock, TypeOK, Labels, InvCalls, InvFound
  <2>2. InvLocks'
    BY <1>0, <1>3 DEF PutLock, TypeOK, InvLocks, Exclusive
  <2>3. QED
    BY <1>3, <2>1, <2>2, ListsKept DEF PutLock, IInv
<1>4. ASSUME NEW t \in Threads, GetLock(t) PROVE IInv'
  <2>1. TypeOK' /\ InvCalls' /\ InvFound'
    BY <1>0, <1>4 DEF GetLock, TypeOK, Labels, InvCalls, InvFound
  <2>2. InvLocks'
    BY <1>0, <1>4 DEF GetLock, TypeOK, InvLocks, Exclusive
  <2>3. QED
    BY <1>4, <2>1, <2>2, ListsKept DEF GetLock, IInv
<1>5. ASSUME NEW t \in Threads, Find(t) PROVE IInv'
  <2>1. FindEntry(key[t], bucketList[Bucket(t)]) \in Nat
    BY <1>0, FindEntryType DEF IInv, TypeOK
  <2>2. TypeOK'
    BY <1>0, <1>5, <2>1 DEF Find, TypeOK, Labels
  <2>3. InvLocks' /\ InvCalls'
    BY <1>0, <1>5 DEF Find, TypeOK, InvCalls, InvLocks, Exclusive
  <2>4. InvFound'
    BY <1>0, <1>5 DEF Find, TypeOK, InvFound
  <2>5. QED
    BY <1>5, <2>2, <2>3, <2>4, ListsKept DEF Find, IInv
<1>6. ASSUME NEW t \in Threads, Write(t) PROVE IInv'
  <2>1. /\ Bucket(t) \in Buckets /\ Bucket(t) = BucketOf[key[t]]
        /\ bucketList' = [bucketList EXCEPT ![Bucket(t)] = bucketList'[Bucket(t)]]
        /\ Written(bucketList[Bucket(t)], bucketList'[Bucket(t)], [key |-> key[t], val |-> val[t]])
    BY <1>6, WriteWrites
  <2>2. bucketList' \in [Buckets -> Seq(Entries)]
    <3>1. bucketList \in [Buckets -> Seq(Entries)] /\ bucketList'[Bucket(t)] \in Seq(Entries)
      BY <1>0, <2>1 DEF TypeOK, Written, Entries
    <3>2. QED
      BY <2>1, <3>1
  <2>3. TypeOK' /\ InvCalls' /\ InvLocks'
    <3>1. TypeOK'
      BY <1>0, <1>6, <1>a, <2>2 DEF Write, Leave, TypeOK, Labels, Entries
    <3>2. InvLocks'
      BY <1>0, <1>6 DEF Write, Leave, TypeOK, InvLocks, Exclusive
    <3>3. InvCalls'
      BY <1>0, <1>6 DEF Write, Leave, TypeOK, InvCalls
    <3>4. QED
      BY <3>1, <3>2, <3>3
  <2>4. \A b \in Buckets : WellFormed(b)'
    <3> SUFFICES ASSUME NEW b \in Buckets PROVE WellFormed(b)'
      OBVIOUS
    <3>1. CASE b = Bucket(t)
      BY <2>1, <3>1, WrittenWellFormed DEF IInv, WellFormed
    <3>2. CASE b # Bucket(t)
      BY <1>0, <2>1, <3>2 DEF IInv, WellFormed, TypeOK
    <3>3. QED
      BY <3>1, <3>2
  <2>5. InvFound'
    <3> SUFFICES ASSUME NEW u \in Threads, pc'[u] = "write"
                 PROVE  it'[u] = FindEntry(key'[u], bucketList'[Bucket(u)'])
      BY DEF InvFound
    <3>1. u # t /\ pc[u] = "write" /\ it'[u] = it[u] /\ key'[u] = key[u]
      BY <1>0, <1>6 DEF Write, Leave, TypeOK
    <3>2. Bucket(u) # Bucket(t) /\ Bucket(u) \in Buckets
      BY <1>0, <1>6, <3>1 DEF Write, Leave, TypeOK, InvLocks, Exclusive
    <3>3. QED
      BY <1>0, <2>1, <3>1, <3>2 DEF InvFound, TypeOK
  <2>6. QED
    BY <2>3, <2>4, <2>5 DEF IInv
<1>7. ASSUME NEW t \in Threads, Read(t) PROVE IInv'
  <2>1. res'[t] \in Values \cup {NoValue} /\ res' = [res EXCEPT ![t] = res'[t]]
    <3>1. Bucket(t) \in Buckets /\ bucketList[Bucket(t)] \in Seq(Entries) /\ WellFormed(Bucket(t))
      BY <1>0 DEF IInv, TypeOK, Entries
    <3>2. FindEntry(key[t], bucketList[Bucket(t)]) # 0 =>
            bucketList[Bucket(t)][FindEntry(key[t], bucketList[Bucket(t)])] \in Entries
      BY <1>0, <3>1, FindEntryType, ElementOfSeq
    <3>3. QED
      BY <1>0, <1>7, <3>2 DEF Read, TypeOK, Entries
  <2>2. TypeOK' /\ InvCalls' /\ InvFound'
    BY <1>0, <1>7, <2>1 DEF Read, TypeOK, Labels, InvCalls, InvFound
  <2>3. InvLocks'
    BY <1>0, <1>7 DEF Read, TypeOK, InvLocks, Exclusive
  <2>4. QED
    BY <1>7, <2>2, <2>3, ListsKept DEF Read, IInv
<1>8. ASSUME NEW t \in Threads, Return(t) PROVE IInv'
  <2>1. TypeOK'
    BY <1>0, <1>8, <1>a DEF Return, Leave, TypeOK, Labels
  <2>2. InvLocks'
    BY <1>0, <1>8 DEF Return, Leave, TypeOK, InvLocks, Exclusive
  <2>3. InvCalls'
    BY <1>0, <1>8 DEF Return, Leave, TypeOK, InvCalls
  <2>4. InvFound'
    BY <1>0, <1>8 DEF Return, Leave, TypeOK, InvFound
  <2>5. QED
    BY <1>8, <2>1, <2>2, <2>3, <2>4, ListsKept DEF Return, Leave, IInv
<1>9. CASE UNCHANGED vars
  BY <1>0, <1>9, ListsKept DEF vars, IInv, TypeOK, Labels, InvLocks, Exclusive, InvCalls, InvFound
<1>10. QED
  BY <1>1, <1>2, <1>3, <1>4, <1>5, <1>6, <1>7, <1>8, <1>9 DEF Next, Continue, Acquiring

\* The invariant always holds.
LEMMA Invariance == Spec => []IInv
<1>1. Init => IInv
  BY InitInv
<1>2. QED
  BY <1>1, StepInv, PTL DEF Spec

-----------------------------------------------------------------------------
(* Each step is one of AtomicMap, or changes nothing there *)

ops == [t \in Threads |-> AbstractOp(t)]

\* A step after which every thread but t is in the operation it was in.
Others(t) == \A u \in Threads \ {t} : AbstractOp(u)' = AbstractOp(u)

\* A step of one thread changes only that thread's abstract operation.
LEMMA OpsOf ==
  ASSUME NEW t \in Threads, Others(t)
  PROVE  ops' = [ops EXCEPT ![t] = AbstractOp(t)']
BY DEF ops, Others

\* A step that leaves the locals of other threads leaves their operations alone.
LEMMA OthersKept ==
  ASSUME NEW t \in Threads,
         \A u \in Threads \ {t} : pc'[u] = pc[u] /\ key'[u] = key[u]
                                 /\ val'[u] = val[u] /\ res'[u] = res[u]
  PROVE  Others(t)
BY DEF Others, AbstractOp

Lookup(k, list) == LET at == FindEntry(k, list) IN IF at = 0 THEN NoValue ELSE list[at].val

\* The abstract map looks each key up in its bucket.
LEMMA MapOfLooksUp == MapOf = [k \in Keys |-> Lookup(k, bucketList[BucketOf[k]])]
BY DEF MapOf, Lookup

\* A write gives its key the new value and leaves the others theirs.
LEMMA WrittenLookup ==
  ASSUME NEW list, NEW new, NEW entry, NEW k,
         Written(list, new, entry), OneEach(list), OneEach(new),
         0 \notin DOMAIN list, 0 \notin DOMAIN new
  PROVE  Lookup(k, new) = IF k = entry.key THEN entry.val ELSE Lookup(k, list)
<1>1. CASE k = entry.key
  <2>1. PICK i \in DOMAIN new : new[i] = entry
    BY DEF Written
  <2>2. FindEntry(k, new) = i /\ i # 0
    BY <1>1, <2>1, FindEntryFinds
  <2>3. QED
    BY <1>1, <2>1, <2>2 DEF Lookup
<1>2. CASE k # entry.key
  <2>1. ASSUME NEW i \in DOMAIN list, list[i].key = k
        PROVE  Lookup(k, new) = Lookup(k, list)
    <3>1. i \in DOMAIN new /\ new[i] = list[i] /\ i # 0
      BY <1>2, <2>1 DEF Written
    <3>2. FindEntry(k, list) = i
      BY <2>1, FindEntryFinds
    <3>3. FindEntry(k, new) = i
      BY <2>1, <3>1, FindEntryFinds
    <3>4. QED
      BY <3>1, <3>2, <3>3 DEF Lookup
  <2>2. CASE \A i \in DOMAIN list : list[i].key # k
    <3>1. \A i \in DOMAIN new : new[i].key # k
      BY <1>2, <2>2 DEF Written
    <3>2. FindEntry(k, list) = 0
      BY <2>2, FindEntryFinds
    <3>3. FindEntry(k, new) = 0
      BY <3>1, FindEntryFinds
    <3>4. Lookup(k, list) = NoValue
      BY <3>2 DEF Lookup
    <3>5. Lookup(k, new) = NoValue
      BY <3>3 DEF Lookup
    <3>6. QED
      BY <1>2, <3>4, <3>5
  <2>3. QED
    BY <1>2, <2>1, <2>2
<1>3. QED
  BY <1>1, <1>2

\* The empty table is the empty map.
LEMMA RefineInit == Init => Atomic!Init
<1> SUFFICES ASSUME Init PROVE Atomic!Init
  OBVIOUS
<1>1. \A k \in Keys : FindEntry(k, bucketList[BucketOf[k]]) = 0
  BY TableAssumption DEF Init, FindEntry, Positions
<1>2. MapOf = [k \in Keys |-> NoValue]
  BY <1>1 DEF MapOf
<1>3. QED
  BY <1>2 DEF Init, Atomic!Init, Atomic!Idle, Atomic!Op, AbstractOp, Threads

\* The locks and findEntry are steps within an abstract operation.
LEMMA RefineStep == IInv /\ [Next]_vars => [Atomic!Next]_(Atomic!mVars)
<1> SUFFICES ASSUME IInv, [Next]_vars PROVE Atomic!Next \/ UNCHANGED <<MapOf, ops>>
  BY DEF Atomic!mVars, ops
<1> USE TableAssumption DEF Goto, locks, locals
<1>0. TypeOK
  BY DEF IInv
<1>a. Threads = Putters \cup Getters
  BY DEF Threads
<1>b. UNCHANGED bucketList => UNCHANGED MapOf
  BY DEF MapOf
<1>1. ASSUME NEW t \in Putters, NEW k \in Keys, NEW v \in Values, PutStart(t, k, v)
      PROVE  Atomic!InvokePut(t, k, v)
  <2>1. t \in Threads /\ Others(t)
    BY <1>0, <1>1, <1>a, OthersKept DEF PutStart, TypeOK
  <2>2. AbstractOp(t) = Atomic!Idle /\ AbstractOp(t)' = Atomic!Op("put", k, v)
    BY <1>0, <1>1, <2>1 DEF PutStart, TypeOK, AbstractOp, Atomic!Op, Atomic!Idle
  <2>3. QED
    BY <1>1, <1>b, <2>1, <2>2, OpsOf DEF Atomic!InvokePut, Atomic!Become, ops, PutStart
<1>2. ASSUME NEW t \in Getters, NEW k \in Keys, GetStart(t, k)
      PROVE  Atomic!InvokeGet(t, k)
  <2>1. t \in Threads /\ Others(t)
    BY <1>0, <1>2, <1>a, OthersKept DEF GetStart, TypeOK
  <2>2. AbstractOp(t) = Atomic!Idle /\ AbstractOp(t)' = Atomic!Op("get", k, NoValue)
    BY <1>0, <1>2, <2>1 DEF GetStart, TypeOK, AbstractOp, Atomic!Op, Atomic!Idle
  <2>3. QED
    BY <1>2, <1>b, <2>1, <2>2, OpsOf DEF Atomic!InvokeGet, Atomic!Become, ops, GetStart
<1>3. ASSUME NEW t \in Threads, Write(t) PROVE t \in Putters /\ Atomic!Put(t)
  <2>1. t \in Putters /\ key[t] \in Keys
    BY <1>0, <1>3 DEF IInv, InvCalls, Write, Leave, TypeOK
  <2>2. Others(t)
    BY <1>0, <1>3, OthersKept DEF Write, Leave, TypeOK
  <2>3. /\ AbstractOp(t).kind = "put" /\ AbstractOp(t).key = key[t] /\ AbstractOp(t).val = val[t]
        /\ AbstractOp(t)' = Atomic!Idle
    BY <1>0, <1>3 DEF Write, Leave, TypeOK, AbstractOp, Atomic!Op, Atomic!Idle
  <2>4. MapOf' = [MapOf EXCEPT ![key[t]] = val[t]]
    <3>1. /\ Bucket(t) \in Buckets /\ Bucket(t) = BucketOf[key[t]]
          /\ bucketList' = [bucketList EXCEPT ![Bucket(t)] = bucketList'[Bucket(t)]]
          /\ Written(bucketList[Bucket(t)], bucketList'[Bucket(t)], [key |-> key[t], val |-> val[t]])
      BY <1>3, WriteWrites
    <3>2. \A b \in Buckets : WellFormed(b) /\ WellFormed(b)'
      BY StepInv DEF IInv
    <3>3. \A b \in Buckets : 0 \notin DOMAIN bucketList[b] /\ 0 \notin DOMAIN bucketList'[b]
      <4>1. \A b \in Buckets : bucketList[b] \in Seq(Entries)
        BY <1>0 DEF TypeOK, Entries
      <4>2. \A b \in Buckets : bucketList'[b] \in Seq(Entries)
        BY StepInv DEF IInv, TypeOK, Entries
      <4>3. QED
        BY <4>1, <4>2, LenProperties
    <3>4. ASSUME NEW k \in Keys
          PROVE  Lookup(k, bucketList'[BucketOf[k]]) =
                   IF k = key[t] THEN val[t] ELSE Lookup(k, bucketList[BucketOf[k]])
      <4>1. CASE BucketOf[k] = Bucket(t)
        BY <3>1, <3>2, <3>3, <4>1, WrittenLookup DEF WellFormed
      <4>2. CASE BucketOf[k] # Bucket(t)
        BY <1>0, <3>1, <4>2 DEF TypeOK
      <4>3. QED
        BY <4>1, <4>2
    <3>5. MapOf' = [k \in Keys |-> Lookup(k, bucketList'[BucketOf[k]])]
      BY DEF MapOf, Lookup
    <3>6. QED
      BY <2>1, <3>4, <3>5, MapOfLooksUp
  <2>5. QED
    BY <1>3, <2>1, <2>2, <2>3, <2>4, OpsOf DEF Atomic!Put, Atomic!Become, ops
<1>4. ASSUME NEW t \in Threads, Read(t) PROVE t \in Getters /\ Atomic!Get(t)
  <2>1. t \in Getters /\ key[t] \in Keys
    BY <1>0, <1>4 DEF IInv, InvCalls, Read, TypeOK
  <2>2. Others(t)
    BY <1>0, <1>4, OthersKept DEF Read, TypeOK
  <2>3. res'[t] = MapOf[key[t]]
    BY <1>0, <1>4, <2>1 DEF Read, TypeOK, MapOf, Bucket
  <2>4. /\ AbstractOp(t).kind = "get" /\ AbstractOp(t).key = key[t]
        /\ AbstractOp(t)' = Atomic!Op("got", key[t], MapOf[key[t]])
    BY <1>0, <1>4, <2>3 DEF Read, TypeOK, AbstractOp, Atomic!Op
  <2>5. QED
    BY <1>4, <1>b, <2>1, <2>2, <2>4, OpsOf DEF Atomic!Get, Atomic!Become, ops, Read
<1>5. ASSUME NEW t \in Threads, Return(t) PROVE t \in Getters /\ Atomic!Return(t)
  <2>1. t \in Getters /\ Others(t)
    BY <1>0, <1>5, OthersKept DEF IInv, InvCalls, Return, Leave, TypeOK
  <2>2. AbstractOp(t).kind = "got" /\ AbstractOp(t)' = Atomic!Idle
    BY <1>0, <1>5 DEF Return, Leave, TypeOK, AbstractOp, Atomic!Op, Atomic!Idle
  <2>3. QED
    BY <1>5, <1>b, <2>1, <2>2, OpsOf DEF Atomic!Return, Atomic!Become, ops, Return
<1>6. ASSUME NEW t \in Threads, PutLock(t) \/ GetLock(t) \/ Find(t)
      PROVE  UNCHANGED <<MapOf, ops>>
  <2>1. Others(t)
    BY <1>0, <1>6, OthersKept DEF PutLock, GetLock, Find, TypeOK
  <2>2. AbstractOp(t)' = AbstractOp(t)
    BY <1>0, <1>6 DEF PutLock, GetLock, Find, TypeOK, AbstractOp
  <2>3. QED
    BY <1>6, <1>b, <2>1, <2>2 DEF Others, ops, PutLock, GetLock, Find
<1>7. CASE UNCHANGED vars
  BY <1>7, <1>b DEF vars, ops, AbstractOp
<1>8. QED
  BY <1>1, <1>2, <1>3, <1>4, <1>5, <1>6, <1>7, <1>a DEF Next, Continue, Acquiring, Atomic!Next

-----------------------------------------------------------------------------
(* The theorems *)

\* While a put searches or changes a bucket, nobody else reads or changes it.
THEOREM RaceFree == Spec => []NoDataRace
<1>1. IInv => NoDataRace
  <2> SUFFICES ASSUME IInv, NEW t \in Threads, NEW u \in Threads, t # u, Bucket(t) = Bucket(u),
                      Exclusive(t)
               PROVE  pc[u] \notin {"find", "write", "read"}
    BY DEF NoDataRace, Exclusive
  <2>1. Bucket(t) \in Buckets /\ writer[Bucket(t)] = t /\ t # NoThread
    BY TableAssumption DEF IInv, TypeOK, InvLocks, Bucket
  <2>2. QED
    BY <2>1 DEF IInv, InvLocks, Exclusive
<1>2. QED
  BY <1>1, Invariance, PTL

\* However puts of one key overlap, the table has at most one entry for it, in its
\* own bucket.
THEOREM EntriesUnique == Spec => []OneEntryPerKey
<1>1. IInv => OneEntryPerKey
  <2> SUFFICES ASSUME IInv, NEW b \in Buckets, NEW k \in Keys
               PROVE  Cardinality(Positions(k, bucketList[b])) <= IF BucketOf[k] = b THEN 1 ELSE 0
    BY DEF OneEntryPerKey, IInv
  <2>1. OneEach(bucketList[b]) /\ \A i \in DOMAIN bucketList[b] : BucketOf[bucketList[b][i].key] = b
    BY DEF IInv, WellFormed
  <2>2. CASE Positions(k, bucketList[b]) = {}
    BY <2>2, FS_EmptySet
  <2>3. CASE \E i : i \in Positions(k, bucketList[b])
    <3>1. PICK i : i \in Positions(k, bucketList[b])
      BY <2>3
    <3>2. Positions(k, bucketList[b]) = {i} /\ BucketOf[k] = b
      BY <2>1, <3>1 DEF Positions, OneEach
    <3>3. Cardinality(Positions(k, bucketList[b])) = 1
      BY <3>2, FS_Singleton
    <3>4. QED
      BY <3>2, <3>3
  <2>4. QED
    BY <2>2, <2>3
<1>2. QED
  BY <1>1, Invariance, PTL

\* put and get are the atomic operations of a map.
THEOREM Linearizable == Spec => ImplementsMap
<1>1. Init => Atomic!Init
  BY RefineInit
<1>2. QED
  BY <1>1, RefineStep, Invariance, PTL DEF Spec, ImplementsMap, Atomic!Spec
=============================================================================
