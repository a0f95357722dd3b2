------------------------ MODULE PoolInfoCacheProofs ------------------------
(***************************************************************************)
(* TypeOK and Evictable together are inductive: what Set evicts is the     *)
(* head of a queue that Evictable and maxSize >= 2 show to be non-empty,   *)
(* and a hash is dropped from the map with each of its places in the queue.*)
(***************************************************************************)
EXTENDS PoolInfoCache, TLAPS

IInv == TypeOK /\ Evictable

\* Both calls leave in the map only hashes that the shortened queue still has.
LEMMA ExpireQueue ==
    ASSUME TypeOK, NEW n \in 0 .. Len(expireQueue), NEW map
    PROVE  LET q == SubSeq(expireQueue, n + 1, Len(expireQueue))
           IN /\ q \in Seq(Hashes)
              /\ Len(q) = Len(expireQueue) - n
              /\ \A i \in DOMAIN expireQueue :
                    expireQueue[i] \in DOMAIN Expire(n, map)
                       => expireQueue[i] \in {q[j] : j \in DOMAIN q}
<1> DEFINE q == SubSeq(expireQueue, n + 1, Len(expireQueue))
<1>1. expireQueue \in Seq(Hashes) /\ Len(expireQueue) \in Nat
  BY DEF TypeOK
<1>2. /\ q \in Seq(Hashes)
      /\ Len(q) = Len(expireQueue) - n
      /\ \A j \in 1 .. Len(expireQueue) - n : q[j] = expireQueue[n + j]
  BY <1>1
<1>3. ASSUME NEW i \in DOMAIN expireQueue,
             expireQueue[i] \in DOMAIN Expire(n, map)
      PROVE  expireQueue[i] \in {q[j] : j \in DOMAIN q}
  <2>1. i \in 1 .. Len(expireQueue)
    BY <1>1
  <2>2. i \notin 1 .. n
    BY <1>3 DEF Expire
  <2>3. i - n \in DOMAIN q /\ q[i - n] = expireQueue[i]
    BY <1>1, <1>2, <2>1, <2>2
  <2> QED
    BY <2>3
<1> QED
  BY <1>2, <1>3

\* The cache as NewPoolInfoCache makes it satisfies the invariant.
LEMMA InitIInv == Init => IInv
<1> SUFFICES ASSUME Init PROVE IInv
  OBVIOUS
<1>1. DOMAIN poolInfo = {}
  BY DEF Init
<1>2. poolInfo \in [DOMAIN poolInfo -> Infos]
  BY DEF Init
<1>3. expireQueue \in Seq(Hashes) /\ Len(expireQueue) = 0
  BY DEF Init
<1>4. maxSize \in MaxSizes /\ maxSize >= 2 /\ justSet \subseteq Hashes
  BY DEF Init
<1>5. TypeOK
  BY <1>1, <1>2, <1>3, <1>4 DEF TypeOK
<1>6. Len(expireQueue) < maxSize
  BY <1>3, <1>4, CacheAssumption
<1> QED
  BY <1>1, <1>5, <1>6 DEF IInv, Evictable

\* A Set, of a hash that is queued already or not, keeps the invariant.
LEMMA SetStep ==
    ASSUME IInv, NEW h \in Hashes, NEW p \in Infos, Set(h, p)
    PROVE  IInv'
<1> DEFINE n == IF Len(expireQueue) + 1 >= maxSize THEN 1 ELSE 0
           q == SubSeq(expireQueue, n + 1, Len(expireQueue))
<1>1. expireQueue \in Seq(Hashes) /\ Len(expireQueue) \in Nat /\ maxSize \in Nat /\ maxSize >= 2
  BY CacheAssumption DEF IInv, TypeOK
<1>2. n \in 0 .. Len(expireQueue)
  BY <1>1
<1>3. /\ poolInfo' = Expire(n, Stored(h, p)) /\ expireQueue' = Append(q, h)
      /\ justSet' = {h} /\ maxSize' = maxSize
  BY DEF Set
<1> HIDE DEF n
<1>4. /\ q \in Seq(Hashes)
      /\ Len(q) = Len(expireQueue) - n
      /\ \A i \in DOMAIN expireQueue :
            expireQueue[i] \in DOMAIN Expire(n, Stored(h, p))
               => expireQueue[i] \in {q[j] : j \in DOMAIN q}
  BY <1>2, ExpireQueue, Zenon DEF IInv
<1> HIDE DEF q
<1>5. /\ expireQueue' \in Seq(Hashes) /\ Len(expireQueue') = Len(q) + 1
      /\ \A j \in DOMAIN q : expireQueue'[j] = q[j] /\ j \in DOMAIN expireQueue'
      /\ expireQueue'[Len(q) + 1] = h /\ Len(q) + 1 \in DOMAIN expireQueue'
  BY <1>3, <1>4
<1>6. Len(expireQueue') < maxSize'
  BY <1>1, <1>3, <1>4, <1>5 DEF n, IInv, Evictable
<1>7. DOMAIN poolInfo' \subseteq DOMAIN poolInfo \cup {h}
  BY <1>3 DEF Expire, Stored
<1>8. TypeOK'
  <2>1. \A x \in DOMAIN poolInfo' : poolInfo'[x] \in Infos
    BY <1>3 DEF Expire, Stored, IInv, TypeOK
  <2>2. poolInfo' = [x \in DOMAIN poolInfo' |-> poolInfo'[x]]
    BY <1>3 DEF Expire
  <2>3. poolInfo' \in [DOMAIN poolInfo' -> Infos]
    BY <2>1, <2>2
  <2> QED
    BY <1>3, <1>5, <1>7, <2>3 DEF IInv, TypeOK
<1>9. ASSUME NEW x \in DOMAIN poolInfo'
      PROVE  x \in {expireQueue'[i] : i \in DOMAIN expireQueue'}
  <2>1. CASE x = h
    BY <1>5, <2>1
  <2>2. CASE x /= h
    <3>1. x \in DOMAIN poolInfo
      BY <1>7, <2>2
    <3>2. PICK i \in DOMAIN expireQueue : expireQueue[i] = x
      BY <3>1 DEF IInv, Evictable
    <3>3. PICK j \in DOMAIN q : q[j] = x
      BY <1>3, <1>4, <3>2
    <3> QED
      BY <1>5, <3>3
  <2> QED
    BY <2>1, <2>2
<1> QED
  BY <1>6, <1>8, <1>9 DEF IInv, Evictable

\* A change of capacity keeps the invariant.
LEMMA SetCapacityStep ==
    ASSUME IInv, NEW size \in MaxSizes, SetCapacity(size)
    PROVE  IInv'
<1> DEFINE n == IF Len(expireQueue) >= size THEN Len(expireQueue) - size + 1 ELSE 0
           q == SubSeq(expireQueue, n + 1, Len(expireQueue))
<1>1. expireQueue \in Seq(Hashes) /\ Len(expireQueue) \in Nat /\ size \in Nat /\ size >= 2
  BY CacheAssumption DEF IInv, TypeOK, SetCapacity
<1>2. n \in 0 .. Len(expireQueue)
  BY <1>1
<1>3. /\ poolInfo' = Expire(n, poolInfo) /\ expireQueue' = q
      /\ justSet' = {} /\ maxSize' = size
  BY DEF SetCapacity
<1> HIDE DEF n
<1>4. /\ q \in Seq(Hashes)
      /\ Len(q) = Len(expireQueue) - n
      /\ \A i \in DOMAIN expireQueue :
            expireQueue[i] \in DOMAIN Expire(n, poolInfo)
               => expireQueue[i] \in {q[j] : j \in DOMAIN q}
  BY <1>2, ExpireQueue, Zenon DEF IInv
<1> HIDE DEF q
<1>5. Len(expireQueue') < maxSize'
  BY <1>1, <1>3, <1>4 DEF n
<1>6. DOMAIN poolInfo' \subseteq DOMAIN poolInfo
  BY <1>3 DEF Expire
<1>7. TypeOK'
  <2>1. \A x \in DOMAIN poolInfo' : poolInfo'[x] \in Infos
    BY <1>3 DEF Expire, IInv, TypeOK
  <2>2. poolInfo' = [x \in DOMAIN poolInfo' |-> poolInfo'[x]]
    BY <1>3 DEF Expire
  <2>3. poolInfo' \in [DOMAIN poolInfo' -> Infos]
    BY <2>1, <2>2
  <2> QED
    BY <1>1, <1>3, <1>4, <1>6, <2>3 DEF IInv, TypeOK
<1>8. \A x \in DOMAIN poolInfo' : x \in {expireQueue'[i] : i \in DOMAIN expireQueue'}
  BY <1>3, <1>4, <1>6 DEF IInv, Evictable
<1> QED
  BY <1>5, <1>7, <1>8 DEF IInv, Evictable

\* For every set of hashes and capacities and any order of Set and SetCapacity,
\* the cache keeps its types, every cached hash can still be evicted, and the
\* queue stays shorter than the capacity.
THEOREM CacheBounded == Spec => [](TypeOK /\ Evictable)
<1>1. IInv /\ [Next]_vars => IInv'
  <2> SUFFICES ASSUME IInv, [Next]_vars PROVE IInv'
    OBVIOUS
  <2>1. ASSUME NEW h \in Hashes, NEW p \in Infos, Set(h, p) PROVE IInv'
    BY <2>1, SetStep
  <2>2. ASSUME NEW size \in MaxSizes, SetCapacity(size) PROVE IInv'
    BY <2>2, SetCapacityStep
  <2>3. CASE UNCHANGED vars
    BY <2>3 DEF vars, IInv, TypeOK, Evictable
  <2> QED
    BY <2>1, <2>2, <2>3 DEF Next
<1> QED
  BY <1>1, InitIInv, PTL DEF Spec, IInv

\* Taking n hashes off the queue loses from the map only hashes of that prefix,
\* and none of the prefix stays.
LEMMA ExpirePrefix ==
    ASSUME TypeOK, NEW n \in 0 .. Len(expireQueue), NEW map
    PROVE  /\ \A x \in DOMAIN map \ {expireQueue[i] : i \in DOMAIN expireQueue} :
                x \in DOMAIN Expire(n, map)
           /\ \A x \in DOMAIN map \ DOMAIN Expire(n, map) :
                \E i \in DOMAIN expireQueue :
                   /\ expireQueue[i] = x
                   /\ \A j \in 1 .. i : expireQueue[j] \notin DOMAIN Expire(n, map)
<1>1. expireQueue \in Seq(Hashes) /\ DOMAIN expireQueue = 1 .. Len(expireQueue)
      /\ Len(expireQueue) \in Nat
  BY DEF TypeOK
<1>2. DOMAIN Expire(n, map) = DOMAIN map \ {expireQueue[i] : i \in 1 .. n}
  BY DEF Expire
<1>3. 1 .. n \subseteq DOMAIN expireQueue
  BY <1>1
<1>4. ASSUME NEW x \in DOMAIN map \ DOMAIN Expire(n, map)
      PROVE  \E i \in DOMAIN expireQueue :
                /\ expireQueue[i] = x
                /\ \A j \in 1 .. i : expireQueue[j] \notin DOMAIN Expire(n, map)
  <2>1. PICK i \in 1 .. n : expireQueue[i] = x
    BY <1>2, <1>4
  <2>2. 1 .. i \subseteq 1 .. n
    BY <1>1
  <2>3. \A j \in 1 .. i : expireQueue[j] \notin DOMAIN Expire(n, map)
    BY <1>2, <2>2, Zenon
  <2> QED
    BY <1>3, <2>1, <2>3, Zenon
<1> QED
  BY <1>2, <1>3, <1>4, Zenon

\* For every set of hashes and capacities and any order of Set and SetCapacity,
\* a hash that was not queued is cached when Set returns, and what a call loses
\* from the map is a prefix of the queue.
THEOREM EvictsOldestFirst == Spec => OldestFirst
<1> DEFINE Fresh == justSet' \ {expireQueue[i] : i \in DOMAIN expireQueue} \subseteq DOMAIN poolInfo'
           Prefix == \A h \in DOMAIN poolInfo \ DOMAIN poolInfo' :
                       \E i \in DOMAIN expireQueue :
                          /\ expireQueue[i] = h
                          /\ \A j \in 1 .. i : expireQueue[j] \notin DOMAIN poolInfo'
<1>1. ASSUME TypeOK, Evictable, NEW h \in Hashes, NEW p \in Infos, Set(h, p)
      PROVE  Fresh /\ Prefix
  <2> DEFINE n == IF Len(expireQueue) + 1 >= maxSize THEN 1 ELSE 0
  <2>1. n \in 0 .. Len(expireQueue)
    BY <1>1, CacheAssumption DEF TypeOK
  <2>2. poolInfo' = Expire(n, Stored(h, p)) /\ justSet' = {h}
    BY <1>1 DEF Set
  <2>3. DOMAIN Stored(h, p) = DOMAIN poolInfo \cup {h}
    BY DEF Stored
  <2> HIDE DEF n
  <2>4. /\ \A x \in DOMAIN Stored(h, p) \ {expireQueue[i] : i \in DOMAIN expireQueue} :
             x \in DOMAIN poolInfo'
        /\ \A x \in DOMAIN Stored(h, p) \ DOMAIN poolInfo' :
             \E i \in DOMAIN expireQueue :
                /\ expireQueue[i] = x
                /\ \A j \in 1 .. i : expireQueue[j] \notin DOMAIN poolInfo'
    BY <1>1, <2>1, <2>2, ExpirePrefix, Zenon
  <2>5. Fresh
    BY <2>2, <2>3, <2>4, Zenon
  <2> QED
    BY <2>3, <2>4, <2>5, Zenon
<1>2. ASSUME TypeOK, NEW size \in MaxSizes, SetCapacity(size)
      PROVE  Fresh /\ Prefix
  <2> DEFINE n == IF Len(expireQueue) >= size THEN Len(expireQueue) - size + 1 ELSE 0
  <2>1. n \in 0 .. Len(expireQueue)
    BY <1>2, CacheAssumption DEF TypeOK, SetCapacity
  <2>2. poolInfo' = Expire(n, poolInfo) /\ justSet' = {}
    BY <1>2 DEF SetCapacity
  <2> HIDE DEF n
  <2>3. Prefix
    BY <1>2, <2>1, <2>2, ExpirePrefix, Zenon
  <2> QED
    BY <2>2, <2>3, Zenon
<1>3. TypeOK /\ Evictable /\ [Next]_vars => [Fresh /\ Prefix]_vars
  BY <1>1, <1>2 DEF Next
<1> QED
  BY <1>3, CacheBounded, PTL DEF Spec, OldestFirst
=============================================================================
