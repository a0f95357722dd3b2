--------------------------- MODULE PoolInfoCache ---------------------------
(***************************************************************************)
(* The cache of ticket pool info by block hash (PoolInfoCache of           *)
(* stakedb/stakedb.go): a map and a queue of hashes in the order in which  *)
(* they were set.  Every call runs under the cache's mutex, so one call is *)
(* one step.  connectBlock sets the hash of each block it connects and     *)
(* ChargePoolInfoCache sets a run of recent hashes again, so a hash may be *)
(* set while it is cached.                                                 *)
(***************************************************************************)
EXTENDS Integers, Sequences, FiniteSets

CONSTANTS Hashes,   \* block hashes
          Infos,    \* ticket pool infos
          MaxSizes  \* the sizes that callers ask for

ASSUME CacheAssumption == MaxSizes \subseteq Nat /\ \E n \in MaxSizes : n >= 2

VARIABLES poolInfo,     \* the map
          expireQueue,  \* hashes, the oldest first
          maxSize,      \* the capacity
          justSet       \* the hash that the last call set, none if it was no Set

vars == <<poolInfo, expireQueue, maxSize, justSet>>

\* Taking n hashes off the queue deletes each of them from the map.
\* Mutant: the hashes leave the queue only.
ExpireQueueOnly(n, map) == map

\* Mutant: the map loses the newest hashes.
ExpireNewest(n, map) ==
    [h \in DOMAIN map \ {expireQueue[Len(expireQueue) + 1 - i] : i \in 1 .. n} |-> map[h]]

Expire(n, map) ==
    [h \in DOMAIN map \ {expireQueue[i] : i \in 1 .. n} |-> map[h]]

\* NewPoolInfoCache refuses a size below 2.
Init ==
    /\ poolInfo = [h \in {} |-> {}]
    /\ expireQueue = <<>>
    /\ maxSize \in {n \in MaxSizes : n >= 2}
    /\ justSet = {}

Stored(h, p) == [x \in DOMAIN poolInfo \cup {h} |-> IF x = h THEN p ELSE poolInfo[x]]

\* Set stores first and evicts then, before it queues the hash.
Set(h, p) ==
    /\ LET n == IF Len(expireQueue) + 1 >= maxSize THEN 1 ELSE 0
       IN /\ poolInfo' = Expire(n, Stored(h, p))
          /\ expireQueue' = Append(SubSeq(expireQueue, n + 1, Len(expireQueue)), h)
    /\ justSet' = {h}
    /\ UNCHANGED maxSize

SetCapacity(size) ==
    /\ size >= 2
    /\ maxSize' = size
    /\ LET n == IF Len(expireQueue) >= size THEN Len(expireQueue) - size + 1 ELSE 0
       IN /\ poolInfo' = Expire(n, poolInfo)
          /\ expireQueue' = SubSeq(expireQueue, n + 1, Len(expireQueue))
    /\ justSet' = {}

Next ==
    \/ \E h \in Hashes, p \in Infos : Set(h, p)
    \/ \E size \in MaxSizes : SetCapacity(size)

Spec == Init /\ [][Next]_vars

-----------------------------------------------------------------------------
TypeOK ==
    /\ DOMAIN poolInfo \subseteq Hashes /\ poolInfo \in [DOMAIN poolInfo -> Infos]
    /\ expireQueue \in Seq(Hashes)
    /\ maxSize \in MaxSizes /\ maxSize >= 2
    /\ justSet \subseteq Hashes

\* Every cached hash is still queued, however often it was set again, so that
\* eviction can reach it, and the queue is shorter than the capacity: the map
\* cannot grow past maxSize, and Set and SetCapacity never take the head of an
\* empty queue, which would panic.
Evictable ==
    /\ DOMAIN poolInfo \subseteq {expireQueue[i] : i \in DOMAIN expireQueue}
    /\ Len(expireQueue) < maxSize

\* A hash that was not queued before is cached once Set returns, and no call
\* evicts a hash while an older one stays: what is lost is a prefix of the
\* queue (Set, SetCapacity).  (Of a hash that was queued, Set may evict the
\* entry it has just stored: its older place in the queue decides.)
OldestFirst ==
    [][/\ justSet' \ {expireQueue[i] : i \in DOMAIN expireQueue} \subseteq DOMAIN poolInfo'
       /\ \A h \in DOMAIN poolInfo \ DOMAIN poolInfo' :
             \E i \in DOMAIN expireQueue :
                /\ expireQueue[i] = h
                /\ \A j \in 1 .. i : expireQueue[j] \notin DOMAIN poolInfo']_vars
=============================================================================
