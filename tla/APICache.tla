------------------------------ MODULE APICache ------------------------------
(***************************************************************************)
(* The API's block cache (api/types/apicache.go) and the chain database's  *)
(* use of it (BlockSummary, BlockSummaryByHash, BlockSize): block          *)
(* summaries and stake infos by hash, an index from height to hash, and a  *)
(* bounded heap that decides which block makes place for a new one.        *)
(*                                                                         *)
(* The cache and the heap hold different objects for the same block: the   *)
(* cache's own is never in the heap (its heapIdx stays -1), so what readers*)
(* do to it is not seen by the heap's order and is left out.               *)
(***************************************************************************)
EXTENDS Integers, Sequences, FiniteSets, SequencesExt

CONSTANTS Blocks,    \* block hashes
          HeightOf,  \* [Blocks -> Nat]
          Capacity,  \* apic.capacity
          Readers,   \* requests served at the same time
          MaxNow,    \* bound of the clock, in half milliseconds
          MaxStores  \* bound of the stores

Bin == 2     \* MakeLessByAccessTimeThenCount(1): one millisecond
NoBlock == "none"
Heights == { HeightOf[b] : b \in Blocks }

VARIABLES apic,   \* the cache: enabled, blockCache, MainchainBlocks
          pq,     \* its expireQueue: bh, minHeight, maxHeight, needsReheap
          asks,   \* what each request read of the database and will store
          main,   \* the main chain: the block of each height
          now, stores

apiVars == <<apic, pq, asks, main, now, stores>>

APIInit ==
    /\ apic = [enabled |-> FALSE, blockCache |-> <<>>, MainchainBlocks |-> <<>>]
    /\ pq = [bh |-> <<>>, minHeight |-> 99, maxHeight |-> -1, needsReheap |-> FALSE]
    /\ asks = [r \in Readers |-> NoBlock]
    /\ main \in { m \in [Heights -> Blocks] : \A h \in Heights : HeightOf[m[h]] = h }
    /\ now = 0 /\ stores = 0

-----------------------------------------------------------------------------
(* The heap.  An entry is [hash, accesses, time]; bh[1] is the top.         *)

\* MakeLessByAccessTimeThenCount; Go's division truncates towards zero.
Less(x, y) ==
    LET d == x.time - y.time
    IN  IF d < Bin /\ -d < Bin THEN x.accesses < y.accesses ELSE d < 0

SwapAt(s, i, j) == [s EXCEPT ![i] = s[j], ![j] = s[i]]

\* heap.up, heap.down and heap.Init of the Go library, at positions counted from 1
Heaps == Seq([hash : Blocks, accesses : Nat, time : Nat])

Up(bh, at) ==
    LET up[s \in Heaps, i \in Nat] ==
          IF i = 1 \/ ~Less(s[i], s[i \div 2]) THEN s
          ELSE up[SwapAt(s, i, i \div 2), i \div 2]
    IN  up[bh, at]

Down(bh, at) ==
    LET down[s \in Heaps, i \in Nat] ==
          LET l == 2 * i
              j == IF l < Len(s) /\ Less(s[l + 1], s[l]) THEN l + 1 ELSE l
          IN  IF l > Len(s) \/ ~Less(s[j], s[i]) THEN s ELSE down[SwapAt(s, i, j), j]
    IN  down[bh, at]

Heapified(bh) ==
    LET n == Len(bh) \div 2
    IN  FoldLeft(LAMBDA s, k : Down(s, n + 1 - k), bh, [k \in 1 .. n |-> k])

\* newCachedBlock followed by Access
Fresh(b) == [hash |-> b, accesses |-> 1, time |-> now]

updateMinMax(q, h) ==
    [q EXCEPT !.maxHeight = IF h > @ THEN h ELSE @,
              !.minHeight = IF h < @ THEN h ELSE @]

\* RescanMinMax goes over every block of the heap and resets nothing
RescanMinMax(q) == FoldLeft(LAMBDA a, e : updateMinMax(a, HeightOf[e.hash]), q, q.bh)

RescanMinMaxForUpdate(q, add, remove) ==
    updateMinMax(IF \/ remove = q.minHeight /\ add >= remove
                    \/ remove = q.maxHeight /\ add <= remove
                 THEN RescanMinMax(q) ELSE q, add)

\* UpdateBlock of the top, as Insert calls it
UpdateBlock(q, b) ==
    RescanMinMaxForUpdate([q EXCEPT !.bh = Down([q.bh EXCEPT ![1] = Fresh(b)], 1)],
                          HeightOf[b], HeightOf[q.bh[1].hash])

Pushed(q, b) ==
    updateMinMax([q EXCEPT !.bh = Up(Append(q.bh, Fresh(b)), Len(q.bh) + 1)], HeightOf[b])

\* Insert: what becomes of the heap, whether the block was added and which
\* block it replaced.  A block within the millisecond of the top's is refused.
Insert(q, b) ==
    CASE Capacity = 0 -> [pq |-> q, wasAdded |-> FALSE, removed |-> NoBlock]
      [] Capacity > 0 /\ Capacity <= Len(q.bh) ->
           IF Less(q.bh[1], Fresh(b))
           THEN [pq |-> UpdateBlock(q, b), wasAdded |-> TRUE, removed |-> q.bh[1].hash]
           ELSE [pq |-> q, wasAdded |-> FALSE, removed |-> NoBlock]
      [] OTHER -> [pq |-> Pushed(q, b), wasAdded |-> TRUE, removed |-> NoBlock]

-----------------------------------------------------------------------------
(* The cache.                                                              *)

Without(f, ks) == [k \in (DOMAIN f) \ ks |-> f[k]]
With(f, k, v) == [x \in (DOMAIN f) \cup {k} |-> IF x = k THEN v ELSE f[x]]

\* The block evicted leaves the cache, and whatever block its height leads
\* to leaves the index.
EvictedOnlyByHash(c, b) == [c EXCEPT !.blockCache = Without(@, {b})]
Evicted(c, b) ==
    IF b = NoBlock THEN c
    ELSE [c EXCEPT !.blockCache = Without(@, {b}),
                   !.MainchainBlocks = Without(@, {HeightOf[b]})]

\* StoreBlockSummary and StoreStakeInfo: part is the half that is stored
Stored(b, part) ==
    LET c == apic.blockCache
        i == Insert(pq, b)
        e == Evicted(apic, i.removed)
    IN  CASE ~apic.enabled -> UNCHANGED <<apic, pq>>
          [] apic.enabled /\ b \in DOMAIN c ->
               /\ apic' = [apic EXCEPT !.blockCache[b] = @ \cup {part}]
               /\ UNCHANGED pq
          [] OTHER ->
               /\ pq' = i.pq
               /\ apic' = IF ~i.wasAdded THEN e
                          ELSE [e EXCEPT !.blockCache = With(@, b, {part}),
                                         !.MainchainBlocks = With(@, HeightOf[b], b)]

StoreStakeInfo(b) ==
    /\ stores < MaxStores
    /\ stores' = stores + 1
    /\ Stored(b, "stakeInfo")
    /\ UNCHANGED <<asks, main, now>>

\* getCachedBlockByHash: an access makes the watcher rebuild the heap
Accessed(bs) ==
    pq' = IF bs \cap DOMAIN apic.blockCache = {} THEN pq ELSE [pq EXCEPT !.needsReheap = TRUE]

\* GetCachedBlockByHeight finds no more than the index leads to
ByHeight(h) == IF h \in DOMAIN apic.MainchainBlocks THEN {apic.MainchainBlocks[h]} ELSE {}

HasSummary(bs) == \E b \in bs \cap DOMAIN apic.blockCache : "summary" \in apic.blockCache[b]

\* ChainDB.BlockSummary(h): the cache by height, else the database's main
\* chain block of the height, whose summary is stored afterwards.
BlockSummary(r, h) ==
    /\ asks[r] = NoBlock /\ stores < MaxStores
    /\ apic.enabled
    /\ Accessed(ByHeight(h))
    /\ asks' = [asks EXCEPT ![r] = IF HasSummary(ByHeight(h)) THEN NoBlock ELSE main[h]]
    /\ UNCHANGED <<apic, main, now, stores>>

\* ChainDB.BlockSummaryByHash(b), of the main chain or not
BlockSummaryByHash(r, b) ==
    /\ asks[r] = NoBlock /\ stores < MaxStores
    /\ apic.enabled
    /\ Accessed({b})
    /\ asks' = [asks EXCEPT ![r] = IF HasSummary({b}) THEN NoBlock ELSE b]
    /\ UNCHANGED <<apic, main, now, stores>>

\* The request stores what it read; others ran since.
StoreBlockSummary(r) ==
    /\ asks[r] # NoBlock
    /\ stores < MaxStores
    /\ stores' = stores + 1
    /\ Stored(asks[r], "summary")
    /\ asks' = [asks EXCEPT ![r] = NoBlock]
    /\ UNCHANGED <<main, now>>

\* removeCachedBlock: RemoveBlock finds the cache's object in no heap, and
\* the block itself is deleted only when its hash cannot be parsed; what is
\* left is the index entry of its height.
RemoveCachedBlock(b) ==
    /\ b \in DOMAIN apic.blockCache
    /\ apic' = [apic EXCEPT !.MainchainBlocks = Without(@, {HeightOf[b]})]
    /\ UNCHANGED <<pq, asks, main, now, stores>>

RemoveCachedBlockByHeight(h) ==
    /\ h \in DOMAIN apic.MainchainBlocks
    /\ Accessed(ByHeight(h))
    /\ apic' = [apic EXCEPT !.MainchainBlocks = Without(@, {h})]
    /\ UNCHANGED <<asks, main, now, stores>>

\* Enable, Disable
SetEnabled ==
    /\ apic' = [apic EXCEPT !.enabled = ~@]
    /\ UNCHANGED <<pq, asks, main, now, stores>>

\* WatchPriorityQueue, some time after the last access
Reheap ==
    /\ pq.needsReheap
    /\ pq' = [pq EXCEPT !.needsReheap = FALSE, !.bh = Heapified(pq.bh)]
    /\ UNCHANGED <<apic, asks, main, now, stores>>

\* A reorganization of the main chain; the cache is not told.
Reorg(h) ==
    /\ \E b \in Blocks \ {main[h]} : HeightOf[b] = h /\ main' = [main EXCEPT ![h] = b]
    /\ UNCHANGED <<apic, pq, asks, now, stores>>

Tick ==
    /\ now < MaxNow
    /\ now' = now + 1
    /\ UNCHANGED <<apic, pq, asks, main, stores>>

APINext ==
    \/ Tick \/ SetEnabled \/ Reheap
    \/ \E h \in Heights : RemoveCachedBlockByHeight(h) \/ Reorg(h)
    \/ \E b \in Blocks : StoreStakeInfo(b) \/ RemoveCachedBlock(b)
    \/ \E r \in Readers : \/ StoreBlockSummary(r)
                          \/ \E h \in Heights : BlockSummary(r, h)
                          \/ \E b \in Blocks : BlockSummaryByHash(r, b)

APISpec == APIInit /\ [][APINext]_apiVars

-----------------------------------------------------------------------------
(* Whatever the requests stored, evicted and removed in whatever order, the *)
(* cache and the heap hold the same blocks, each once and never more than   *)
(* the capacity; an index entry leads to a cached block of its height, so   *)
(* that a summary found by height is of that height; and the heap's lowest  *)
(* and highest height enclose its blocks.                                   *)
CacheIsQueue ==
    /\ Len(pq.bh) <= Capacity
    /\ IsInjective([i \in DOMAIN pq.bh |-> pq.bh[i].hash])
    /\ DOMAIN apic.blockCache = { pq.bh[i].hash : i \in DOMAIN pq.bh }
    /\ \A h \in DOMAIN apic.MainchainBlocks :
          LET b == apic.MainchainBlocks[h]
          IN  b \in DOMAIN apic.blockCache /\ HeightOf[b] = h
    /\ \A i \in DOMAIN pq.bh : HeightOf[pq.bh[i].hash] \in pq.minHeight .. pq.maxHeight

=============================================================================
