------------------------------- MODULE Fetch -------------------------------
(***************************************************************************)
(* How blocks reach the initial sync: the prefetching client               *)
(* (rpcutils/prefetcher.go) below the block gate (rpcutils/blockgate.go),  *)
(* as main.go puts them together.  The gate's lock is held while it waits  *)
(* for the prefetcher; the prefetcher's lock is handed to a goroutine that *)
(* sends the next target to the fetcher before it is released.             *)
(*                                                                         *)
(* The node (external) answers a hash with the block it has or an error,   *)
(* and may extend or reorganize its chain between two requests.            *)
(***************************************************************************)
EXTENDS Integers, Sequences, FiniteSets, TLC, FiniteSetsExt

CONSTANTS Chains,         \* Sequences of blocks; the first has height 0.
          Capacity,       \* Of the gate's queue: 4 in main.go.
          RetargetSize,   \* Of retargetChan: 10 in the code.
          Overtakes,      \* How often a call takes the prefetcher's lock while the fetcher
                          \* has work and waits for it (Go's mutex bounds this by time).
          Waiters,
          Loads           \* What may happen: [updates, reads, waits, moves, faults], the bounds.

VARIABLES node,           \* The node's best chain.
          pf, gate,
          wait,           \* What every waiter waits for and was sent.
          left            \* What is left of the load.

fetchVars == <<node, pf, gate, wait, left>>

NoBlock == -1
\* A block is 10 times its height plus a digit for its branch.
HeightOf(b) == b \div 10
NextHash(b) == LET i == HeightOf(b) + 1
               IN IF i \in DOMAIN node /\ node[i] = b /\ i < Len(node) THEN node[i + 1] ELSE NoBlock
Known == UNION { {c[i] : i \in DOMAIN c} : c \in Chains }

NewBlockPrefetchClient ==
    [lock |-> FALSE, retarget |-> NoBlock, chan |-> <<>>, target |-> NoBlock, overtaken |-> 0,
     current |-> [hash |-> NoBlock, next |-> NoBlock],
     next    |-> [hash |-> NoBlock, next |-> NoBlock]]

NewBlockGate ==
    [lock |-> FALSE, updating |-> NoBlock, height |-> -1, fetchToHeight |-> -1,
     hashAtHeight |-> <<>>, blockWithHash |-> {}, expireQueue |-> <<>>]

NotWaiting == [kind |-> "none", for |-> -1, chan |-> TRUE, signals |-> <<>>]

Init ==
    /\ node \in Chains
    /\ pf = NewBlockPrefetchClient /\ gate = NewBlockGate
    /\ wait = [w \in Waiters |-> NotWaiting]
    /\ left \in Loads

-----------------------------------------------------------------------------
(* The prefetcher *)

haveBlockHash(h) == h \in {pf.next.hash, pf.current.hash}

\* The fetcher has a target or finds one in its channel.
FetcherWaits == pf.target # NoBlock \/ pf.chan # <<>>

\* GetBlockData up to the answer: a block at hand or one from the node.  The lock stays with the
\* goroutine of retargetAndUnlock unless the block is the current one.
GetBlockData(hash) ==
    /\ ~pf.lock /\ (FetcherWaits => pf.overtaken < Overtakes)
    /\ LET late == IF FetcherWaits THEN pf.overtaken + 1 ELSE 0
       IN \/ pf.current.hash = hash /\ pf' = [pf EXCEPT !.overtaken = late]
          \/ /\ pf.current.hash # hash /\ pf.next.hash = hash
             /\ pf' = [pf EXCEPT !.lock = TRUE, !.retarget = pf.next.next, !.overtaken = late]
          \/ /\ ~haveBlockHash(hash)
             /\ pf' = [pf EXCEPT !.lock = TRUE, !.retarget = NextHash(hash), !.overtaken = late]

\* A miss for which the node has no answer.
GetBlockDataFails(hash) ==
    /\ ~pf.lock /\ ~haveBlockHash(hash) /\ left.faults > 0
    /\ left' = [left EXCEPT !.faults = @ - 1] /\ UNCHANGED pf

\* retarget: nothing to do at the tip or when the block is at hand; otherwise the target is sent,
\* which waits while the channel is full.
Wanted(h) == h # NoBlock /\ ~haveBlockHash(h)
retargetAndUnlock ==
    /\ pf.lock
    /\ \/ /\ ~Wanted(pf.retarget)
          /\ pf' = [pf EXCEPT !.lock = FALSE, !.retarget = NoBlock]
       \/ /\ Wanted(pf.retarget) /\ Len(pf.chan) < RetargetSize
          /\ pf' = [pf EXCEPT !.lock = FALSE, !.retarget = NoBlock, !.chan = Append(@, pf.retarget)]
    /\ UNCHANGED <<node, gate, wait, left>>

\* fetcher: the next target.
fetcher ==
    /\ pf.target = NoBlock /\ pf.chan # <<>>
    /\ pf' = [pf EXCEPT !.target = Head(pf.chan), !.chan = Tail(@)]
    /\ UNCHANGED <<node, gate, wait, left>>

storeNext(h) == [pf EXCEPT !.current = pf.next, !.next = [hash |-> h, next |-> NextHash(h)]]

RetrieveAndStoreNext ==
    /\ pf.target # NoBlock /\ ~pf.lock
    /\ LET done == [target |-> NoBlock, overtaken |-> 0]
       IN \/ /\ haveBlockHash(pf.target)
             /\ pf' = done @@ pf /\ UNCHANGED left
          \/ /\ ~haveBlockHash(pf.target)
             /\ pf' = done @@ storeNext(pf.target) /\ UNCHANGED left
          \/ /\ ~haveBlockHash(pf.target) /\ left.faults > 0
             /\ pf' = done @@ pf /\ left' = [left EXCEPT !.faults = @ - 1]
    /\ UNCHANGED <<node, gate, wait>>

-----------------------------------------------------------------------------
(* The gate *)

hashInQueue(q, hash) == \E i \in DOMAIN q : q[i].hash = hash
heightInQueue(q, height) == \E i \in DOMAIN q : q[i].height = height

\* A mutant: a queue that only looks at what leaves it.
rotateInBlind(g, height, hash) ==
    LET q == Append(g.expireQueue, [height |-> height, hash |-> hash])
        old == Head(q)
    IN IF Len(q) <= Capacity THEN [g EXCEPT !.expireQueue = q]
       ELSE [g EXCEPT !.expireQueue = Tail(q), !.blockWithHash = @ \ {old.hash},
                      !.hashAtHeight = [h \in (DOMAIN @) \ {old.height} |-> @[h]]]

\* rotateIn: the oldest pair leaves a full queue; its block and its height are forgotten unless a
\* younger pair still has them.
rotateIn(g, height, hash) ==
    LET q == Append(g.expireQueue, [height |-> height, hash |-> hash])
        old == Head(q)
    IN IF Len(q) <= Capacity THEN [g EXCEPT !.expireQueue = q]
       ELSE [g EXCEPT !.expireQueue = Tail(q),
                      !.blockWithHash = IF hashInQueue(Tail(q), old.hash) THEN @ ELSE @ \ {old.hash},
                      !.hashAtHeight = IF heightInQueue(Tail(q), old.height) THEN @
                                       ELSE [h \in (DOMAIN @) \ {old.height} |-> @[h]]]

\* signalHeight and signalHash: whoever is still registered gets the news and is forgotten.  A
\* channel holds one value; a second one would be a panic.
Registered(w, kind, for) == wait[w].kind = kind /\ wait[w].for = for /\ wait[w].signals = <<>>
Signalled(waits, height, hash) ==
    [w \in Waiters |->
        CASE waits[w].kind = "height" /\ waits[w].for = height /\ waits[w].signals = <<>>
                -> [waits[w] EXCEPT !.signals = Append(@, hash)]
          [] waits[w].kind = "hash" /\ waits[w].for = hash /\ waits[w].signals = <<>>
                -> [waits[w] EXCEPT !.signals = Append(@, height)]
          [] OTHER -> waits[w]]

\* GetBlock(height): the hash at the height, with the gate's lock held.
GetBlockHash(height) ==
    /\ height + 1 \in DOMAIN node
    /\ gate' = [gate EXCEPT !.lock = TRUE, !.updating = node[height + 1]]

\* UpdateToBlock, UpdateToNextBlock and UpdateToBestBlock differ in the height they ask for; the
\* height is read before the lock is taken.
UpdateToBlock(height) ==
    /\ ~gate.lock /\ left.updates > 0
    /\ GetBlockHash(height)
    /\ left' = [left EXCEPT !.updates = @ - 1] /\ UNCHANGED <<node, pf, wait>>

\* updateToBlock once the prefetcher answers.
updateToBlock ==
    /\ gate.lock
    /\ LET hash == gate.updating
           height == HeightOf(hash)
       IN /\ GetBlockData(hash)
          /\ gate' = rotateIn([gate EXCEPT !.height = height, !.hashAtHeight = (height :> hash) @@ @,
                                           !.blockWithHash = @ \cup {hash},
                                           !.lock = FALSE, !.updating = NoBlock], height, hash)
          /\ wait' = Signalled(wait, height, hash)
    /\ UNCHANGED <<node, left>>

\* The error: nothing is stored; a WaitForHeight that fetched the block returns no channel, but its
\* waiter stays registered.
updateToBlockFails ==
    /\ gate.lock /\ GetBlockDataFails(gate.updating)
    /\ gate' = [gate EXCEPT !.lock = FALSE, !.updating = NoBlock]
    /\ wait' = [w \in Waiters |->
                   IF Registered(w, "height", HeightOf(gate.updating)) /\ wait[w].chan
                      /\ HeightOf(gate.updating) <= gate.fetchToHeight
                   THEN [wait[w] EXCEPT !.chan = FALSE] ELSE wait[w]]
    /\ UNCHANGED node

SetFetchToHeight(height) ==
    /\ ~gate.lock /\ gate.fetchToHeight = -1 /\ left.waits > 0
    /\ gate' = [gate EXCEPT !.fetchToHeight = height]
    /\ UNCHANGED <<node, pf, wait, left>>

WaitForHeight(w, height) ==
    /\ ~gate.lock /\ wait[w].kind = "none" /\ left.waits > 0
    /\ left' = [left EXCEPT !.waits = @ - 1]
    /\ LET mine == [wait EXCEPT ![w] = [NotWaiting EXCEPT !.kind = "height", !.for = height]]
       IN \/ /\ height \in DOMAIN gate.hashAtHeight
             /\ wait' = Signalled(mine, height, gate.hashAtHeight[height]) /\ UNCHANGED gate
          \/ /\ height \notin DOMAIN gate.hashAtHeight /\ height <= gate.fetchToHeight
             /\ \/ GetBlockHash(height) /\ wait' = mine
                \/ height + 1 \notin DOMAIN node /\ wait' = [mine EXCEPT ![w].chan = FALSE]
                   /\ UNCHANGED gate
          \/ /\ height \notin DOMAIN gate.hashAtHeight /\ height > gate.fetchToHeight
             /\ wait' = mine /\ UNCHANGED gate
    /\ UNCHANGED <<node, pf>>

WaitForHash(w, hash) ==
    /\ ~gate.lock /\ wait[w].kind = "none" /\ left.waits > 0
    /\ left' = [left EXCEPT !.waits = @ - 1]
    /\ LET mine == [wait EXCEPT ![w] = [NotWaiting EXCEPT !.kind = "hash", !.for = hash]]
       IN wait' = IF hash \in gate.blockWithHash THEN Signalled(mine, HeightOf(hash), hash) ELSE mine
    /\ UNCHANGED <<node, pf, gate>>

\* Block: a cached block, or one from the prefetcher, without the gate's lock.
Block(hash) ==
    /\ hash \notin gate.blockWithHash /\ left.reads > 0
    /\ GetBlockData(hash)
    /\ left' = [left EXCEPT !.reads = @ - 1] /\ UNCHANGED <<node, gate, wait>>

\* The node's chain grows or is reorganized.
Moves(c) ==
    /\ left.moves > 0 /\ c # node /\ Len(c) >= Len(node)
    /\ node' = c /\ left' = [left EXCEPT !.moves = @ - 1] /\ UNCHANGED <<pf, gate, wait>>

-----------------------------------------------------------------------------
Heights == {HeightOf(b) : b \in Known}
Next ==
    \/ retargetAndUnlock \/ fetcher \/ RetrieveAndStoreNext \/ updateToBlock \/ updateToBlockFails
    \/ \E h \in Heights : UpdateToBlock(h) \/ SetFetchToHeight(h) \/ (\E w \in Waiters : WaitForHeight(w, h))
    \/ \E b \in Known : Block(b) \/ (\E w \in Waiters : WaitForHash(w, b))
    \/ \E c \in Chains : Moves(c)

\* The goroutines that hold a lock run; the fetcher, with its channel, is one of them.
Fairness ==
    /\ WF_fetchVars(retargetAndUnlock) /\ WF_fetchVars(fetcher)
    /\ SF_fetchVars(RetrieveAndStoreNext) /\ WF_fetchVars(updateToBlock)

Spec == Init /\ [][Next]_fetchVars /\ Fairness

-----------------------------------------------------------------------------
(***************************************************************************)
(* Whatever order heights are updated in and however often the node        *)
(* reorganizes, the best block is in the cache (BestBlock has no error),   *)
(* every height in it leads to a cached block of that height, the youngest *)
(* one fetched, and no waiter for a block that is in the cache is left     *)
(* without its signal: no wakeup is lost between the registration of a     *)
(* waiter and the update (BlockGate.rotateIn, signalHeight, signalHash).   *)
(***************************************************************************)
GateServesWaiters ==
    /\ gate.height >= 0 => gate.height \in DOMAIN gate.hashAtHeight
    /\ DOMAIN gate.hashAtHeight = {gate.expireQueue[i].height : i \in DOMAIN gate.expireQueue}
    /\ \A h \in DOMAIN gate.hashAtHeight :
          LET at == {i \in DOMAIN gate.expireQueue : gate.expireQueue[i].height = h}
          IN /\ gate.hashAtHeight[h] \in gate.blockWithHash
             /\ gate.hashAtHeight[h] = gate.expireQueue[Max(at)].hash
    /\ Cardinality(gate.blockWithHash) <= Capacity
    /\ \A w \in Waiters :
          /\ wait[w].kind = "height" /\ wait[w].signals = <<>> =>
                \/ wait[w].for \notin DOMAIN gate.hashAtHeight
                \/ gate.lock
          /\ wait[w].kind = "height" => \A i \in DOMAIN wait[w].signals : HeightOf(wait[w].signals[i]) = wait[w].for
          /\ wait[w].kind = "hash" /\ wait[w].signals = <<>> => wait[w].for \notin gate.blockWithHash

\* An update that has taken the gate's lock ends: the prefetcher's lock is always released and its
\* fetcher is never the one its sender waits for (retarget sends with the lock held).
UpdatesEnd == gate.lock ~> ~gate.lock
=============================================================================
