----------------------------- MODULE BlockChain -----------------------------
(***************************************************************************)
(* Block processing and chain selection of package blockchain: ProcessBlock*)
(* with its orphan pool, acceptance, connectBestChain, reorganizations and *)
(* their undoing, ForceHeadReorganization, the block index and its status  *)
(* flags on disk, checkpoints, the pruned stake nodes and the cache of     *)
(* main chain blocks.                                                      *)
(*                                                                         *)
(* chainLock is held throughout a call, except while a notification is     *)
(* sent: then another caller may enter.  A step that ends in such a        *)
(* notification leaves the lock free, and the caller's next step takes it  *)
(* again.  What a block is worth (its rules, its scripts) is its kind;     *)
(* module Ledger has the rules and the outputs that one database           *)
(* transaction writes along with the best state, module StakeNode the      *)
(* tickets.                                                                *)
(***************************************************************************)
EXTENDS BlockTree, FiniteSets, SequencesExt, TLC

CONSTANTS Parent,            \* the block tree
          Work,              \* by block, its proof of work
          MaxOrphans,        \* maxOrphanBlocks
          MinStakeNodes,     \* minMemoryStakeNodes
          MinMemoryNodes,
          CacheSize,         \* mainchainBlockCacheSize
          StakeEnabledHeight,
          StakeHeight,       \* StakeValidationHeight
          Scenarios          \* the environments to check

Blocks == DOMAIN Parent
Height == HeightIn(Parent)
Path == PathIn(Parent)

\* initBlockNode: a block's work and that of all below it.
WorkSum ==
    LET w[b \in Blocks] == Work[b] + (IF b = Genesis THEN 0 ELSE w[Parent[b]])
    IN w @@ <<>>

None == -1
Nobody == "nobody"

Kinds == {"ok",
          "insane",       \* checkBlockSanity fails
          "old",          \* older than any checkpoint
          "misplaced",    \* checkBlockPositional or checkBlockContext fails
          "invalid"}      \* checkConnectBlock fails

\* Every block descends from genesis, which is its own parent here.
ASSUME TreeAssumption ==
    /\ Genesis \in Blocks /\ None \notin Blocks /\ Parent \in [Blocks -> Blocks]
    /\ Parent[Genesis] = Genesis /\ Path[Genesis] = <<Genesis>>
    /\ \A b \in Blocks : Path[b] \in Seq(Blocks) /\ Height[b] = Len(Path[b]) - 1
    /\ \A b \in Blocks \ {Genesis} : Path[b] = Append(Path[Parent[b]], b)

\* Work adds up along a branch.
ASSUME WorkAssumption ==
    /\ Work \in [Blocks -> Nat \ {0}] /\ WorkSum \in [Blocks -> Nat]
    /\ \A b \in Blocks \ {Genesis} : WorkSum[b] = WorkSum[Parent[b]] + Work[b]

ASSUME BlockChainAssumption ==
    /\ MaxOrphans \in Nat \ {0} /\ CacheSize \in Nat \ {0} /\ StakeHeight \in Nat \ {0, 1}
    /\ MinStakeNodes \in Nat \ {0} /\ MinMemoryNodes \in Nat /\ StakeEnabledHeight \in Nat
    /\ \A s \in Scenarios :
         /\ s.kind \in [Blocks -> Kinds] /\ s.kind[Genesis] = "ok" /\ s.callers \subseteq {"p", "q"}
         /\ s.restarts \in Nat /\ s.faults \in Nat /\ s.force \in BOOLEAN
         /\ s.sent \subseteq Blocks \ {Genesis} /\ s.checkpoints \in Seq(Blocks)
         /\ \A i, j \in DOMAIN s.checkpoints :
              i < j => s.checkpoints[i] \in Range(Path[s.checkpoints[j]])

VARIABLES
    env,             \* the scenario: kinds, blocks sent, checkpoints, callers, faults
    chainLock,       \* the caller that holds it, or Nobody
    job,             \* by caller, what its call is at
    index,           \* block index: status flags of each known block
    modified,        \* blocks whose flags are not on disk
    chainTips,       \* blocks with no child in the index
    bestChain,       \* chainView.nodes
    orphans,         \* orphan pool, oldest first
    oldestOrphan,
    checkpointNode, nextCheckpoint,
    stakeNodes,      \* blocks whose stake node is in memory
    blockCache,      \* mainchainBlockCache
    diskIndex, diskBest,
    panicked, restarts, faults

pool == <<orphans, oldestOrphan>>
cps == <<checkpointNode, nextCheckpoint>>
disk == <<diskIndex, diskBest>>
count == <<restarts, faults>>
vars == <<env, chainLock, job, index, modified, chainTips, bestChain, pool, cps, stakeNodes,
          blockCache, disk, panicked, count>>

-----------------------------------------------------------------------------
(* The chain view. *)

TipOf(nodes) == nodes[Len(nodes)]
Tip == TipOf(bestChain)
NodeByHeight(nodes, h) == IF h \in 0 .. Len(nodes) - 1 THEN nodes[h + 1] ELSE None
InChain(nodes, b) == NodeByHeight(nodes, Height[b]) = b

\* setTip: from the new tip down, up to the first node that is there already.
SetTip(nodes, b) ==
    LET p == Path[b]
        same == {i \in 1 .. Len(p) : i <= Len(nodes) /\ nodes[i] = p[i]}
    IN [i \in 1 .. Len(p) |-> IF \A s \in same : i > s THEN p[i] ELSE nodes[i]]

FindFork(nodes, b) ==
    LET below == {i \in 1 .. Len(Path[b]) : InChain(nodes, Path[b][i])}
    IN Path[b][Max(below)]

\* The blocks to take off, from the tip, and to put on, to get to block b.
Detached(nodes, b) == Reverse(SubSeq(nodes, Height[FindFork(nodes, b)] + 2, Len(nodes)))
Attached(nodes, b) == SubSeq(Path[b], Height[FindFork(nodes, b)] + 2, Len(Path[b]))

-----------------------------------------------------------------------------
(* The block index. *)

KnownValid(st) == "valid" \in st
KnownInvalid(st) == st \cap {"failed", "badAncestor"} /= {}
HaveBlock(b) == b \in DOMAIN index

SetStatusFlags(idx, S, flag) == [b \in DOMAIN idx |-> IF b \in S THEN idx[b] \cup {flag} ELSE idx[b]]
Changed(idx, idx2) == {b \in DOMAIN idx2 : b \notin DOMAIN idx \/ idx[b] /= idx2[b]}

\* addNode: the block is a tip, and its parent no more.
WithTip(tips, b) == (tips \ {Parent[b]}) \cup {b}

\* flushBlockIndex, for an index and the blocks of it that were modified.
Flushed(idx, m) ==
    [b \in DOMAIN diskIndex \cup m |-> IF b \in m THEN idx[b] ELSE diskIndex[b]]

-----------------------------------------------------------------------------
(* Stake nodes kept in memory. *)

\* What fetchStakeNode leaves in memory when it is asked for block b, and
\* whether it follows a nil pointer on the way.
FetchPanics(loaded, nodes, b) ==
    /\ b \notin loaded
    /\ \/ b = Genesis
       \/ Parent[b] \notin loaded /\ TipOf(nodes) \notin loaded
fetchStakeNode(loaded, nodes, b) ==
    CASE b \in loaded -> loaded
      [] b \notin loaded /\ Parent[b] \in loaded -> loaded \cup {b}
      [] OTHER -> loaded \cup Range(Detached(nodes, b)) \cup {FindFork(nodes, b)}
                         \cup Range(Attached(nodes, b))

\* pruneStakeNodes: of the blocks under the last MinStakeNodes.
\* Mutant: one block too many is pruned.
PruneStakeNodesOneMore(loaded) ==
    loaded \ {b \in Range(bestChain) : /\ Height[b] <= Height[Tip] - MinStakeNodes + 1
                                       /\ Height[b] > Height[Tip] - MinMemoryNodes}

PruneStakeNodes(loaded) ==
    loaded \ {b \in Range(bestChain) : /\ Height[b] <= Height[Tip] - MinStakeNodes
                                       /\ Height[b] > Height[Tip] - MinMemoryNodes}

-----------------------------------------------------------------------------
(* Checkpoints. *)

Checkpoints == env.checkpoints
LatestCheckpointHeight == IF Checkpoints = <<>> THEN 0 ELSE Height[Last(Checkpoints)]
VerifyCheckpoint(b) == \A c \in Range(Checkpoints) : Height[c] = Height[b] => c = b
After(i) == IF i < Len(Checkpoints) THEN Checkpoints[i + 1] ELSE None

\* findPreviousCheckpoint: the pair of nodes it leaves behind.
FindPreviousCheckpoint ==
    LET passed == {i \in DOMAIN Checkpoints :
                     HaveBlock(Checkpoints[i]) /\ InChain(bestChain, Checkpoints[i])}
        at == CHOOSE i \in DOMAIN Checkpoints : Checkpoints[i] = nextCheckpoint
    IN CASE Checkpoints = <<>> -> cps
         [] Checkpoints /= <<>> /\ checkpointNode = None /\ nextCheckpoint = None ->
              IF passed = {} THEN <<None, Checkpoints[1]>>
              ELSE <<Checkpoints[Max(passed)], After(Max(passed))>>
         [] nextCheckpoint /= None /\ Height[Tip] >= Height[nextCheckpoint] ->
              <<nextCheckpoint, After(at)>>
         [] OTHER -> cps

FoundCheckpoint == /\ checkpointNode' = FindPreviousCheckpoint[1]
                   /\ nextCheckpoint' = FindPreviousCheckpoint[2]

PositionFits(b) ==
    /\ VerifyCheckpoint(b)
    /\ LET cp == FindPreviousCheckpoint[1] IN cp /= None => Height[b] >= Height[cp]

-----------------------------------------------------------------------------
(* The steps of a caller.  A job is at
     "idle"       no call
     "accept"     maybeAcceptBlock of job.block
     "connect"    connectBestChain: the block is in the index
     "extend"     the block is valid and extends the best chain
     "extended"   sent NTBlockConnected for it
     "accepted"   sent NTBlockAccepted
     "reorg"      sent NTChainReorgStarted
     "reorging"   taking blocks off or putting them on
     "detached"   sent NTBlockDisconnected for job.moved
     "attached"   sent NTBlockConnected for job.moved
     "reorged"    sent NTReorganization
     "done"       sent NTChainReorgDone; job.back when it failed *)

Idle == [at |-> "idle", block |-> None, target |-> None, orig |-> None, moved |-> None,
         detach |-> <<>>, attach |-> <<>>, queue |-> <<>>, fast |-> FALSE, back |-> FALSE,
         forced |-> FALSE]

Runs(c) == c \in env.callers /\ ~panicked /\ chainLock \in {c, Nobody}
At(c, where) == Runs(c) /\ job[c].at = where

\* The caller goes on with the lock held, sends a notification without it,
\* or returns.
Locked(c, j) == job' = [job EXCEPT ![c] = j] /\ chainLock' = c
Notifies(c, j) == job' = [job EXCEPT ![c] = j] /\ chainLock' = Nobody
Returns(c) == Notifies(c, Idle)
Panics == panicked' = TRUE /\ UNCHANGED <<env, chainLock, job, index, modified, chainTips, bestChain, pool,
                                          cps, stakeNodes, blockCache, disk, count>>

\* removeOrphanBlock: of the pool, a block that may have left it before.
Without(s, o) == LET at == CHOOSE i \in DOMAIN s : s[i] = o
                 IN IF o \in Range(s) THEN RemoveAt(s, at) ELSE s

\* addOrphanBlock: orphans expire, oldest first, and the oldest makes room.
\* It is not looked for again while the last one found is remembered.
AddOrphanBlock(b, expired) ==
    LET left == SubSeq(orphans, expired + 1, Len(orphans))
        oldest == IF oldestOrphan = None /\ left /= <<>> THEN Head(left) ELSE oldestOrphan
    IN IF Len(left) + 1 > MaxOrphans
         THEN /\ orphans' = Append(Without(left, oldest), b)
              /\ oldestOrphan' = None
         ELSE /\ orphans' = Append(left, b)
              /\ oldestOrphan' = oldest

\* ProcessBlock up to maybeAcceptBlock.  Blocks that it turns down at once,
\* as known or by checkBlockSanity, change nothing.
ProcessBlock(c) ==
    /\ At(c, "idle") /\ chainLock = Nobody
    /\ \E b \in env.sent, fast \in BOOLEAN :
         /\ ~HaveBlock(b) /\ b \notin Range(orphans) /\ env.kind[b] /= "insane"
         /\ fast => env.kind[b] = "ok" /\ Height[b] <= LatestCheckpointHeight
         /\ FoundCheckpoint
         /\ \/ /\ env.kind[b] = "old" /\ checkpointNode' /= None
               /\ Returns(c) /\ UNCHANGED pool
            \/ /\ ~(env.kind[b] = "old" /\ checkpointNode' /= None)
               /\ ~HaveBlock(Parent[b])
               /\ \E expired \in 0 .. Len(orphans) : AddOrphanBlock(b, expired)
               /\ Returns(c)
            \/ /\ ~(env.kind[b] = "old" /\ checkpointNode' /= None)
               /\ HaveBlock(Parent[b])
               /\ Locked(c, [Idle EXCEPT !.at = "accept", !.block = b, !.fast = fast])
               /\ UNCHANGED pool
    /\ UNCHANGED <<env, chainTips, index, modified, bestChain, stakeNodes, blockCache, disk, panicked, count>>

\* maybeAcceptBlock up to connectBestChain: the block enters the index, on
\* disk too, or is turned down.
Acceptable(b, fast) ==
    /\ ~KnownInvalid(index[Parent[b]])
    /\ PositionFits(b)
    /\ fast \/ env.kind[b] /= "misplaced"

Accept(c) ==
    /\ At(c, "accept")
    /\ LET b == job[c].block
           ctx == IF ~job[c].fast /\ Height[b] >= StakeHeight
                    THEN fetchStakeNode(stakeNodes, bestChain, Parent[b]) ELSE stakeNodes
       IN /\ ~KnownInvalid(index[Parent[b]])
               => FoundCheckpoint
          /\ KnownInvalid(index[Parent[b]]) => UNCHANGED cps
          /\ \/ /\ ~Acceptable(b, job[c].fast)
                /\ Returns(c)
                /\ UNCHANGED <<index, modified, chainTips, diskIndex, stakeNodes>>
             \/ /\ Acceptable(b, job[c].fast)
                /\ index' = [x \in DOMAIN index \cup {b} |-> IF x = b THEN {"data"} ELSE index[x]]
                /\ chainTips' = WithTip(chainTips, b)
                /\ diskIndex' = Flushed(index', modified \cup {b})
                /\ modified' = {}
                /\ \E pruned \in {ctx, PruneStakeNodes(ctx)} :
                     stakeNodes' = IF Height[b] < Height[Tip] - MinMemoryNodes
                                     THEN fetchStakeNode(pruned, bestChain, b) ELSE pruned
                /\ Locked(c, [job[c] EXCEPT !.at = "connect"])
    /\ UNCHANGED <<env, bestChain, pool, blockCache, diskBest, panicked, count>>

\* checkConnectBlock, which may also fail for a reason that is no rule.
Fault == faults < env.faults /\ faults' = faults + 1
NoFault == UNCHANGED faults

\* connectBestChain: the block extends the best chain, has less work, or
\* causes a reorganization.
\* Mutant: the longer chain wins.
MoreHeight(b, tip) == Height[b] > Height[tip]

MoreWork(b, tip) == WorkSum[b] > WorkSum[tip]

ConnectBestChain(c) ==
    /\ At(c, "connect")
    /\ LET b == job[c].block
           Marked(flag) == /\ index' = SetStatusFlags(index, {b}, flag)
                           /\ diskIndex' = Flushed(index', modified \cup {b})
                           /\ modified' = {}
       IN \/ /\ Parent[b] = Tip /\ ~job[c].fast /\ env.kind[b] = "invalid" /\ NoFault
             /\ Marked("failed")
             /\ Returns(c)
          \/ /\ Parent[b] = Tip /\ ~job[c].fast /\ Fault
             /\ Returns(c)
             /\ UNCHANGED <<index, modified, diskIndex>>
          \/ /\ Parent[b] = Tip /\ (job[c].fast \/ env.kind[b] /= "invalid") /\ NoFault
             /\ Marked("valid")
             /\ Locked(c, [job[c] EXCEPT !.at = "extend"])
          \/ /\ Parent[b] /= Tip /\ ~MoreWork(b, Tip) /\ NoFault
             /\ Notifies(c, [job[c] EXCEPT !.at = "accepted"])
             /\ UNCHANGED <<index, modified, diskIndex>>
          \/ /\ Parent[b] /= Tip /\ MoreWork(b, Tip) /\ NoFault
             /\ Notifies(c, [job[c] EXCEPT !.at = "reorg", !.target = b, !.orig = Tip])
             /\ UNCHANGED <<index, modified, diskIndex>>
    /\ UNCHANGED <<env, chainTips, bestChain, pool, cps, stakeNodes, blockCache, diskBest, panicked, restarts>>

-----------------------------------------------------------------------------
(* Connecting and disconnecting a block at the tip. *)

\* connectBlock: one transaction writes the best state, outputs, journal,
\* stake node and filter; idx is the index with what the caller flagged.
Connected(b, idx) ==
    /\ diskIndex' = Flushed(idx, modified \cup Changed(index, idx))
    /\ index' = idx /\ modified' = {}
    /\ diskBest' = b
    /\ bestChain' = SetTip(bestChain, b)
    /\ stakeNodes' = fetchStakeNode(stakeNodes, bestChain, b)

\* What follows the notification: the ticket notifications read the block's
\* stake node, below the last checkpoint the tip's parent loses its own, and
\* the block enters the cache, which drops old blocks.  Another caller may have
\* dropped the stake node meanwhile, or have left the chain at genesis.
AfterConnectPanics(b) ==
    \/ Height[b] >= StakeEnabledHeight /\ b \notin stakeNodes
    \/ Height[b] < LatestCheckpointHeight /\ Tip = Genesis
AfterConnect(b) ==
    /\ stakeNodes' = IF Height[b] < LatestCheckpointHeight
                       THEN stakeNodes \ {Parent[Tip]} ELSE stakeNodes
    /\ blockCache' = {x \in blockCache \cup {b} : Height[x] > Height[b] - CacheSize}

\* disconnectBlock.
Disconnected(b) ==
    /\ diskIndex' = Flushed(index, modified)
    /\ modified' = {}
    /\ diskBest' = Parent[b]
    /\ bestChain' = SetTip(bestChain, Parent[b])
    /\ stakeNodes' = fetchStakeNode(fetchStakeNode(stakeNodes, bestChain, b), bestChain, Parent[b])

Extend(c) ==
    /\ At(c, "extend")
    /\ LET b == job[c].block
       IN IF Parent[b] /= Tip \/ FetchPanics(stakeNodes, bestChain, b) THEN Panics
          ELSE /\ Connected(b, index)
               /\ Notifies(c, [job[c] EXCEPT !.at = "extended"])
               /\ UNCHANGED <<env, chainTips, pool, cps, blockCache, panicked, count>>

Extended(c) ==
    /\ At(c, "extended")
    /\ IF AfterConnectPanics(job[c].block) THEN Panics
       ELSE /\ AfterConnect(job[c].block)
            /\ Notifies(c, [job[c] EXCEPT !.at = "accepted"])
            /\ UNCHANGED <<env, chainTips, index, modified, bestChain, pool, cps, disk, panicked, count>>

\* processOrphans: the next orphan of the blocks accepted so far, in order.
HaveOrphans(queue) ==
    LET with == {i \in 1 .. Len(queue) : \E o \in Range(orphans) : Parent[o] = queue[i]}
    IN IF with = {} THEN <<>> ELSE SubSeq(queue, Min(with), Len(queue))

Accepted(c) ==
    /\ At(c, "accepted")
    /\ LET queue == HaveOrphans(Append(job[c].queue, job[c].block))
           orphan == orphans[Min({i \in 1 .. Len(orphans) : Parent[orphans[i]] = queue[1]})]
       IN \/ /\ queue = <<>>
             /\ Returns(c) /\ UNCHANGED orphans
          \/ /\ queue /= <<>>
             /\ orphans' = Without(orphans, orphan)
             /\ Locked(c, [job[c] EXCEPT !.at = "accept", !.block = orphan, !.queue = queue])
    /\ UNCHANGED <<env, chainTips, index, modified, bestChain, oldestOrphan, cps, stakeNodes, blockCache,
                   disk, panicked, count>>

-----------------------------------------------------------------------------
(* Reorganizations. *)

\* reorganizeChainInternal's plan for a target, or its failure: the highest
\* known invalid block on the way flags those above it.
BadOnTheWay(t) == {i \in 1 .. Len(Attached(bestChain, t)) :
                     KnownInvalid(index[Attached(bestChain, t)[i]])}
Plan(c, t, back) ==
    [job[c] EXCEPT !.at = "reorging", !.back = back, !.detach = Detached(bestChain, t),
                   !.attach = Attached(bestChain, t)]

\* A failure of the way to the new tip: back to where it began, from idx.
\* Mutant: the chain is left where the failure met it.
GoBackNot(c, idx) ==
    /\ index' = idx /\ modified' = modified \cup Changed(index, idx)
    /\ Locked(c, [job[c] EXCEPT !.at = "reorging", !.back = TRUE,
                                !.detach = <<>>, !.attach = <<>>])
    /\ UNCHANGED panicked

\* Mutant: the new tip is tried again.
GoBackNever(c, idx) ==
    /\ index' = idx /\ modified' = modified \cup Changed(index, idx)
    /\ Locked(c, Plan(c, job[c].target, FALSE))
    /\ UNCHANGED panicked

GoBack(c, idx) ==
    /\ index' = idx /\ modified' = modified \cup Changed(index, idx)
    /\ IF job[c].back \/ BadOnTheWay(job[c].orig) /= {}
         THEN panicked' = TRUE /\ UNCHANGED <<job, chainLock>>
         ELSE Locked(c, Plan(c, job[c].orig, TRUE)) /\ UNCHANGED panicked

Reorg(c) ==
    /\ At(c, "reorg")
    /\ LET bad == BadOnTheWay(job[c].target)
           way == Attached(bestChain, job[c].target)
           above == {way[i] : i \in {j \in 1 .. Len(way) : bad /= {} /\ j > Max(bad)}}
       IN \/ /\ bad = {}
             /\ Locked(c, Plan(c, job[c].target, FALSE))
             /\ UNCHANGED <<index, modified, panicked>>
          \/ /\ bad /= {}
             /\ GoBack(c, SetStatusFlags(index, above, "badAncestor"))
    /\ UNCHANGED <<env, chainTips, bestChain, pool, cps, stakeNodes, blockCache, disk, count>>

\* The next block to take off.  It must be on the main chain to be fetched,
\* and the tip to be disconnected.
Detach(c) ==
    /\ At(c, "reorging") /\ job[c].detach /= <<>>
    /\ LET b == Head(job[c].detach)
       IN IF ~InChain(bestChain, b) \/ ~InChain(bestChain, Parent[b])
            THEN /\ GoBack(c, index)
                 /\ UNCHANGED <<env, chainTips, bestChain, pool, cps, stakeNodes, blockCache, disk, count>>
          ELSE IF b /= Tip \/ FetchPanics(stakeNodes, bestChain, b)
                  \/ FetchPanics(fetchStakeNode(stakeNodes, bestChain, b), bestChain, Parent[b])
            THEN Panics
          ELSE /\ Disconnected(b)
               /\ Notifies(c, [job[c] EXCEPT !.at = "detached", !.moved = b, !.detach = Tail(@)])
               /\ UNCHANGED <<env, chainTips, index, pool, cps, blockCache, panicked, count>>

\* The first of the blocks to put on fails, and the others have an invalid
\* ancestor.
FailedToConnect(attach) ==
    SetStatusFlags(SetStatusFlags(index, {Head(attach)}, "failed"), Range(Tail(attach)), "badAncestor")

\* The next block to put on: validated unless it is known to be valid.
Attach(c) ==
    /\ At(c, "reorging") /\ job[c].detach = <<>> /\ job[c].attach /= <<>>
    /\ LET b == Head(job[c].attach)
           known == KnownValid(index[b])
       IN \/ /\ ~known /\ env.kind[b] = "invalid" /\ NoFault
             /\ GoBack(c, FailedToConnect(job[c].attach))
             /\ UNCHANGED <<env, chainTips, bestChain, pool, cps, stakeNodes, blockCache, disk, restarts>>
          \/ /\ ~known /\ Fault
             /\ GoBack(c, index)
             /\ UNCHANGED <<env, chainTips, bestChain, pool, cps, stakeNodes, blockCache, disk, restarts>>
          \/ /\ known \/ env.kind[b] /= "invalid"
             /\ IF Parent[b] /= Tip \/ FetchPanics(stakeNodes, bestChain, b) THEN Panics
                ELSE /\ Connected(b, IF known THEN index ELSE SetStatusFlags(index, {b}, "valid"))
                     /\ Notifies(c, [job[c] EXCEPT !.at = "attached", !.moved = b, !.attach = Tail(@)])
                     /\ UNCHANGED <<env, chainTips, pool, cps, blockCache, panicked, count>>

\* dropMainChainBlockCache.
DropFromCache(b) == blockCache \ {b}

\* After the notification: the block leaves or enters the cache.
Moved(c) ==
    /\ At(c, "detached") \/ At(c, "attached")
    /\ IF job[c].at = "attached" /\ AfterConnectPanics(job[c].moved) THEN Panics
       ELSE /\ \/ /\ job[c].at = "detached"
                  /\ blockCache' = DropFromCache(job[c].moved) /\ UNCHANGED stakeNodes
               \/ job[c].at = "attached" /\ AfterConnect(job[c].moved)
            /\ Locked(c, [job[c] EXCEPT !.at = "reorging"])
            /\ UNCHANGED <<env, chainTips, index, modified, bestChain, pool, cps, disk, panicked, count>>

\* reorganizeChain ends: NTReorganization when it went well, and NTChainReorgDone.
Arrived(c) ==
    /\ At(c, "reorging") /\ job[c].detach = <<>> /\ job[c].attach = <<>>
    /\ Notifies(c, [job[c] EXCEPT !.at = IF job[c].back THEN "done" ELSE "reorged"])
    /\ UNCHANGED <<env, chainTips, index, modified, bestChain, pool, cps, stakeNodes, blockCache, disk,
                   panicked, count>>

Reorged(c) ==
    /\ At(c, "reorged")
    /\ Notifies(c, [job[c] EXCEPT !.at = "done"])
    /\ UNCHANGED <<env, chainTips, index, modified, bestChain, pool, cps, stakeNodes, blockCache, disk,
                   panicked, count>>

Done(c) ==
    /\ At(c, "done")
    /\ diskIndex' = Flushed(index, modified) /\ modified' = {}
    /\ IF job[c].back \/ job[c].forced THEN Returns(c)
       ELSE Notifies(c, [job[c] EXCEPT !.at = "accepted"])
    /\ UNCHANGED <<env, chainTips, index, bestChain, pool, cps, stakeNodes, blockCache, diskBest, panicked,
                   count>>

\* ForceHeadReorganization to a sibling of the tip.
ForceHeadReorganization(c) ==
    /\ env.force /\ At(c, "idle") /\ chainLock = Nobody
    /\ \E b \in DOMAIN index \ {Tip, Genesis} :
         /\ Tip /= Genesis /\ Parent[b] = Parent[Tip] /\ ~KnownInvalid(index[b])
         /\ Notifies(c, [Idle EXCEPT !.at = "reorg", !.target = b, !.orig = Tip, !.forced = TRUE])
    /\ UNCHANGED <<env, chainTips, index, modified, bestChain, pool, cps, stakeNodes, blockCache, disk,
                   panicked, count>>

-----------------------------------------------------------------------------
(* The process stops, and initChainState loads what is on disk. *)

Fresh(dIndex, dBest) ==
    /\ chainLock = Nobody /\ job = [c \in {"p", "q"} |-> Idle]
    /\ index = dIndex /\ modified = {} /\ chainTips = {dBest}
    /\ bestChain = Path[dBest]
    /\ orphans = <<>> /\ oldestOrphan = None
    /\ checkpointNode = None /\ nextCheckpoint = None
    /\ stakeNodes = {dBest} /\ blockCache = {dBest, Parent[dBest]}

\* loadBlockIndex adds the entries by height.
LoadedTips(idx) ==
    {b \in DOMAIN idx : \A x \in DOMAIN idx : Height[x] > Height[b] => Parent[x] /= b}

Restart ==
    /\ ~panicked
    /\ restarts < env.restarts /\ restarts' = restarts + 1
    /\ chainLock' = Nobody /\ job' = [c \in {"p", "q"} |-> Idle]
    /\ index' = diskIndex /\ modified' = {}
    /\ chainTips' = LoadedTips(diskIndex)
    /\ bestChain' = SetTip(<<>>, diskBest)
    /\ orphans' = <<>> /\ oldestOrphan' = None
    /\ checkpointNode' = None /\ nextCheckpoint' = None
    /\ stakeNodes' = {diskBest} /\ blockCache' = {diskBest, Parent[diskBest]}
    /\ UNCHANGED <<env, disk, panicked, faults>>

\* createChainState.
Init ==
    /\ env \in Scenarios
    /\ diskIndex = [b \in {Genesis} |-> {"data", "valid"}] /\ diskBest = Genesis
    /\ Fresh(diskIndex, diskBest)
    /\ panicked = FALSE /\ restarts = 0 /\ faults = 0

Steps(c) ==
    \/ Accept(c) \/ ConnectBestChain(c) \/ Extend(c) \/ Extended(c) \/ Accepted(c)
    \/ Reorg(c) \/ Detach(c) \/ Attach(c) \/ Moved(c) \/ Arrived(c) \/ Reorged(c) \/ Done(c)

Next ==
    \/ \E c \in {"p", "q"} : ProcessBlock(c) \/ ForceHeadReorganization(c) \/ Steps(c)
    \/ Restart

\* A call that has begun goes on.
Fairness == \A c \in {"p", "q"} : WF_vars(Steps(c))

Spec == Init /\ [][Next]_vars /\ Fairness

-----------------------------------------------------------------------------
Callers == {"p", "q"}
Flags == {"data", "valid", "failed", "badAncestor"}
Positions == {"idle", "accept", "connect", "extend", "extended", "accepted", "reorg",
              "reorging", "detached", "attached", "reorged", "done"}

\* Types of the state.
TypeOK ==
    /\ env \in Scenarios /\ chainLock \in Callers \cup {Nobody}
    /\ \A c \in Callers : job[c].at \in Positions
    /\ DOMAIN index \subseteq Blocks /\ Range(index) \subseteq SUBSET Flags
    /\ modified \subseteq DOMAIN index /\ chainTips \subseteq DOMAIN index
    /\ Range(bestChain) \subseteq DOMAIN index /\ Range(orphans) \subseteq Blocks
    /\ oldestOrphan \in Blocks \cup {None} /\ {checkpointNode, nextCheckpoint} \subseteq Blocks \cup {None}
    /\ stakeNodes \subseteq DOMAIN index /\ blockCache \subseteq DOMAIN index
    /\ DOMAIN diskIndex \subseteq DOMAIN index /\ diskBest \in DOMAIN diskIndex
    /\ panicked \in BOOLEAN

Alone == Cardinality(env.callers) = 1
Quiet == \A c \in Callers : job[c].at = "idle"

\* BFFastAdd goes along to the orphans of the block it was given for, and these
\* are not checked either.  Then the flag "valid" only says that a block was
\* connected, unless the calls bring no block that breaks the rules.
FlagsTrusted == Checkpoints = <<>> \/ \A b \in env.sent : env.kind[b] \notin {"invalid", "misplaced"}

\* The chain view is the path from genesis to its tip, all of it validated and
\* none of it known or in truth invalid, also in the middle of a
\* reorganization and on its way back.
MainChainIsValid ==
    /\ bestChain = Path[Tip]
    /\ \A b \in Range(bestChain) :
         /\ KnownValid(index[b]) /\ ~KnownInvalid(index[b])
         /\ FlagsTrusted => env.kind[b] \notin {"invalid", "insane", "misplaced"}

\* Status flags tell the truth: "valid" and "failed" of the block itself,
\* "badAncestor" of one below it; a block is never both.
FlagsAreTrue ==
    \A b \in DOMAIN index :
      /\ "valid" \in index[b] /\ FlagsTrusted => env.kind[b] /= "invalid"
      /\ "failed" \in index[b] => env.kind[b] = "invalid"
      /\ "badAncestor" \in index[b] =>
           \E a \in Range(Path[b]) \ {b} : a \in DOMAIN index /\ "failed" \in index[a]

\* Between calls no stored block on a valid branch has more work than the
\* tip: invalid branches, forced reorganizations of equals and failed
\* reorganizations do not make the node miss the best chain.
MostWork ==
    Quiet /\ Alone /\ env.restarts = 0 /\ env.faults = 0 /\ ~env.force =>
      \A b \in DOMAIN index :
        (\A a \in Range(Path[b]) : env.kind[a] /= "invalid") => WorkSum[b] <= WorkSum[Tip]

\* A reorganization that fails leaves the chain at the tip it began with.
ReorgRestores ==
    \A c \in Callers : Alone /\ job[c].at = "done" =>
        Tip = IF job[c].back THEN job[c].orig ELSE job[c].target

\* "the current tip, which always has the stake node loaded", whatever was
\* pruned: fetchStakeNode starts from there.
TipStakeNodeLoaded == Tip \in stakeNodes

\* The checkpoint that was passed stays on the best chain.
CheckpointStays == checkpointNode /= None /\ Alone => InChain(bestChain, checkpointNode)

\* What is on disk loads at any moment: the index is closed under parents, and
\* its best block was flushed as valid before the best state named it.
DiskLoads ==
    /\ \A b \in DOMAIN diskIndex : Parent[b] \in DOMAIN diskIndex
    /\ \A b \in Range(Path[diskBest]) : KnownValid(diskIndex[b]) /\ ~KnownInvalid(diskIndex[b])

\* The chain tips that ChainTips and TipGeneration report are the leaves of the
\* index, after orphans, rejections and a load as well.
TipsAreLeaves == chainTips = {b \in DOMAIN index : \A x \in DOMAIN index \ {b} : Parent[x] /= b}

\* Between calls the block cache holds blocks of the main chain only.
CacheIsMainChain == Quiet /\ Alone => \A b \in blockCache : InChain(bestChain, b)

\* With one caller at a time the panics of connectBlock, disconnectBlock and
\* reorganizeChain are not reached, and fetchStakeNode's only where it is asked
\* for genesis, which has no parent: when block 1 is taken off after genesis's
\* stake node was dropped.
PanicsAtGenesisOnly ==
    Alone /\ panicked => Tip /= Genesis /\ Parent[Tip] = Genesis /\ Genesis \notin stakeNodes

\* The parts above together: the chain view is the valid chain with most work,
\* and flags, tips and checkpoint say so.
MainChainIsBest ==
    /\ MainChainIsValid /\ FlagsAreTrue /\ MostWork /\ CheckpointStays /\ TipsAreLeaves

\* What the next call, or the next start, relies on.
StateIsSound == TypeOK /\ TipStakeNodeLoaded /\ DiskLoads /\ CacheIsMainChain /\ PanicsAtGenesisOnly

\* A call ends, with its orphans processed and its reorganization undone where
\* it failed, unless the process stops.
CallsReturn == \A c \in Callers : job[c].at /= "idle" ~> job[c].at = "idle" \/ panicked
=============================================================================
