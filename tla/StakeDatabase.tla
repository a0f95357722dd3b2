--------------------------- MODULE StakeDatabase ---------------------------
(***************************************************************************)
(* The stake database (stakedb/stakedb.go) and its chain monitor           *)
(* (stakedb/chainmonitor.go) between the parts they keep in step: the      *)
(* stake nodes, committed block by block to one database; the diffs of the *)
(* ticket pool, appended afterwards to another; and the live ticket cache, *)
(* in memory.  Blocks and reorganizations come from the notifier.  The     *)
(* process may stop at any point; start-up (NewStakeDatabase,              *)
(* LoadAndRecover, main, SyncChainDB) brings the databases back together   *)
(* by height.                                                              *)
(*                                                                         *)
(* A stake node is its live tickets and the winners drawn with its block's *)
(* header; that undoing a block restores the parent's node is shown in     *)
(* module StakeNode, the pool's cursor is in module TicketPool, and the    *)
(* order in which notifications are handled in module Notifier.  Of the    *)
(* chain database (PostgreSQL) only its best block is kept.  dcrd serves   *)
(* every block by hash, and by height those of its main chain.             *)
(***************************************************************************)
EXTENDS Ancestry, FiniteSets

CONSTANTS Parent,          \* the block tree
          Bought,          \* by block, the tickets bought in it
          Lucky,           \* by block, what the lottery draws if it is live
          TicketMaturity,
          TicketExpiry,
          RecoverDepth,    \* how far LoadAndRecover rewinds, 288 in main
          Start,           \* the block that the databases are synced to
          Scenarios        \* the environments to check

EnvKinds == {"reorgs",    \* dcrd reorganizes
             "rpc",       \* RPCs may fail
             "crashes"}   \* the process stops and is started again

Blocks == DOMAIN Parent
Height == HeightIn(Parent)
Path == PathIn(Parent)
On(b) == {Path[b][i] : i \in DOMAIN Path[b]}
Tickets == UNION {Bought[b] : b \in Blocks}

\* Every block descends from genesis, which is its own parent here.
ASSUME TreeAssumption ==
    /\ Genesis \in Blocks /\ Start \in Blocks /\ Parent \in [Blocks -> Blocks]
    /\ Path[Genesis] = <<Genesis>>
    /\ \A b \in Blocks : Path[b] \in Seq(Blocks) /\ Height[b] = Len(Path[b]) - 1
    /\ \A b \in Blocks \ {Genesis} : Path[b] = Append(Path[Parent[b]], b)

\* A ticket is bought in one block of a chain.
ASSUME TicketsAssumption ==
    /\ DOMAIN Bought = Blocks /\ DOMAIN Lucky = Blocks
    /\ \A b \in Blocks : IsFiniteSet(Bought[b])
    /\ \A b \in Blocks : \A i, j \in DOMAIN Path[b] :
         i /= j => Bought[Path[b][i]] \cap Bought[Path[b][j]] = {}

\* Tickets mature later than any reorganization reaches back.
ASSUME MaturityAssumption ==
    /\ TicketMaturity \in Nat \ {0} /\ TicketExpiry \in Nat \ {0}
    /\ RecoverDepth \in Nat \ {0}
    /\ \A a, b \in Blocks :
         Height[a] >= TicketMaturity /\ Height[b] >= Height[a] =>
           Path[a][Height[a] - TicketMaturity + 1] = Path[b][Height[a] - TicketMaturity + 1]

\* dcrd replaces one block by another that is as high and does not build on it.
\* CommonAncestor's bound is far beyond any reorganization: the notifier passes
\* on the blocks from the height at which the branches part.
Reorganizes(a, b) == Height[b] >= Height[a] /\ a \notin On(b)
PartAt(a, b) ==
    CHOOSE h \in 0 .. Height[b] :
      /\ h > Height[a] \/ Path[a][h + 1] /= Path[b][h + 1]
      /\ \A k \in 0 .. h - 1 : k <= Height[a] /\ Path[a][k + 1] = Path[b][k + 1]
ASSUME ForksAssumption ==
    \A a, b \in Blocks : Reorganizes(a, b) =>
      CommonAncestor(Parent, b, a).chainA = SubSeq(Path[b], PartAt(a, b) + 1, Len(Path[b]))

ASSUME ScenariosAssumption ==
    Scenarios \subseteq [kinds : SUBSET EnvKinds, maxReorgs : Nat, maxStops : Nat]

VARIABLES
    env,              \* the scenario, chosen at the start
    tip,              \* dcrd: the best block
    happened,         \* reorganizations and stops so far, and whether a block was
                      \* to be connected to another than its parent
    inbox,            \* what the notifier has not handled
    chainDB,          \* on disk: the chain database's best block
    chain,            \* on disk: the stake nodes, chain[h + 1] at height h
    diffDB,           \* on disk: the pool diffs by height
    diffs,            \* TicketPool.diffs
    liveTicketCache,
    blockCache,
    pc,               \* what the process does
    job               \* the blocks it is at

dcrd == <<env, tip>>
mem == <<diffs, liveTicketCache, blockCache>>
vars == <<dcrd, happened, inbox, chainDB, chain, diffDB, mem, pc, job>>

has(kind) == kind \in env.kinds

-----------------------------------------------------------------------------
(* Stake nodes and diffs. *)

NodeHeight(c) == Len(c) - 1
BestNode(c) == c[Len(c)]
GenesisNode == [block |-> Genesis, live |-> {}, winners |-> {}]

WinnersOf(b, live) == Lucky[b] \cap live

\* Tickets that have been live for TicketExpiry blocks, when one is connected.
ExpiredByBlock(c) ==
    IF Len(c) > TicketExpiry
      THEN (BestNode(c).live \cap c[Len(c) - TicketExpiry + 1].live) \ BestNode(c).winners
      ELSE {}

PoolDiff(c, maturing) ==
    [in |-> maturing, out |-> BestNode(c).winners \cup ExpiredByBlock(c)]

applyDiff(live, in, out) == (live \cup in) \ out

\* The tickets that stay, and the new ones.
Staying(c) == BestNode(c).live \ (BestNode(c).winners \cup ExpiredByBlock(c))
connectNode(c, b, maturing) ==
    LET live == Staying(c) \cup maturing
    IN Append(c, [block |-> b, live |-> live, winners |-> WinnersOf(b, live)])

\* The tickets that mature in block b, and what a database synced straight to it
\* holds.
Matured(b) == IF Height[b] >= TicketMaturity
                THEN Bought[Path[b][Height[b] - TicketMaturity + 1]] ELSE {}
Synced ==
    [b \in Blocks |->
       LET nodes[i \in 0 .. Height[b]] ==
             IF i = 0 THEN <<GenesisNode>>
             ELSE connectNode(nodes[i - 1], Path[b][i + 1], Matured(Path[b][i + 1]))
       IN nodes[Height[b]]]
SyncedDiffs(b) ==
    [i \in 1 .. Height[b] |-> PoolDiff(Synced[Path[b][i]], Matured(Path[b][i + 1]))]

\* The pool at height h by the diffs d: what has come in and not gone out since.
\* And the heights whose diff changes the pool by another number of tickets than
\* it should (AdvanceToTip's check).
PoolAt(d, h) ==
    {t \in Tickets : \E i \in 1 .. h : t \in d[i].in /\ \A k \in i .. h : t \notin d[k].out}
BadDiffs(d) ==
    {h \in 1 .. Len(d) : Cardinality(PoolAt(d, h)) /=
        Cardinality(PoolAt(d, h - 1)) + Cardinality(d[h].in) - Cardinality(d[h].out)}

NoJob == [sync |-> FALSE, new |-> Genesis, to |-> 0, conn |-> <<>>,
          diff |-> [in |-> {}, out |-> {}]]

Init ==
    /\ env \in Scenarios
    /\ tip = Start /\ inbox = <<>> /\ happened = [reorgs |-> 0, stops |-> 0, misplaced |-> FALSE]
    /\ chainDB = Start /\ chain = Synced[Start]
    /\ diffDB = SyncedDiffs(Start) /\ diffs = SyncedDiffs(Start)
    /\ liveTicketCache = BestNode(Synced[Start]).live
    /\ blockCache = [h \in {} |-> Genesis]
    /\ pc = "idle" /\ job = NoJob

-----------------------------------------------------------------------------
(* dcrd.  The notifier hands each change of the best block to the monitor. *)

Listening == pc \in {"idle", "disconnect", "connect", "append", "store"} /\ ~job.sync
Notify(m) == inbox' = IF Listening THEN Append(inbox, m) ELSE inbox

dcrdConnects(b) ==
    /\ b /= Genesis /\ Parent[b] = tip
    /\ tip' = b
    /\ Notify([type |-> "block", old |-> tip, new |-> b])
    /\ UNCHANGED <<env, happened, chainDB, chain, diffDB, mem, pc, job>>

dcrdReorganizes(b) ==
    /\ has("reorgs") /\ happened.reorgs < env.maxReorgs
    /\ Reorganizes(tip, b)
    /\ tip' = b
    /\ happened' = [happened EXCEPT !.reorgs = @ + 1]
    /\ Notify([type |-> "reorg", old |-> tip, new |-> b])
    /\ UNCHANGED <<env, chainDB, chain, diffDB, mem, pc, job>>

-----------------------------------------------------------------------------
(* Disconnecting a block. *)

\* The process is gone, with what it had in memory.
Ends ==
    /\ pc' = "down" /\ job' = NoJob /\ inbox' = <<>>
    /\ diffs' = <<>> /\ liveTicketCache' = {} /\ blockCache' = [h \in {} |-> Genesis]

\* Mutant: the live ticket cache is left alone.
undoDiffsNot(height) == UNCHANGED liveTicketCache

\* Each diff above the height is undone, the last one first.
undoDiffs(height) ==
    LET undone == height + 1 .. Len(diffs)
    IN liveTicketCache' =
         {t \in Tickets :
            \/ t \in liveTicketCache /\ \A k \in undone : t \notin diffs[k].in
            \/ \E i \in undone :
                 t \in diffs[i].out /\ \A k \in height + 1 .. i : t \notin diffs[k].in}

\* The parent is looked up by the header of the best block; that it has the
\* height below the best node's is checked, or the process panics.
disconnectBlock(neglectCache) ==
    LET parent == Parent[BestNode(chain).block]
        n == Len(chain) - 1
    IN IF Height[parent] = NodeHeight(chain) - 1
         THEN /\ diffs' = SubSeq(diffs, 1, IF Len(diffs) < n - 1 THEN Len(diffs) ELSE n - 1)
              /\ IF neglectCache THEN UNCHANGED liveTicketCache ELSE undoDiffs(n - 1)
              /\ chain' = [SubSeq(chain, 1, n) EXCEPT ![n].block = parent]
              /\ UNCHANGED <<inbox, blockCache, pc, job>>
         ELSE Ends /\ UNCHANGED chain

-----------------------------------------------------------------------------
(* The chain monitor's handlers. *)

\* Mutant: the common ancestor is taken one block too high.
AncestorHeightAbove(new, newChain) == Height[new] - Len(newChain) + 1

AncestorHeight(new, newChain) == Height[new] - Len(newChain)

Receive ==
    /\ pc = "idle" /\ inbox /= <<>>
    /\ LET m == Head(inbox)
           newChain == IF m.type = "block" THEN <<m.new>>
                       ELSE CommonAncestor(Parent, m.new, m.old).chainA
       IN /\ job' = [NoJob EXCEPT !.new = m.new, !.conn = newChain,
                                  !.to = AncestorHeight(m.new, newChain)]
          /\ pc' = IF m.type = "block" THEN "connect" ELSE "disconnect"
    /\ inbox' = Tail(inbox)
    /\ UNCHANGED <<dcrd, happened, chainDB, chain, diffDB, mem>>

\* An error is logged; the other handlers run all the same.
HandlerFails == pc' = "store" /\ UNCHANGED job

Disconnect ==
    /\ pc = "disconnect" /\ NodeHeight(chain) > job.to
    /\ \/ disconnectBlock(FALSE)
       \/ /\ has("rpc")
          /\ HandlerFails
          /\ UNCHANGED <<inbox, chain, mem>>
    /\ UNCHANGED <<dcrd, happened, chainDB, diffDB>>

Disconnected ==
    /\ pc = "disconnect" /\ NodeHeight(chain) <= job.to
    /\ IF NodeHeight(chain) = job.to THEN pc' = "connect" /\ UNCHANGED job ELSE HandlerFails
    /\ UNCHANGED <<dcrd, happened, inbox, chainDB, chain, diffDB, mem>>

\* The block whose tickets mature: from the cache or by height from dcrd.
MaturingBlock(h) == IF h \in DOMAIN blockCache THEN blockCache[h] ELSE Path[tip][h + 1]

\* Fetch the block, look up the maturing tickets, connect and commit the node.
\* ConnectNode refuses a ticket that is live already.  SyncChainDB gives up on an
\* error, and main with it.
ConnectBlock ==
    /\ pc = "connect" /\ job.conn /= <<>>
    /\ LET b == Head(job.conn)
           h == Height[b]
           m == h - TicketMaturity
           maturing == IF m >= 0 THEN Bought[MaturingBlock(m)] ELSE {}
           cached == [k \in (DOMAIN blockCache \ {m}) \cup {h} |->
                         IF k = h THEN b ELSE blockCache[k]]
       IN /\ happened' = [happened EXCEPT !.misplaced = @ \/ Parent[b] /= BestNode(chain).block]
          /\ IF h > NodeHeight(chain) /\ Staying(chain) \cap maturing = {}
               THEN /\ chain' = connectNode(chain, b, maturing)
                    /\ blockCache' = cached
                    /\ job' = [job EXCEPT !.conn = Tail(@), !.diff = PoolDiff(chain, maturing)]
                    /\ pc' = "append"
                    /\ UNCHANGED <<inbox, diffs, liveTicketCache>>
             ELSE IF job.sync
               THEN Ends /\ UNCHANGED chain
               ELSE /\ HandlerFails
                    /\ blockCache' = cached
                    /\ UNCHANGED <<inbox, chain, diffs, liveTicketCache>>
    /\ UNCHANGED <<dcrd, chainDB, diffDB>>

\* The block cannot be fetched.
GetBlockFails ==
    /\ has("rpc") /\ pc = "connect" /\ job.conn /= <<>>
    /\ IF job.sync THEN Ends ELSE HandlerFails /\ UNCHANGED <<inbox, mem>>
    /\ UNCHANGED <<dcrd, happened, chainDB, chain, diffDB>>

\* The maturing block cannot be fetched: its tickets are read from a nil block.
MaturingBlockFails ==
    /\ has("rpc") /\ pc = "connect" /\ job.conn /= <<>>
    /\ Height[Head(job.conn)] - TicketMaturity \in Nat \ DOMAIN blockCache
    /\ Ends
    /\ UNCHANGED <<dcrd, happened, chainDB, chain, diffDB>>

\* The rest of ConnectBlock, when the node is committed: live ticket cache and
\* PoolDB.Append, which refuses a diff that does not build on its tip.
AppendDiff ==
    /\ pc = "append"
    /\ liveTicketCache' = applyDiff(liveTicketCache, job.diff.in, job.diff.out)
    /\ IF Len(diffs) + 1 = NodeHeight(chain)
         THEN /\ diffs' = Append(diffs, job.diff)
              /\ diffDB' = [h \in 1 .. Len(diffDB) \cup {NodeHeight(chain)} |->
                               IF h = NodeHeight(chain) THEN job.diff ELSE diffDB[h]]
         ELSE UNCHANGED <<diffs, diffDB>>
    /\ pc' = "connect"
    /\ job' = [job EXCEPT !.diff = NoJob.diff]
    /\ UNCHANGED <<dcrd, happened, inbox, chainDB, chain, blockCache>>

Connected ==
    /\ pc = "connect" /\ job.conn = <<>>
    /\ pc' = "store"
    /\ UNCHANGED <<dcrd, happened, inbox, chainDB, chain, diffDB, mem, job>>

\* The chain database follows, in a later handler group or in SyncChainDB.
StoreBlock ==
    /\ pc = "store"
    /\ chainDB' = job.new
    /\ pc' = IF job.sync THEN "sync" ELSE "idle"
    /\ job' = NoJob
    /\ UNCHANGED <<dcrd, happened, inbox, chain, diffDB, mem>>

-----------------------------------------------------------------------------
(* Stopping and starting. *)

Stop ==
    /\ has("crashes") /\ happened.stops < env.maxStops
    /\ pc \notin {"down", "corrupt"}
    /\ happened' = [happened EXCEPT !.stops = @ + 1]
    /\ Ends
    /\ UNCHANGED <<dcrd, chainDB, chain, diffDB>>

\* NewStakeDatabase opens both databases, loading all diffs, and rolls the
\* higher one back.
Open ==
    /\ has("crashes") /\ pc = "down"
    /\ diffs' = diffDB
    /\ pc' = "load"
    /\ UNCHANGED <<dcrd, happened, inbox, chainDB, chain, diffDB, liveTicketCache, blockCache, job>>

RollBack ==
    /\ pc = "load" /\ NodeHeight(chain) > Len(diffs)
    /\ disconnectBlock(TRUE)
    /\ UNCHANGED <<dcrd, happened, chainDB, diffDB>>

PopulateLiveTicketCache == liveTicketCache' = BestNode(chain).live

Trimmed(d) == SubSeq(d, 1, NodeHeight(chain))

\* The pool is trimmed and advanced to its tip.  If it cannot be, LoadAndRecover
\* rewinds both databases.
AdvanceToTip ==
    /\ pc = "load" /\ NodeHeight(chain) <= Len(diffs)
    /\ diffs' = Trimmed(diffs)
    /\ LET bad == BadDiffs(Trimmed(diffs))
           stop == CHOOSE h \in bad : \A k \in bad : h <= k
       IN IF bad = {}
            THEN PopulateLiveTicketCache /\ pc' = "purge" /\ UNCHANGED job
            ELSE /\ pc' = "recover"
                 /\ job' = [NoJob EXCEPT !.to = IF stop > RecoverDepth THEN stop - RecoverDepth
                                                ELSE 0]
                 /\ UNCHANGED liveTicketCache
    /\ UNCHANGED <<dcrd, happened, inbox, chainDB, chain, diffDB, blockCache>>

LoadAndRecover ==
    /\ pc = "recover" /\ NodeHeight(chain) > job.to
    /\ disconnectBlock(TRUE)
    /\ UNCHANGED <<dcrd, happened, chainDB, diffDB>>

Recovered ==
    /\ pc = "recover" /\ NodeHeight(chain) <= job.to
    /\ PopulateLiveTicketCache
    /\ pc' = "purge" /\ job' = NoJob
    /\ UNCHANGED <<dcrd, happened, inbox, chainDB, chain, diffDB, diffs, blockCache>>

\* main purges the chain database's orphaned blocks; a purge that finds the
\* stake database too low is an error.
PurgeBestBlocks ==
    /\ pc = "purge"
    /\ LET orphaned == OrphanedTipLength(Path[chainDB], Path[tip])
           height == Height[chainDB] - orphaned
       IN /\ orphaned >= 0
          /\ chainDB' = Path[chainDB][height + 1]
          /\ IF orphaned > 0 /\ NodeHeight(chain) < height
               THEN Ends
               ELSE pc' = "rewind" /\ UNCHANGED <<inbox, mem, job>>
    /\ UNCHANGED <<dcrd, happened, chain, diffDB>>

RewindStakeDB ==
    /\ pc = "rewind" /\ NodeHeight(chain) > Height[chainDB]
    /\ disconnectBlock(FALSE)
    /\ UNCHANGED <<dcrd, happened, chainDB, diffDB>>

\* Mutant: the loop waits for a height below the chain database's.
RewoundBelow ==
    /\ pc = "rewind" /\ NodeHeight(chain) < Height[chainDB]
    /\ pc' = "sync"
    /\ UNCHANGED <<dcrd, happened, inbox, chainDB, chain, diffDB, mem, job>>

Rewound ==
    /\ pc = "rewind" /\ NodeHeight(chain) <= Height[chainDB]
    /\ pc' = "sync"
    /\ UNCHANGED <<dcrd, happened, inbox, chainDB, chain, diffDB, mem, job>>

\* SyncChainDB: the next block of dcrd's main chain, until there is none and
\* main starts to listen.  A stake database that is too far behind is reported
\* as corrupted.
SyncChainDB ==
    /\ pc = "sync"
    /\ LET ib == Height[chainDB] + 1
           behind == ib - NodeHeight(chain)
           b == Path[tip][ib + 1]
       IN IF ib > Height[tip] THEN pc' = "idle" /\ UNCHANGED job
          ELSE IF behind > 1 THEN pc' = "corrupt" /\ UNCHANGED job
          ELSE /\ job' = [NoJob EXCEPT !.sync = TRUE, !.new = b,
                                       !.conn = IF behind = 1 THEN <<b>> ELSE <<>>]
               /\ pc' = "connect"
    /\ UNCHANGED <<dcrd, happened, inbox, chainDB, chain, diffDB, mem>>

-----------------------------------------------------------------------------
Run ==
    \/ Receive \/ Disconnect \/ Disconnected \/ ConnectBlock
    \/ AppendDiff \/ Connected \/ StoreBlock
    \/ Open \/ RollBack \/ AdvanceToTip \/ LoadAndRecover \/ Recovered
    \/ PurgeBestBlocks \/ RewindStakeDB \/ Rewound \/ SyncChainDB

Next ==
    \/ \E b \in Blocks : dcrdConnects(b) \/ dcrdReorganizes(b)
    \/ Run
    \/ GetBlockFails \/ MaturingBlockFails \/ Stop

\* The process goes on, and is started again when it has ended.
Spec == Init /\ [][Next]_vars /\ WF_vars(Run)

-----------------------------------------------------------------------------
Message == [type : {"block", "reorg"}, old : Blocks, new : Blocks]
Diff == [in : SUBSET Tickets, out : SUBSET Tickets]
PCs == {"idle", "disconnect", "connect", "append", "store", "down", "load", "recover",
        "purge", "rewind", "sync", "corrupt"}

Node == [block : Blocks, live : SUBSET Tickets, winners : SUBSET Tickets]

\* Types; the winners are drawn from the live tickets.
TypeOK ==
    /\ env \in Scenarios /\ tip \in Blocks /\ chainDB \in Blocks
    /\ happened \in [reorgs : 0 .. env.maxReorgs, stops : 0 .. env.maxStops,
                    misplaced : BOOLEAN]
    /\ inbox \in Seq(Message)
    /\ chain \in Seq(Node) /\ chain /= <<>>
    /\ \A i \in DOMAIN chain : chain[i].winners \subseteq chain[i].live
    /\ diffs \in Seq(Diff) /\ diffDB \in Seq(Diff)
    /\ liveTicketCache \subseteq Tickets
    /\ DOMAIN blockCache \subseteq Nat /\ \A h \in DOMAIN blockCache : blockCache[h] \in Blocks
    /\ pc \in PCs
    /\ job \in [sync : BOOLEAN, new : Blocks, to : Nat, conn : Seq(Blocks), diff : Diff]

\* Restarting and reorganizing together can leave a diff of the old branch on
\* disk below a node of the new one.  When RPCs fail, blocks are missed; the next
\* one is connected all the same, to a node that is not its parent's.
Undisturbed == /\ ~(has("reorgs") /\ has("crashes"))
               /\ has("rpc") => ~happened.misplaced

\* The stake database rolled back, crashed, rewound or reorganized is the one
\* that a fresh sync to its best block would build, node by node: no block is
\* skipped or connected to another than its parent, and the tickets that mature
\* are those of its own branch, though looked up by height.  When RPCs fail, as
\* long as blocks are connected to their parents.
SameAsFreshSync ==
    Undisturbed => chain = Synced[BestNode(chain).block]

\* The diffs, in memory and on disk, rebuild the live tickets of every stake
\* node: what PoolAtHeight answers.  (Memory is ahead of the disk and behind the
\* node while a block's diff is not appended.)
PoolMatchesChain ==
    Undisturbed =>
      \A h \in 0 .. NodeHeight(chain) :
         /\ h <= Len(diffs) => PoolAt(diffs, h) = chain[h + 1].live
         /\ h <= Len(diffDB) /\ pc /= "append" => PoolAt(diffDB, h) = chain[h + 1].live

\* Whatever stops, fails or reorganizes, the ticket pool is at the height of the
\* stake node when no block is half connected.
HeightsAgree ==
    pc \notin {"down", "load", "append"} => Len(diffs) = NodeHeight(chain)

CacheAccurate ==
    pc \notin {"down", "load", "recover", "append"} =>
      liveTicketCache = BestNode(chain).live

\* The live ticket cache, from which the pool's value is computed, holds the
\* live tickets of the best node, through failed and half-done reorganizations
\* and after restarts.
CacheMatchesNode == Undisturbed => CacheAccurate

\* The stake node, the ticket pool's diffs in memory and on disk, and the live
\* ticket cache agree with each other after anything that stops, fails or is
\* undone half way.
StoresAgree == TypeOK /\ PoolMatchesChain /\ HeightsAgree /\ CacheMatchesNode

\* When dcrd is quiet, and RPCs work, the stake database ends at its best block:
\* after reorganizations that were queued, or after a restart at any point.
EndsAtBestBlock ==
    Undisturbed /\ ~has("rpc") => <>[](pc = "idle" /\ BestNode(chain).block = tip)

\* Rewind: "During disconnect, the ticket pool cache and value are kept
\* accurate, unless neglectCache is true."
KeptAccurate == CacheAccurate
=============================================================================
