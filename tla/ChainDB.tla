------------------------------ MODULE ChainDB ------------------------------
(***************************************************************************)
(* The chain database (db/dcrpg): how StoreBlock writes a block to the     *)
(* PostgreSQL tables in many separate statements, how a reorganization     *)
(* flags the rows of the old branch as side chain and stores the new one,  *)
(* and how start-up (NewChainDB, PurgeBestBlocks, SyncChainDB) repairs     *)
(* what a stop at any point has left behind.                               *)
(*                                                                         *)
(* Tables keep what tells the branches apart.  Every transaction has one   *)
(* input and one output, so rows of vins, vouts and addresses are named by *)
(* the transaction; they are shared by all blocks that contain it, while a *)
(* row of transactions belongs to one block.  The UTXO cache falls back on *)
(* the tables, and the cache of block row IDs (lastBlock) on block_chain:  *)
(* both are left out, as are tickets, votes and misses.                    *)
(***************************************************************************)
EXTENDS Ancestry, FiniteSets, SequencesExt

CONSTANTS Parent,          \* the block tree
          Regular,         \* by block, the transactions of the regular tree
          Stake,           \* by block, those of the stake tree
          Funding,         \* by transaction, the one whose output it spends
          OldOutput,       \* a transaction whose output was spent long ago
          Start,           \* the block that the tables are synced to
          Scenarios,       \* the environments to check
          None

EnvKinds == {"reorgs",    \* dcrd reorganizes
             "rpc",       \* RPCs may fail
             "crashes"}   \* the process stops and is started again

Blocks == DOMAIN Parent
Height == HeightIn(Parent)
Path == PathIn(Parent)
Txs == UNION {Regular[b] \cup Stake[b] : b \in Blocks}
Trees == {"regular", "stake"}

ASSUME ChainDBAssumption ==
    /\ Genesis \in Blocks /\ Start \in Blocks
    /\ DOMAIN Regular = Blocks /\ DOMAIN Stake = Blocks
    /\ \A b \in Blocks : Regular[b] \cap Stake[b] = {}
    /\ Funding \in [Txs -> Txs \cup {None}]
    /\ None \notin Txs /\ None \notin Blocks
    /\ Scenarios \subseteq [kinds : SUBSET EnvKinds, disapproving : SUBSET (Blocks \ {Genesis}),
                            maxReorgs : Nat, maxStops : Nat]

VARIABLES
    env,        \* the scenario, chosen at the start
    tip,        \* dcrd: the best block
    happened,   \* reorganizations and stops so far
    inbox,      \* what the notifier has not handled
    blocks,     \* table: by block, is_valid and is_mainchain
    nextHash,   \* table block_chain: by block, the next one
    txs,        \* table transactions: by <<tx, block>>, is_valid and is_mainchain
    vins,       \* table: by tx, is_valid, is_mainchain and the block (block_time)
    vouts,      \* table: by tx, the row of transactions that spends it
    addrs,      \* table addresses: by tx, valid_mainchain
    meta,       \* table: the best block
    bestBlock,  \* in memory
    previous,   \* in memory: the notifier's previous block
    pc,         \* what the process does
    job         \* the blocks it is at

dcrd == <<env, tip>>
mem == <<bestBlock, previous>>
tables == <<blocks, nextHash, txs, vins, vouts, addrs>>
vars == <<dcrd, happened, inbox, tables, meta, mem, pc, job>>

has(kind) == kind \in env.kinds

TxsOf(b, tree) == IF tree = "regular" THEN Regular[b] ELSE Stake[b]
AllTxs(b) == Regular[b] \cup Stake[b]
RowsOf(b) == {<<t, b>> : t \in AllTxs(b)}
Good == [valid |-> TRUE, main |-> TRUE]

-----------------------------------------------------------------------------
(* What a chain of blocks p should be in the tables. *)

\* The votes in a block disapprove the regular tree of its parent.
Approved(p, b) == \A c \in Range(p) : Parent[c] = b /\ c /= b => c \notin env.disapproving

RowsOn(p) == UNION {RowsOf(b) : b \in Range(p)}
ValidOn(p, r) == r[1] \in Stake[r[2]] \/ Approved(p, r[2])
NextOn(p, b) == LET i == CHOOSE k \in DOMAIN p : p[k] = b
                IN IF i = Len(p) THEN None ELSE p[i + 1]

\* The last of the blocks on p with transaction t, and the valid row that
\* spends its output.
LastWith(p, t) == LET i == CHOOSE k \in DOMAIN p : /\ t \in AllTxs(p[k])
                                                   /\ \A n \in k + 1 .. Len(p) : t \notin AllTxs(p[n])
                  IN p[i]
SpentBy(rows, t) == LET s == {r \in rows : Funding[r[1]] = t}
                    IN IF s = {} THEN None ELSE CHOOSE r \in s : TRUE

NoJob == [kind |-> "none", block |-> Genesis, root |-> Genesis, conn |-> <<>>,
          trees |-> [t \in Trees |-> "none"], purge |-> 0]

Init ==
    LET p == Path[Start]
        rows == RowsOn(p)
        txsOn == {r[1] : r \in rows}
    IN /\ env \in Scenarios
       /\ tip = Start /\ inbox = <<>> /\ happened = [reorgs |-> 0, stops |-> 0]
       /\ blocks = [b \in Range(p) |-> [valid |-> Approved(p, b), main |-> TRUE]]
       /\ nextHash = [b \in Range(p) |-> NextOn(p, b)]
       /\ txs = [r \in rows |-> [valid |-> ValidOn(p, r), main |-> TRUE]]
       /\ vins = [t \in txsOn |-> LET b == LastWith(p, t)
                                  IN [valid |-> ValidOn(p, <<t, b>>), main |-> TRUE, block |-> b]]
       /\ vouts = [t \in txsOn |-> SpentBy({r \in rows : ValidOn(p, r)}, t)]
       /\ addrs = [t \in txsOn |-> ValidOn(p, <<t, LastWith(p, t)>>)]
       /\ meta = Start /\ bestBlock = Start /\ previous = Start
       /\ pc = "idle" /\ job = NoJob

-----------------------------------------------------------------------------
(* dcrd.  The notifier hands each change of the best block to the handlers. *)

Listening == pc = "idle" \/ job.kind \in {"block", "reorg"}
Notify(m) == inbox' = IF Listening THEN Append(inbox, m) ELSE inbox

dcrdConnects(b) ==
    /\ b /= Genesis /\ Parent[b] = tip
    /\ tip' = b
    /\ Notify([type |-> "block", old |-> tip, new |-> b])
    /\ UNCHANGED <<env, happened, tables, meta, mem, pc, job>>

dcrdReorganizes(b) ==
    /\ has("reorgs") /\ happened.reorgs < env.maxReorgs
    /\ Height[b] >= Height[tip] /\ tip \notin Range(Path[b])
    /\ tip' = b
    /\ happened' = [happened EXCEPT !.reorgs = @ + 1]
    /\ Notify([type |-> "reorg", old |-> tip, new |-> b])
    /\ UNCHANGED <<env, tables, meta, mem, pc, job>>

\* The process is gone, with what it had in memory.
Ends ==
    /\ pc' = "down" /\ job' = NoJob /\ inbox' = <<>>
    /\ bestBlock' = None /\ previous' = None

-----------------------------------------------------------------------------
(* StoreBlock, statement by statement or SQL transaction. *)

Storing(b) == [job EXCEPT !.block = b, !.trees = NoJob.trees]

\* An error is logged by the notifier; SyncChainDB gives up, and main with it.
StoreFails ==
    IF job.kind = "sync" THEN Ends
    ELSE pc' = "idle" /\ job' = NoJob /\ UNCHANGED <<inbox, mem>>

\* Inputs that are in the table are updated.
upsertVins(b, new) == [t \in new |-> [valid |-> TRUE, main |-> TRUE, block |-> b]] @@ vins

\* The two trees are stored by two goroutines.  First vouts, vins and
\* transactions; rows that exist are updated, but not the spending of vouts.
storeTxns(tree) ==
    /\ pc = "trees" /\ job.trees[tree] = "none"
    /\ LET b == job.block
           new == TxsOf(b, tree)
       IN /\ vouts' = vouts @@ [t \in new |-> None]
          /\ vins' = upsertVins(b, new)
          /\ txs' = [r \in {<<t, b>> : t \in new} |-> Good] @@ txs
    /\ job' = [job EXCEPT !.trees[tree] = "txns"]
    /\ UNCHANGED <<dcrd, happened, inbox, blocks, nextHash, addrs, meta, mem, pc>>

setSpendingForVouts(b, new) ==
    [t \in DOMAIN vouts |->
       IF \E s \in new : Funding[s] = t
         THEN <<CHOOSE s \in new : Funding[s] = t, b>> ELSE vouts[t]]

\* Then addresses, and the outputs that the transactions spend.  An output that
\* is not in the table is an error, and the SQL transaction is rolled back.
storeAddresses(tree) ==
    /\ pc = "trees" /\ job.trees[tree] = "txns"
    /\ LET b == job.block
           new == TxsOf(b, tree)
       IN IF \A t \in new : Funding[t] \in DOMAIN vouts \cup {None}
            THEN /\ addrs' = [t \in new |-> TRUE] @@ addrs
                 /\ vouts' = setSpendingForVouts(b, new)
                 /\ job' = [job EXCEPT !.trees[tree] = "stored"]
            ELSE /\ job' = [job EXCEPT !.trees[tree] = "failed"]
                 /\ UNCHANGED <<addrs, vouts>>
    /\ UNCHANGED <<dcrd, happened, inbox, blocks, nextHash, txs, vins, meta, mem, pc>>

TreesFail ==
    /\ pc = "trees" /\ Range(job.trees) \subseteq {"stored", "failed"}
    /\ "failed" \in Range(job.trees)
    /\ StoreFails
    /\ UNCHANGED <<dcrd, happened, tables, meta>>

InsertBlock ==
    /\ pc = "trees" /\ Range(job.trees) = {"stored"}
    /\ blocks' = (job.block :> Good) @@ blocks
    /\ pc' = "chain"
    /\ UNCHANGED <<dcrd, happened, inbox, nextHash, txs, vins, vouts, addrs, meta, mem, job>>

\* A row that is there is left alone.
InsertBlockPrevNext ==
    /\ pc = "chain"
    /\ nextHash' = nextHash @@ (job.block :> None)
    /\ pc' = "last"
    /\ UNCHANGED <<dcrd, happened, inbox, blocks, txs, vins, vouts, addrs, meta, mem, job>>

\* Mutant: a parent that is not in the table is nothing to worry about.
LocatedAlways(last) == TRUE

\* The parent is located in block_chain.
Located(last) == last \in DOMAIN nextHash

\* UpdateLastBlock: link the parent to this block and, if the votes in this
\* block disapprove it, invalidate it.
UpdateBlockNext ==
    /\ pc = "last"
    /\ LET last == Parent[job.block]
       IN IF ~Located(last)
            THEN StoreFails /\ UNCHANGED nextHash
            ELSE /\ nextHash' = [nextHash EXCEPT ![last] = job.block]
                 /\ pc' = IF job.block \in env.disapproving THEN "invalidate" ELSE "best"
                 /\ UNCHANGED <<inbox, mem, job>>
    /\ UNCHANGED <<dcrd, happened, blocks, txs, vins, vouts, addrs, meta>>

UpdateLastBlockValid ==
    /\ pc = "invalidate"
    /\ blocks' = [blocks EXCEPT ![Parent[job.block]].valid = FALSE]
    /\ pc' = "vouts"
    /\ UNCHANGED <<dcrd, happened, inbox, nextHash, txs, vins, vouts, addrs, meta, mem, job>>

\* Mutant: the spending transactions of both trees are cleared.
clearVoutStakeToo(b) ==
    [t \in DOMAIN vouts |-> IF vouts[t] \in RowsOf(b) THEN None ELSE vouts[t]]

clearVoutRegularSpendTxRowIDs(b) ==
    [t \in DOMAIN vouts |->
       IF \E r \in Regular[b] : vouts[t] = <<r, b>> THEN None ELSE vouts[t]]

UpdateLastVouts ==
    /\ pc = "vouts"
    /\ vouts' = clearVoutRegularSpendTxRowIDs(Parent[job.block])
    /\ pc' = "vins"
    /\ UNCHANGED <<dcrd, happened, inbox, blocks, nextHash, txs, vins, addrs, meta, mem, job>>

\* Inputs are found by transaction and block time: those of a transaction that
\* is in another block by now are not, which is an error.
UpdateLastVins ==
    /\ pc = "vins"
    /\ LET last == Parent[job.block]
           found == {t \in AllTxs(last) \cap DOMAIN vins : vins[t].block = last}
       IN \E done \in SUBSET found :
            /\ vins' = [t \in DOMAIN vins |->
                          IF t \in done THEN [vins[t] EXCEPT !.valid = t \in Stake[last], !.main = TRUE]
                          ELSE vins[t]]
            /\ IF found = AllTxs(last)
                 THEN done = found /\ pc' = "txns" /\ UNCHANGED <<inbox, mem, job>>
                 ELSE StoreFails
    /\ UNCHANGED <<dcrd, happened, blocks, nextHash, txs, vouts, addrs, meta>>

\* Votes are about the regular tree only.
RegularRows(b) == {<<t, b>> : t \in Regular[b]}

UpdateTransactionsValid ==
    /\ pc = "txns"
    /\ txs' = [r \in DOMAIN txs |-> IF r \in RegularRows(Parent[job.block])
                                      THEN [txs[r] EXCEPT !.valid = FALSE] ELSE txs[r]]
    /\ pc' = "addrs"
    /\ UNCHANGED <<dcrd, happened, inbox, blocks, nextHash, vins, vouts, addrs, meta, mem, job>>

UpdateLastAddressesValid ==
    /\ pc = "addrs"
    /\ addrs' = [t \in DOMAIN addrs |-> addrs[t] /\ t \notin Regular[Parent[job.block]]]
    /\ pc' = "best"
    /\ UNCHANGED <<dcrd, happened, inbox, blocks, nextHash, txs, vins, vouts, meta, mem, job>>

SetBestBlock ==
    /\ pc = "best"
    /\ bestBlock' = job.block
    /\ pc' = "meta"
    /\ UNCHANGED <<dcrd, happened, inbox, tables, meta, previous, job>>

SetDBBestBlock ==
    /\ pc = "meta"
    /\ meta' = job.block
    /\ CASE job.kind = "block" -> pc' = "idle" /\ job' = NoJob
         [] job.kind = "sync"  -> pc' = "sync" /\ UNCHANGED job
         [] job.kind = "reorg" -> pc' = "connect" /\ UNCHANGED job
    /\ UNCHANGED <<dcrd, happened, inbox, tables, mem>>

-----------------------------------------------------------------------------
(* The handlers of new blocks (blockdata) and reorganizations (dcrpg). *)

\* The notifier passes on the blocks that extend the previous one.  A block
\* whose data cannot be collected is not stored at all.
Receive ==
    /\ pc = "idle" /\ inbox /= <<>>
    /\ inbox' = Tail(inbox)
    /\ LET m == Head(inbox)
           fork == CommonAncestor(Parent, m.new, m.old)
           connects == m.type = "block" /\ Parent[m.new] = previous
       IN /\ previous' = IF connects \/ m.type = "reorg" THEN m.new ELSE previous
          /\ \/ /\ connects
                /\ job' = [NoJob EXCEPT !.kind = "block", !.block = m.new]
                /\ pc' = "trees"
             \/ /\ m.type = "block" /\ (~connects \/ has("rpc"))
                /\ UNCHANGED <<pc, job>>
             \/ /\ m.type = "reorg"
                /\ job' = [NoJob EXCEPT !.kind = "reorg", !.root = fork.ancestor,
                                        !.conn = fork.chainA]
                /\ pc' = "move"
    /\ UNCHANGED <<dcrd, happened, tables, meta, bestBlock>>

\* TipToSideChain: from the best block down to the common ancestor.  A block
\* that is not in the table has no previous hash.
PreviousHash(b) == IF b \in DOMAIN blocks \ {Genesis} THEN Parent[b] ELSE None

SetMainchainByBlockHash ==
    /\ pc = "move" /\ bestBlock \notin {job.root, None}
    /\ blocks' = [blocks EXCEPT ![bestBlock].main = FALSE]
    /\ pc' = "movetxns"
    /\ UNCHANGED <<dcrd, happened, inbox, nextHash, txs, vins, vouts, addrs, meta, mem, job>>

UpdateTransactionsMainchain ==
    /\ pc = "movetxns"
    /\ txs' = [r \in DOMAIN txs |-> IF r[2] = bestBlock THEN [txs[r] EXCEPT !.main = FALSE]
                                    ELSE txs[r]]
    /\ pc' = "movevouts"
    /\ UNCHANGED <<dcrd, happened, inbox, blocks, nextHash, vins, vouts, addrs, meta, mem, job>>

clearVoutAllSpendTxRowIDs(b) ==
    [t \in DOMAIN vouts |-> IF vouts[t] \in RowsOf(b) THEN None ELSE vouts[t]]

UnspendVouts ==
    /\ pc = "movevouts"
    /\ vouts' = clearVoutAllSpendTxRowIDs(bestBlock)
    /\ pc' = "movevins"
    /\ UNCHANGED <<dcrd, happened, inbox, blocks, nextHash, txs, vins, addrs, meta, mem, job>>

SetVinsMainchainByBlock ==
    /\ pc = "movevins"
    /\ vins' = [t \in DOMAIN vins |-> IF t \in AllTxs(bestBlock) THEN [vins[t] EXCEPT !.main = FALSE]
                                      ELSE vins[t]]
    /\ pc' = "moveaddrs"
    /\ UNCHANGED <<dcrd, happened, inbox, blocks, nextHash, txs, vouts, addrs, meta, mem, job>>

\* Addresses, and on to the next block.
UpdateAddressesMainchain ==
    /\ pc = "moveaddrs"
    /\ addrs' = [t \in DOMAIN addrs |-> addrs[t] /\ t \notin AllTxs(bestBlock)]
    /\ bestBlock' = PreviousHash(bestBlock)
    /\ pc' = "move"
    /\ UNCHANGED <<dcrd, happened, inbox, blocks, nextHash, txs, vins, vouts, meta, previous, job>>

Moved ==
    /\ pc = "move" /\ bestBlock = job.root
    /\ pc' = "connect"
    /\ UNCHANGED <<dcrd, happened, inbox, tables, meta, mem, job>>

\* switchToSideChain stores the blocks of the new branch.  If one cannot be
\* fetched, ReorgHandler reads the hash of a nil pointer.
Connect ==
    /\ pc = "connect"
    /\ \/ /\ job.conn = <<>>
          /\ pc' = "idle" /\ job' = NoJob
          /\ UNCHANGED <<inbox, mem>>
       \/ /\ job.conn /= <<>>
          /\ pc' = "trees"
          /\ job' = [Storing(Head(job.conn)) EXCEPT !.conn = Tail(job.conn)]
          /\ UNCHANGED <<inbox, mem>>
       \/ job.conn /= <<>> /\ has("rpc") /\ Ends
    /\ UNCHANGED <<dcrd, happened, tables, meta>>

-----------------------------------------------------------------------------
(* Stopping and starting. *)

Stop ==
    /\ has("crashes") /\ happened.stops < env.maxStops
    /\ pc /= "down"
    /\ happened' = [happened EXCEPT !.stops = @ + 1]
    /\ Ends
    /\ UNCHANGED <<dcrd, tables, meta>>

Best(S) == CHOOSE b \in S : \A c \in S : Height[c] <= Height[b]

RetrieveBestBlock == Best({b \in DOMAIN blocks : blocks[b].main})

\* Transactions are written before the block's own row.
RetrieveTxsBestBlockMainchain ==
    LET best == Best({r[2] : r \in {q \in DOMAIN txs : txs[q].main}})
    IN IF Height[best] > Height[RetrieveBestBlock] THEN best ELSE RetrieveBestBlock

\* NewChainDB reads the best block of the tables (job.block) and of meta
\* (job.root, its height is kept).
NewChainDB ==
    /\ pc = "down"
    /\ job' = [NoJob EXCEPT !.kind = "check", !.block = RetrieveTxsBestBlockMainchain, !.root = meta]
    /\ pc' = "check"
    /\ UNCHANGED <<dcrd, happened, inbox, tables, meta, mem>>

\* The block_chain table without a block, whose parent has no next block then.
deleteBlockFromChain(b) ==
    [c \in DOMAIN nextHash \ {b} |->
       IF c = Parent[b] /\ (b \in DOMAIN nextHash \/ nextHash[c] = b) THEN None ELSE nextHash[c]]

\* Rows of a block in all tables, in one SQL transaction.  The rows of vouts to
\* be reset are given by the row IDs of the deleted transactions: outputs that
\* these have spent stay spent, and others are reset, old ones in a database
\* with more outputs than transactions.
DeleteBlockData(b) ==
    LET gone == {t \in AllTxs(b) : <<t, b>> \in DOMAIN txs}
        left == DOMAIN vouts \ gone
    IN /\ vins' = Restrict(vins, DOMAIN vins \ gone)
       /\ addrs' = Restrict(addrs, DOMAIN addrs \ gone)
       /\ txs' = Restrict(txs, DOMAIN txs \ RowsOf(b))
       /\ blocks' = Restrict(blocks, DOMAIN blocks \ {b})
       /\ \E reset \in {{}, {OldOutput}} :
            vouts' = [t \in left |-> IF t \in reset THEN None ELSE vouts[t]]
       /\ nextHash' = deleteBlockFromChain(b)

\* The check ends when meta has the tables' best block and was not below it.
Checked == job.block = meta /\ Height[job.root] >= Height[job.block]

\* DeleteBestBlock: the best block of the blocks table, then meta.
DeleteBestBlock ==
    /\ (pc = "check" /\ ~Checked) \/ (pc = "purge" /\ job.purge > 0)
    /\ DeleteBlockData(RetrieveBestBlock)
    /\ pc' = "deleted"
    /\ UNCHANGED <<dcrd, happened, inbox, meta, mem, job>>

\* The height of meta is read again only if it was above that of the tables.
Deleted ==
    /\ pc = "deleted"
    /\ meta' = RetrieveBestBlock
    /\ pc' = job.kind
    /\ job' = [job EXCEPT !.block = RetrieveBestBlock,
                          !.root = IF job.kind = "check" /\ Height[job.root] > Height[job.block]
                                     THEN RetrieveBestBlock ELSE @,
                          !.purge = IF job.kind = "purge" THEN @ - 1 ELSE @]
    /\ UNCHANGED <<dcrd, happened, inbox, tables, mem>>

\* main purges the blocks that dcrd no longer has on its main chain.
PurgeBestBlocks ==
    /\ pc = "check" /\ Checked
    /\ bestBlock' = job.block
    /\ LET orphaned == OrphanedTipLength(Path[meta], Path[tip])
       IN /\ orphaned >= 0
          /\ job' = [NoJob EXCEPT !.kind = "purge", !.purge = orphaned]
    /\ pc' = "purge"
    /\ UNCHANGED <<dcrd, happened, inbox, tables, meta, previous>>

Purged ==
    /\ pc = "purge" /\ job.purge = 0
    /\ pc' = "sync" /\ job' = [NoJob EXCEPT !.kind = "sync"]
    /\ UNCHANGED <<dcrd, happened, inbox, tables, meta, mem>>

\* Mutant: one block short.
SyncEndsEarly == Height[meta] + 1 >= Height[tip]

SyncEnds == Height[meta] >= Height[tip]

\* SyncChainDB: the next block of dcrd's main chain by height, until there is
\* none and main starts to listen.
SyncChainDB ==
    /\ pc = "sync"
    /\ IF SyncEnds
         THEN pc' = "idle" /\ job' = NoJob /\ previous' = bestBlock
         ELSE pc' = "trees" /\ job' = Storing(Path[tip][Height[meta] + 2]) /\ UNCHANGED previous
    /\ UNCHANGED <<dcrd, happened, inbox, tables, meta, bestBlock>>

-----------------------------------------------------------------------------
StoreBlock ==
    \/ \E tree \in Trees : storeTxns(tree) \/ storeAddresses(tree)
    \/ TreesFail \/ InsertBlock \/ InsertBlockPrevNext
    \/ UpdateBlockNext \/ UpdateLastBlockValid \/ UpdateLastVouts \/ UpdateLastVins
    \/ UpdateTransactionsValid \/ UpdateLastAddressesValid
    \/ SetBestBlock \/ SetDBBestBlock
Reorganize ==
    \/ SetMainchainByBlockHash \/ UpdateTransactionsMainchain \/ UnspendVouts
    \/ SetVinsMainchainByBlock \/ UpdateAddressesMainchain \/ Moved \/ Connect
StartUp ==
    \/ NewChainDB \/ DeleteBestBlock \/ Deleted \/ PurgeBestBlocks \/ Purged \/ SyncChainDB

Run == Receive \/ StoreBlock \/ Reorganize \/ StartUp

Next ==
    \/ \E b \in Blocks : dcrdConnects(b) \/ dcrdReorganizes(b)
    \/ Run \/ Stop

\* The process goes on, and is started again when it has ended.
Spec == Init /\ [][Next]_vars /\ WF_vars(Run)

-----------------------------------------------------------------------------
Flags == [valid : BOOLEAN, main : BOOLEAN]
PCs == {"idle", "trees", "chain", "last", "invalidate", "vouts", "vins", "txns", "addrs", "best", "meta",
        "move", "movetxns", "movevouts", "movevins", "moveaddrs", "connect",
        "down", "check", "deleted", "purge", "sync"}

\* Types, and rows refer to rows: every transaction has its input and output.
TypeOK ==
    /\ env \in Scenarios /\ tip \in Blocks /\ meta \in Blocks
    /\ happened \in [reorgs : 0 .. env.maxReorgs, stops : 0 .. env.maxStops]
    /\ DOMAIN blocks \subseteq Blocks /\ Range(blocks) \subseteq Flags
    /\ DOMAIN nextHash \subseteq DOMAIN blocks /\ Range(nextHash) \subseteq Blocks \cup {None}
    /\ DOMAIN txs \subseteq UNION {RowsOf(b) : b \in Blocks} /\ Range(txs) \subseteq Flags
    /\ \A t \in DOMAIN vins : vins[t].block \in Blocks
    /\ Range(vouts) \subseteq UNION {RowsOf(b) : b \in Blocks} \cup {None}
    /\ DOMAIN addrs \subseteq DOMAIN vins /\ Range(addrs) \subseteq BOOLEAN
    /\ {bestBlock, previous} \subseteq Blocks \cup {None} /\ pc \in PCs

\* Stopping and reorganizing together leaves rows behind.
Undisturbed == ~(has("reorgs") /\ has("crashes"))
Settled == pc = "idle" /\ ~has("rpc")
MainChain == Path[bestBlock]

\* After any reorganization, and after any stop and the repair at start-up, the
\* blocks flagged as main chain are exactly those up to the best block, linked
\* by next_hash, and meta agrees.
BlocksAreMainChain ==
    Settled => /\ {b \in DOMAIN blocks : blocks[b].main} = Range(MainChain)
               /\ \A b \in Range(MainChain) : nextHash[b] = NextOn(MainChain, b)
               /\ meta = bestBlock

\* Transactions, inputs and addresses agree with the block they are in: they
\* are on the main chain if it is, also when both branches contain them.
RowsFollowBlocks ==
    Settled /\ Undisturbed =>
      /\ {r \in DOMAIN txs : txs[r].main} = RowsOn(MainChain)
      /\ \A t \in DOMAIN vins : vins[t].main <=> \E b \in Range(MainChain) : t \in AllTxs(b)
      /\ \A t \in DOMAIN addrs :
           addrs[t] <=> \E r \in DOMAIN txs : r[1] = t /\ txs[r].main /\ txs[r].valid

\* A block that the next one disapproves has its regular transactions invalid,
\* whatever was stored again or reorganized; and no other, unless the block
\* that disapproved it has been reorganized away.
InvalidatedByVotes ==
    Settled =>
      \A b \in Range(MainChain) :
         /\ ~has("reorgs") \/ ~Approved(MainChain, b) =>
              blocks[b].valid = Approved(MainChain, b)
         /\ Undisturbed => \A r \in RowsOf(b) : txs[r].valid <=> r[1] \in Stake[b] \/ blocks[b].valid

\* An output is marked as spent by the valid transaction of the main chain that
\* spends it, and by no other.
SpendsAreRecorded ==
    Settled /\ ~has("crashes") =>
      \A t \in DOMAIN vouts :
         vouts[t] = SpentBy({r \in DOMAIN txs : txs[r].main /\ txs[r].valid}, t)

\* What the tables say of blocks, transactions, inputs, outputs and addresses is
\* what the main chain and its votes say, whatever was stored, stored again,
\* moved to a side chain or repaired on the way.
TablesFollowChain ==
    TypeOK /\ BlocksAreMainChain /\ RowsFollowBlocks /\ InvalidatedByVotes /\ SpendsAreRecorded

\* All rows of a block.
Whole(b) ==
    /\ b \in DOMAIN blocks /\ b \in DOMAIN nextHash
    /\ RowsOf(b) \subseteq DOMAIN txs
    /\ AllTxs(b) \subseteq DOMAIN vins \cap DOMAIN vouts \cap DOMAIN addrs
Linked(b) == {b, Parent[b]} \subseteq DOMAIN blocks \cap DOMAIN nextHash
MetaStored ==
    IF has("rpc") THEN Linked(meta) \/ pc \in {"check", "purge"}
    ELSE \A b \in Range(Path[meta]) : Whole(b)

\* The block that start-up goes back to is only ever set to one whose data, and
\* whose ancestors' data, are completely stored.  When blocks may be missed it
\* is at least one whose parent is there, unless start-up goes back to it.
MetaIsComplete == [][meta' /= meta => MetaStored']_vars

\* When dcrd is quiet the tables end at its best block: after reorganizations
\* that were queued, or after a restart at any point.
EndsAtBestBlock ==
    Undisturbed /\ ~has("rpc") => <>[](pc = "idle" /\ bestBlock = tip /\ meta = tip)

\* switchToSideChain, when the best block is not the old tip: "Rewinding as
\* needed to complete reorg from ancestor".
RewindsAsNeeded == pc = "move" ~> pc /= "move"

\* NewChainDB: "it is likely that the data for the best block was not fully
\* inserted into all tables. Purge data back to the meta table's best block
\* height."
PurgesBack == Settled => {r \in DOMAIN txs : txs[r].main} = RowsOn(MainChain)
=============================================================================
