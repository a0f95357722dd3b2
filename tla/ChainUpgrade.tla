---------------------------- MODULE ChainUpgrade ----------------------------
(***************************************************************************)
(* The upgrades of the block chain's database (blockchain/upgrade.go) as   *)
(* initChainState of chainio.go runs them when the chain is opened.        *)
(*                                                                         *)
(* An upgrade is a sequence of database transactions.  Between two of them *)
(* the process may stop, and an interrupt is noticed at the places where   *)
(* the code asks for it; the next start begins again from the version it   *)
(* finds.  A bucket is the set of the blocks it has an entry for; an entry *)
(* of the block index is the set of its status flags.                      *)
(***************************************************************************)
EXTENDS Integers, Sequences, FiniteSets

CONSTANTS OldChain,      \* blocks of the main chain when the database was written, genesis first
          SideBlocks,    \* other blocks that were stored
          NewBlock,      \* the block that arrives after the upgrade
          MaxEntries,    \* entries of one batch (20000)
          MaxDeletions,  \* keys deleted in one transaction (2000000)
          MaxStops       \* bound on interrupts and crashes

VARIABLES cdb,       \* the database
          upgrader,  \* the process: where it is and how far its loops are
          stops      \* interrupts and crashes so far

chainUpgradeVars == <<cdb, upgrader, stops>>

OldBlocks == {OldChain[i] : i \in DOMAIN OldChain}
Genesis == OldChain[1]
OldTip == OldChain[Len(OldChain)]
None == "none"
currentDatabaseVersion == 6

\* The keys of the v1 block index in the order that ForEach visits them.
KeyOrder == OldChain \o SideBlocks
\* The main chain up to a block.
FullChain == Append(OldChain, NewBlock)
Upto(b) == SubSeq(FullChain, 1, CHOOSE i \in DOMAIN FullChain : FullChain[i] = b)
On(b) == {Upto(b)[i] : i \in DOMAIN Upto(b)}

-----------------------------------------------------------------------------
(* Databases that earlier software left                                    *)

\* Before version 3 the block index of this package does not exist.
OldIndex(v, failed) ==
    IF v < 3 THEN <<>>
    ELSE [b \in {KeyOrder[i] : i \in DOMAIN KeyOrder} |->
            {"stored"} \cup (IF b \in OldBlocks THEN {"valid"} ELSE IF failed THEN {"failed"} ELSE {})]

\* Software of version 5 may have been stopped while it reindexed to the tip.
DatabaseOf(v, legacy, failed, best) ==
    [version |-> v, legacy |-> legacy, bidxVer |-> IF v < 3 THEN 0 ELSE 2, index |-> OldIndex(v, failed),
     hashidx |-> v < 4, heightidx |-> v < 4,
     utxoset |-> On(best) \ {Genesis}, spendjournal |-> On(best) \ {Genesis},
     stake |-> IF v = 1 THEN None ELSE best, best |-> best,
     v5reindextip |-> IF best = OldTip THEN None ELSE OldTip,
     gcsfilters |-> IF v < 6 THEN {} ELSE On(best)]

Down == [pc |-> "down", interrupt |-> FALSE, resumeOffset |-> 0, node |-> 1]

\* Version 0 is a database that has no chain state.
ChainUpgradeInit ==
    /\ \E v \in 0 .. 6, legacy \in BOOLEAN, failed \in BOOLEAN, best \in OldBlocks :
         /\ legacy => v \in 1 .. 2
         /\ failed => v >= 3
         /\ best # OldTip => v = 5
         /\ cdb = DatabaseOf(v, legacy, failed, best)
    /\ upgrader = Down
    /\ stops = 0

-----------------------------------------------------------------------------
(* Opening                                                                 *)

\* The upgrade that upgradeDB makes next of a database of this version.
UpgradeFrom(v) ==
    CASE v = 1 -> "v2" [] v = 2 -> "v3" [] v = 3 -> "v4" [] v = 4 -> "v5utxo" [] v = 5 -> "v6"
      [] OTHER -> "load"

Goes(pc) == upgrader' = [upgrader EXCEPT !.pc = pc]
\* A check of the interrupt channel: errInterruptRequested ends New.
GoesUnlessInterrupted(pc) == upgrader' = IF upgrader.interrupt THEN Down ELSE [upgrader EXCEPT !.pc = pc]

\* The versioning scheme is migrated in a transaction of its own; a database
\* without chain state gets one with the genesis block and today's versions.
initChainState ==
    /\ upgrader.pc = "down"
    /\ cdb' = IF cdb.version = 0
              THEN [DatabaseOf(currentDatabaseVersion, FALSE, FALSE, Genesis) EXCEPT
                      !.index = [b \in {Genesis} |-> {"stored", "valid"}], !.v5reindextip = None]
              ELSE [cdb EXCEPT !.legacy = FALSE]
    /\ Goes(UpgradeFrom(cdb'.version))
    /\ UNCHANGED stops

\* The stake nodes of the whole chain are connected and written in one
\* transaction, with the version; the blocks are found by the height index.
upgradeToVersion2 ==
    /\ upgrader.pc = "v2" /\ cdb.heightidx
    /\ cdb' = [cdb EXCEPT !.stake = cdb.best, !.version = 2]
    /\ Goes(UpgradeFrom(2))
    /\ UNCHANGED stops

\* One batch visits the entries from resumeOffset up to some place: the end,
\* the MaxEntries-th that was not migrated before, or one that was, when an
\* interrupt is seen.  Blocks of the main chain's hash index are valid.
Unmigrated(p) == {i \in upgrader.resumeOffset + 1 .. p : KeyOrder[i] \notin DOMAIN cdb.index}
BatchEnds(p) ==
    LET migrated == Unmigrated(p) IN
      /\ Cardinality(migrated) <= MaxEntries
      /\ Cardinality(migrated) = MaxEntries => p \in migrated
      /\ p < Len(KeyOrder) => p \in migrated /\ (Cardinality(migrated) = MaxEntries \/ upgrader.interrupt)

\* The loop ends after a batch that migrated nothing.
ThenV3(migrated) == IF migrated = {} THEN "v3put" ELSE "v3"

migrateBlockIndex ==
    /\ upgrader.pc = "v3" /\ cdb.hashidx
    /\ \E p \in upgrader.resumeOffset .. Len(KeyOrder) :
         LET new == {KeyOrder[i] : i \in Unmigrated(p)} IN
           /\ BatchEnds(p)
           /\ cdb' = [cdb EXCEPT !.index = [b \in DOMAIN @ \cup new |->
                        IF b \in DOMAIN @ THEN @[b]
                        ELSE {"stored"} \cup (IF b \in OldBlocks THEN {"valid"} ELSE {})]]
           /\ upgrader' = IF upgrader.interrupt THEN Down
                          ELSE [upgrader EXCEPT !.resumeOffset = p, !.pc = ThenV3(new)]
    /\ UNCHANGED stops

upgradeToVersion3 ==
    /\ upgrader.pc = "v3put"
    /\ cdb' = [cdb EXCEPT !.version = 3, !.bidxVer = 2]
    /\ Goes(UpgradeFrom(3))
    /\ UNCHANGED stops

\* Both indexes go in one transaction, or an interrupt leaves the second.
removeMainChainIndex ==
    /\ upgrader.pc = "v4"
    /\ \E half \in {FALSE, upgrader.interrupt} :
         cdb' = [cdb EXCEPT !.hashidx = FALSE, !.heightidx = half /\ @]
    /\ GoesUnlessInterrupted("v4put")
    /\ UNCHANGED stops

upgradeToVersion4 ==
    /\ upgrader.pc = "v4put"
    /\ cdb' = [cdb EXCEPT !.version = 4]
    /\ Goes(UpgradeFrom(4))
    /\ UNCHANGED stops

\* A transaction deletes up to MaxDeletions keys of a bucket; one that deletes
\* fewer is the last.
incrementalFlatDrop(bucket, here, next) ==
    /\ upgrader.pc = here
    /\ \E deleted \in SUBSET cdb[bucket] :
         /\ Cardinality(deleted) = MaxDeletions \/ (deleted = cdb[bucket] /\ Cardinality(deleted) < MaxDeletions)
         /\ cdb' = [cdb EXCEPT ![bucket] = @ \ deleted]
         /\ GoesUnlessInterrupted(IF Cardinality(deleted) = MaxDeletions THEN here ELSE next)
    /\ UNCHANGED stops

clearUtxoset == incrementalFlatDrop("utxoset", "v5utxo", "v5journal")
clearSpendJournal == incrementalFlatDrop("spendjournal", "v5journal", "v5reset")

\* Stake nodes, reindex target, best state and version in one transaction.
upgradeToVersion5 ==
    /\ upgrader.pc = "v5reset"
    /\ cdb' = [cdb EXCEPT !.stake = Genesis, !.v5reindextip = cdb.best, !.best = Genesis, !.version = 5]
    /\ Goes(UpgradeFrom(5))
    /\ UNCHANGED stops

\* The chain is loaded and every block may be validated again.
clearFailedBlockFlags ==
    /\ upgrader.pc = "v6"
    /\ IF upgrader.interrupt THEN cdb' = cdb /\ upgrader' = Down
       ELSE /\ cdb' = [cdb EXCEPT !.index = [b \in DOMAIN @ |-> @[b] \ {"failed", "invalid ancestor"}]]
            /\ Goes("v6filters")
    /\ UNCHANGED stops

\* A batch makes the filters of the main chain's next blocks, from genesis.
initializeGCSFilters ==
    LET chain == Upto(cdb.best)
        left == Len(chain) + 1 - upgrader.node
        most == IF left < MaxEntries THEN left ELSE MaxEntries
    IN /\ upgrader.pc = "v6filters"
       /\ \E n \in 0 .. most :
            /\ n = most \/ (upgrader.interrupt /\ n > 0)
            /\ cdb' = [cdb EXCEPT !.gcsfilters = @ \cup {chain[i] : i \in upgrader.node .. upgrader.node + n - 1}]
            /\ upgrader' = IF upgrader.interrupt THEN Down
                           ELSE [upgrader EXCEPT !.node = @ + n, !.pc = IF n = 0 THEN "v6put" ELSE "v6filters"]
       /\ UNCHANGED stops

upgradeToVersion6 ==
    /\ upgrader.pc = "v6put"
    /\ cdb' = [cdb EXCEPT !.version = 6]
    /\ Goes(UpgradeFrom(6))
    /\ UNCHANGED stops

\* The rest of initChainState loads the chain; it needs the best block in the
\* index and the stake node of it.  maybeFinishV5Upgrade, which follows, returns
\* because the version is no longer 5.
Loaded ==
    /\ upgrader.pc = "load"
    /\ cdb.best \in DOMAIN cdb.index /\ cdb.stake = cdb.best
    /\ cdb.version # 5
    /\ Goes("running")
    /\ UNCHANGED <<cdb, stops>>

\* The new block makes the chain reorganize to it: stored blocks are connected
\* one after the other, each in a transaction, and with their filters.
connectBlock ==
    /\ upgrader.pc = "running" /\ cdb.best # NewBlock
    /\ LET b == FullChain[Len(Upto(cdb.best)) + 1] IN
         cdb' = [cdb EXCEPT !.best = b, !.stake = b, !.utxoset = @ \cup {b}, !.spendjournal = @ \cup {b},
                            !.gcsfilters = @ \cup {b},
                            !.index = [x \in DOMAIN @ \cup {b} |->
                                         IF x = b THEN {"stored", "valid"} ELSE @[x]]]
    /\ UNCHANGED <<upgrader, stops>>

\* An interrupt is requested, or the process ends at once.
Interrupt ==
    /\ stops < MaxStops /\ upgrader.pc \notin {"down", "running"} /\ ~upgrader.interrupt
    /\ upgrader' = [upgrader EXCEPT !.interrupt = TRUE]
    /\ stops' = stops + 1 /\ UNCHANGED cdb
Crash ==
    /\ stops < MaxStops /\ upgrader.pc # "down"
    /\ upgrader' = Down
    /\ stops' = stops + 1 /\ UNCHANGED cdb

upgradeDB ==
    \/ initChainState \/ upgradeToVersion2 \/ migrateBlockIndex \/ upgradeToVersion3
    \/ removeMainChainIndex \/ upgradeToVersion4 \/ clearUtxoset \/ clearSpendJournal
    \/ upgradeToVersion5 \/ clearFailedBlockFlags \/ initializeGCSFilters \/ upgradeToVersion6
    \/ Loaded \/ connectBlock

ChainUpgradeNext == upgradeDB \/ Interrupt \/ Crash
ChainUpgradeSpec == ChainUpgradeInit /\ [][ChainUpgradeNext]_chainUpgradeVars /\ WF_chainUpgradeVars(upgradeDB)

-----------------------------------------------------------------------------
\* Wherever it was interrupted or stopped, however often: a database has what
\* its version claims, and what the next upgrade of it needs.  The tip of the
\* old chain is known until the chain is back there.
ChainUpgradeIsSound ==
    LET v == cdb.version IN
      /\ v >= 2 => cdb.stake = cdb.best
      /\ v \in 3 .. 5 => DOMAIN cdb.index = {KeyOrder[i] : i \in DOMAIN KeyOrder}
      /\ v <= 5 => \A b \in DOMAIN cdb.index : "valid" \in cdb.index[b] <=> b \in OldBlocks
      /\ v \in 1 .. 2 => cdb.hashidx /\ cdb.heightidx
      /\ v >= 4 => ~cdb.hashidx /\ ~cdb.heightidx
      /\ v # 4 => cdb.utxoset = On(cdb.best) \ {Genesis} /\ cdb.spendjournal = On(cdb.best) \ {Genesis}
      /\ v = 6 => On(cdb.best) \subseteq cdb.gcsfilters
      /\ v \in 1 .. 5 => OldTip \in {cdb.best, cdb.v5reindextip}

\* An upgrade that is no longer disturbed ends, and the chain reaches its tip.
UpgradesEnd == <>[](upgrader.pc = "running" /\ cdb.version = 6 /\ cdb.best = NewBlock)
=============================================================================
