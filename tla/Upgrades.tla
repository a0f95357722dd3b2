------------------------------ MODULE Upgrades ------------------------------
(***************************************************************************)
(* Opening the database: its creation, the legacy upgrades of tables that  *)
(* carry their own versions (db/dcrpg/upgrades_legacy.go) and the upgrades *)
(* of the database version kept in the meta table (db/dcrpg/upgrades.go),  *)
(* as NewChainDB of db/dcrpg/pgblockchain.go runs them.                    *)
(*                                                                         *)
(* An upgrade is a sequence of SQL statements, each committed by itself.   *)
(* What a statement changes is a set of named effects (a column, a table,  *)
(* an index, rows brought up to date), so the database is the set of the   *)
(* effects it has and the versions it claims. Between any two statements   *)
(* the program may be stopped, and a statement may fail; the next start    *)
(* begins again from the versions it finds.                                *)
(***************************************************************************)
EXTENDS Naturals, Sequences, FiniteSets, SequencesExt

CONSTANTS Tables,      \* tables whose comments carry the legacy version
          Starts,      \* the databases at first: <<kind, version, maint or local times>>
          MaxCrashes,  \* bound: times the program is stopped
          MaxErrors    \* bound: statements that fail by themselves

VARIABLES dbase,       \* the database
          opener,      \* the program that opens it
          mishaps      \* crashes and errors so far

upgradeVars == <<dbase, opener, mishaps>>

-----------------------------------------------------------------------------
(* Statements                                                              *)

\* A statement needs some effects to succeed and adds others; one written
\* without IF NOT EXISTS succeeds only once, the error of a logged one does
\* not stop the upgrade, one that names a version writes it.
Exec(adds, needs) == [adds |-> adds, drops |-> {}, needs |-> needs, once |-> FALSE, logged |-> FALSE, writes |-> "none", version |-> 0]
Once(adds, needs) == [Exec(adds, needs) EXCEPT !.once = TRUE]
Logged(s) == [s EXCEPT !.logged = TRUE]
updateSchemaVersion(v) == [Exec({}, {}) EXCEPT !.writes = "schema", !.version = v]
updateMaintVersion(v) == [Exec({}, {}) EXCEPT !.writes = "maint", !.version = v]
insertMetaData(v) == [Exec({"meta row"}, {"meta"}) EXCEPT !.writes = "schema", !.version = v]

Succeeds(s, has) == s.needs \subseteq has /\ (s.once => s.adds \cap has = {})

-----------------------------------------------------------------------------
(* Upgrades of the database version: schema 0 to 8, maintenance 0 or 1.    *)

schemaVersion == 8

\* The column is added only when the table was missing.
upgrade110to120(has) ==
    (IF "stats" \in has THEN <<>>
     ELSE << Exec({"stats"}, {}), Once({"stats on height"}, {"stats"}), Exec({"blocks.winners"}, {}) >>)
    \o << Exec({"stats rows"}, {"stats", "blocks.winners"}) >>

\* The existence of the index is asked for with its statement in place of
\* its name, so the answer is always no.
upgrade120to130 == << Once({"blocks on time"}, {}) >>
upgrade130to140 == << Exec({"votes.version wide"}, {}) >>
setTxMixData == << Exec({"mix rows"}, {"transactions.mix"}) >>
upgrade140to150 == << Exec({"transactions.mix"}, {}) >> \o setTxMixData
upgrade151to160 ==
    << Once({"vouts.mixed"}, {}),
       Exec({}, {"vouts.mixed", "transactions.mix"}), Exec({}, {"vouts.mixed"}),
       Exec({}, {"vouts.mixed"}), Exec({"mixed rows"}, {"vouts.mixed"}) >>
upgrade160to170 == << Exec({"vouts on spend tx"}, {"vouts.mixed"}) >>
upgrade170to180 == << Once({"transactions on height"}, {}) >>
removeTableComments == << Logged(Exec({"no comments"}, {})) >>

\* The statements of one case of the switch. `first` is the schema version
\* the database had when the program started.
compatVersion1Upgrades(schema, maint, first, has) ==
    CASE schema = 0 -> removeTableComments \o <<updateSchemaVersion(1)>>
      [] schema = 1 -> upgrade110to120(has) \o <<updateSchemaVersion(2)>>
      [] schema = 2 -> upgrade120to130 \o <<updateSchemaVersion(3)>>
      [] schema = 3 -> upgrade130to140 \o <<updateSchemaVersion(4)>>
      [] schema = 4 -> upgrade140to150 \o <<updateSchemaVersion(5)>>
      [] schema = 5 -> (IF maint = 0
                        THEN (IF first = 5 THEN setTxMixData ELSE <<>>) \o <<updateMaintVersion(1)>>
                        ELSE <<>>)
                       \o upgrade151to160 \o <<updateSchemaVersion(6), updateMaintVersion(0)>>
      [] schema = 6 -> upgrade160to170 \o <<updateSchemaVersion(7), updateMaintVersion(0)>>
      [] schema = 7 -> upgrade170to180 \o <<updateSchemaVersion(8), updateMaintVersion(0)>>
      [] OTHER -> <<>>

\* What has to be done with a database to reach schema 8, maintenance 0.
NeededToReach(schema, maint) ==
    IF schema < schemaVersion THEN "upgrade"
    ELSE IF schema > schemaVersion \/ maint > 0 THEN "time travel" ELSE "ok"

-----------------------------------------------------------------------------
(* Legacy upgrades: table versions 3.1.0 to 3.11.0, numbered 1 to 17.      *)

versionNames == <<"3.1.0", "3.2.0", "3.3.0", "3.4.0", "3.4.1", "3.5.0", "3.5.1", "3.5.2", "3.5.3",
                  "3.5.4", "3.5.5", "3.6.0", "3.7.0", "3.8.0", "3.9.0", "3.10.0", "3.11.0">>
requiredVersion == Len(versionNames)

\* Columns are added one by one until one is found: those after it are left.
addNewColumnsIfNotFound(columns, has) ==
    LET found == {i \in DOMAIN columns : columns[i] \in has}
        stop == IF found = {} THEN Len(columns) ELSE (CHOOSE i \in found : \A j \in found : i <= j) - 1
    IN [i \in 1..stop |-> Once({columns[i]}, {})]

addVinsColumnsForCoinSupply == <<"vins.is_valid", "vins.block_time", "vins.value_in">>
addVinsColumnsForMainchain == <<"vins.is_mainchain">>
addBlocksColumnsForMainchain == <<"blocks.is_mainchain">>
addAddressesColumnsForMainchain == <<"addresses.valid_mainchain">>
addVotesColumnsForMainchain == <<"votes.is_mainchain">>
addTicketsColumnsForMainchain == <<"tickets.is_mainchain">>
addTransactionsColumnsForMainchain == <<"transactions.is_valid", "transactions.is_mainchain">>
addVinsColumnsForHistogramUpgrade == <<"vins.tx_type">>
addAddressesColumnsForHistogramUpgrade == <<"addresses.tx_type">>
addChainWorkColumn == <<"blocks.chainwork">>
addVotesBlockTimeColumn == <<"votes.block_time">>
deleteRootsColumns == << Exec({"blocks without roots"}, {}), Exec({}, {}) >>
createNewAgendaVotesTable == << Exec({"agenda_votes"}, {}) >>
pruneAgendasTable == << [Exec({}, {}) EXCEPT !.drops = {"agendas", "agendas on id", "agendas rows"}], Exec({"agendas"}, {}) >>

\* The first switch of handleUpgrades: what prepares the table.
Prepared(u, has) ==
    LET Columns(c) == addNewColumnsIfNotFound(c, has)
    IN CASE u = "vinsTableCoinSupplyUpgrade" -> Columns(addVinsColumnsForCoinSupply)
         [] u = "vinsTableMainchainUpgrade" -> Columns(addVinsColumnsForMainchain)
         [] u = "blocksTableMainchainUpgrade" -> Columns(addBlocksColumnsForMainchain)
         [] u = "addressesTableMainchainUpgrade" -> Columns(addAddressesColumnsForMainchain)
         [] u = "votesTableMainchainUpgrade" -> Columns(addVotesColumnsForMainchain)
         [] u = "ticketsTableMainchainUpgrade" -> Columns(addTicketsColumnsForMainchain)
         [] u = "transactionsTableMainchainUpgrade" -> Columns(addTransactionsColumnsForMainchain)
         [] u = "vinsTxHistogramUpgrade" -> Columns(addVinsColumnsForHistogramUpgrade)
         [] u = "addressesTxHistogramUpgrade" -> Columns(addAddressesColumnsForHistogramUpgrade)
         [] u = "blocksChainWorkUpdate" -> Columns(addChainWorkColumn)
         [] u = "votesTableBlockTimeUpdate" -> Columns(addVotesBlockTimeColumn)
         [] u = "blocksRemoveRootColumns" -> deleteRootsColumns
         [] u = "agendasTablePruningUpdate" -> pruneAgendasTable
         [] u = "agendaVotesTableCreationUpdate" -> createNewAgendaVotesTable
         [] u = "agendasTableUpgrade" -> << Exec({}, {"agendas"}) >>
         [] OTHER -> <<>>

\* The row of blocks is scanned into too few destinations: this never succeeds.
handlevinsTableCoinSupplyUpgrade == << Exec({"vins supply rows"}, {"no such destination"}) >>
\* No milestones are known any more, so that no vote is stored.
handleAgendasTableUpgrade == << Exec({}, {"agendas"}) >>
handleAgendasVotingMilestonesUpgrade == <<>>
\* Votes are inserted again by a repeated run, which the unique index refuses.
handleAgendaAndAgendaVotesTablesUpgrade ==
    << Once({"agenda_votes rows"}, {"agenda_votes", "votes.block_time", "agendas"}), Exec({"agendas rows"}, {"agendas"}) >>
handleBlocksTableMainchainUpgrade == << Exec({"blocks mainchain rows"}, {"blocks.is_mainchain"}) >>
handleTransactionsTableMainchainUpgrade ==
    << Exec({}, {"transactions.is_valid"}), Exec({"transactions mainchain rows"}, {"transactions.is_mainchain"}) >>
\* The error of a block is logged and the next one is taken.
handleVinsTableMainchainupgrade ==
    << Logged(Exec({"vins mainchain rows"}, {"vins.is_valid", "vins.is_mainchain", "transactions.is_valid"})) >>
updateAllVotesMainchain == << Exec({"votes mainchain rows"}, {"votes.is_mainchain"}) >>
updateAllTicketsMainchain == << Exec({"tickets mainchain rows"}, {"tickets.is_mainchain"}) >>
updateAllAddressesValidMainchain == << Exec({"addresses mainchain rows"}, {"addresses.valid_mainchain", "transactions.is_mainchain"}) >>
updateAddressesValidMainchainPatch == << Exec({"addresses valid rows"}, {"addresses.valid_mainchain"}) >>
updateAddressesMatchingTxHashPatch == << Exec({"addresses matching rows"}, {}) >>
\* The temporary index is only a help: its error is logged.
handleTxTypeHistogramUpgrade(column, rows) ==
    << Logged(Once({"xxxxx_histogram"}, {})), Exec({rows}, {column}),
       Logged([Exec({}, {}) EXCEPT !.drops = {"xxxxx_histogram"}]) >>
verifyChainWork == << Exec({"chainwork rows"}, {"blocks.chainwork"}) >>
handleConvertTimeStampTZ == << Exec({"timestamptz"}, {}) >>
PiProposalsHistory == << Exec({"proposals rows"}, {"proposals"}) >>

\* The second switch: the rows that are brought up to date.
Applied(u) ==
    CASE u = "vinsTableCoinSupplyUpgrade" -> handlevinsTableCoinSupplyUpgrade
      [] u = "agendasTableUpgrade" -> handleAgendasTableUpgrade
      [] u = "agendasTablePruningUpdate" -> handleAgendaAndAgendaVotesTablesUpgrade
      [] u = "blocksTableMainchainUpgrade" -> handleBlocksTableMainchainUpgrade
      [] u = "transactionsTableMainchainUpgrade" -> handleTransactionsTableMainchainUpgrade
      [] u = "vinsTableMainchainUpgrade" -> handleVinsTableMainchainupgrade
      [] u = "votesTableMainchainUpgrade" -> updateAllVotesMainchain
      [] u = "ticketsTableMainchainUpgrade" -> updateAllTicketsMainchain
      [] u = "addressesTableMainchainUpgrade" -> updateAllAddressesValidMainchain
      [] u = "vinsTxHistogramUpgrade" -> handleTxTypeHistogramUpgrade("vins.tx_type", "vins type rows")
      [] u = "addressesTxHistogramUpgrade" -> handleTxTypeHistogramUpgrade("addresses.tx_type", "addresses type rows")
      [] u = "agendasVotingMilestonesUpgrade" -> handleAgendasVotingMilestonesUpgrade
      [] u = "addressesTableValidMainchainPatch" -> updateAddressesValidMainchainPatch
      [] u = "addressesTableMatchingTxHashPatch" -> updateAddressesMatchingTxHashPatch
      [] u = "blocksChainWorkUpdate" -> verifyChainWork
      [] u = "timestamptzUpgrade" -> handleConvertTimeStampTZ
      [] u = "proposalsTableTokensUpdate" -> PiProposalsHistory
      [] OTHER -> <<>>

\* The third switch: the indexes, most of them made without IF NOT EXISTS.
Indexed(u) ==
    CASE u = "vinsTableCoinSupplyUpgrade" -> << Once({"agendas on id"}, {"agendas"}) >>
      [] u = "votesTableBlockHashIndex" -> << Once({"votes on block hash"}, {}) >>
      [] u = "ticketsTableBlockTimeUpgrade" -> << Exec({"tickets on pool status"}, {}) >>
      [] u = "addressesTableBlockTimeSortedIndex" ->
            << Logged([Exec({}, {}) EXCEPT !.drops = {"addresses on time"}]), Exec({"addresses on time"}, {}) >>
      [] u = "agendasTablePruningUpdate" -> << Once({"agendas on id"}, {"agendas"}) >>
      [] u = "agendaVotesTableCreationUpdate" -> << Once({"agenda_votes on ids"}, {"agenda_votes"}) >>
      [] u = "votesTableBlockTimeUpdate" -> << Once({"votes on time"}, {"votes.block_time"}), Once({"votes on height"}, {}) >>
      [] u = "proposalsTableTokensUpdate" -> << Once({"proposals on token"}, {"proposals"}) >>
      [] u = "proposalVotesTableTicketsIndex" -> << Once({"proposal_votes on id"}, {}) >>
      [] OTHER -> <<>>

\* The last part: seconds become time stamps, which works only once.
alterColumnDataType(columns) == [i \in DOMAIN columns |-> Once({columns[i]}, {})]
Retyped(u) ==
    CASE u = "addressesBlockTimeDataTypeUpdate" -> alterColumnDataType(<<"addresses.block_time stamp">>)
      [] u = "agendasBlockTimeDataTypeUpdate" -> alterColumnDataType(<<"agendas.block_time stamp">>)
      [] u = "vinsBlockTimeDataTypeUpdate" -> alterColumnDataType(<<"vins.block_time stamp">>)
      [] u = "blocksBlockTimeDataTypeUpdate" -> alterColumnDataType(<<"blocks.time stamp">>)
      [] u = "transactionsBlockTimeDataTypeUpdate" -> alterColumnDataType(<<"transactions.time stamp", "transactions.block_time stamp">>)
      [] OTHER -> <<>>

handleUpgrades(u, has) == Prepared(u, has) \o Applied(u) \o Indexed(u) \o Retyped(u)

\* The upgrades that lead from a version to the next one.
UpgradesTo350 ==
    << <<"agendasTableUpgrade", "vinsTableCoinSupplyUpgrade">>,
       <<"blocksTableMainchainUpgrade", "transactionsTableMainchainUpgrade", "vinsTableMainchainUpgrade",
         "addressesTableMainchainUpgrade", "votesTableMainchainUpgrade">>,
       <<"ticketsTableMainchainUpgrade">>,
       <<"votesTableBlockHashIndex">>,
       <<"vinsTxHistogramUpgrade", "addressesTxHistogramUpgrade">> >>
UpgradesTo355 ==
    << <<"agendasVotingMilestonesUpgrade">>, <<"ticketsTableBlockTimeUpgrade">>,
       <<"addressesTableValidMainchainPatch">>, <<"addressesTableMatchingTxHashPatch">>,
       <<"addressesTableBlockTimeSortedIndex">> >>
UpgradesTo390 ==
    << <<"addressesBlockTimeDataTypeUpdate", "blocksBlockTimeDataTypeUpdate", "agendasBlockTimeDataTypeUpdate",
         "transactionsBlockTimeDataTypeUpdate", "vinsBlockTimeDataTypeUpdate">>,
       <<"blocksChainWorkUpdate">>, <<"blocksRemoveRootColumns">>, <<"timestamptzUpgrade">> >>
UpgradesTo3110 ==
    << <<"agendaVotesTableCreationUpdate", "votesTableBlockTimeUpdate", "agendasTablePruningUpdate">>,
       <<"proposalsTableTokensUpdate", "proposalVotesTableTicketsIndex">> >>
theseUpgrades == UpgradesTo350 \o UpgradesTo355 \o UpgradesTo390 \o UpgradesTo3110

\* Around the upgrade to 3.6.0 the time index of addresses is dropped and,
\* after the new versions are written, made again; both errors are logged.
toStamps == 11
dropBlockTimeIndexes == << Logged([Exec({}, {}) EXCEPT !.drops = {"addresses on time"}]) >>
createBlockTimeIndexes == << Logged(Exec({"addresses on time"}, {})) >>

-----------------------------------------------------------------------------
(* The effects a database of some version has.                             *)

EffectsOf(stmts) == UNION {stmts[i].adds : i \in DOMAIN stmts}
LegacyEffects(v) ==
    UNION {UNION {EffectsOf(handleUpgrades(theseUpgrades[w][k], {})) : k \in DOMAIN theseUpgrades[w]} : w \in 1..(v - 1)}
SchemaEffects(v) == UNION {EffectsOf(compatVersion1Upgrades(s, 0, 5, {})) : s \in 0..(v - 1)}
Base == {"agendas", "addresses on time"}
\* Helps, and what may be left undone when an error is only logged.
Optional == {"xxxxx_histogram", "addresses on time", "vins mainchain rows", "no comments"}

LegacyDatabase(v, local) ==
    [kind |-> "legacy", tables |-> [t \in Tables |-> v], schema |-> 0, maint |-> 0, local |-> local,
     has |-> (LegacyEffects(v) \cup Base) \ {"xxxxx_histogram"}]
CurrentDatabase(s, m) ==
    [kind |-> "versioned", tables |-> [t \in Tables |-> requiredVersion], schema |-> s, maint |-> m, local |-> FALSE,
     has |-> ((LegacyEffects(requiredVersion) \cup SchemaEffects(s) \cup Base \cup {"meta", "meta row"}) \ {"xxxxx_histogram"})]
NoDatabase == [kind |-> "none", tables |-> [t \in Tables |-> requiredVersion], schema |-> 0, maint |-> 0, local |-> FALSE, has |-> {}]

Down == [pc |-> "down", at |-> 0, first |-> 0, upgrades |-> <<>>, todo |-> <<>>, toVersion |-> {}]

DatabaseOf(s) ==
    CASE s[1] = "legacy" -> LegacyDatabase(s[2], s[3] = 1)
      [] s[1] = "versioned" -> CurrentDatabase(s[2], s[3])
      [] s[1] = "none" -> NoDatabase

UpgradeInit ==
    /\ \E s \in Starts : dbase = DatabaseOf(s)
    /\ opener = Down
    /\ mishaps = [crashes |-> 0, errors |-> 0]

-----------------------------------------------------------------------------
(* Opening                                                                 *)

\* CreateTables of a database without tables: all are made as they are now.
CreateTables ==
    << Exec({"meta"}, {}), Exec({"blocks"}, {}),
       Exec(LegacyEffects(requiredVersion) \cup SchemaEffects(schemaVersion) \cup Base, {}), insertMetaData(schemaVersion) >>

Refuse == opener' = [opener EXCEPT !.pc = "refused", !.todo = <<>>, !.upgrades = <<>>, !.toVersion = {}]

\* The meta table made when the legacy upgrades are done.
CreateMeta == << Exec({"meta"}, {}), insertMetaData(0) >>

\* What the database looks like to a program that opens it.
versionCheck(db) ==
    CASE db.kind = "none" -> "tables not found"
      [] db.kind = "legacy" -> "meta not found"
      [] "meta row" \notin db.has -> "no version"
      [] OTHER -> NeededToReach(db.schema, db.maint)

\* The switch of NewChainDB on the answer. Legacy tables that do not exist are
\* created as they are now.
NewChainDB ==
    LET found == versionCheck(dbase)
    IN /\ opener.pc = "down"
       /\ CASE found = "tables not found" -> opener' = [opener EXCEPT !.pc = "create", !.todo = CreateTables]
            [] found = "meta not found" -> opener' = [opener EXCEPT !.pc = "legacy"]
            [] found = "no version" -> Refuse
            [] OTHER -> opener' = [opener EXCEPT !.pc = "check"]
       /\ dbase' = IF found = "meta not found" THEN [dbase EXCEPT !.has = @ \cup {"agenda_votes", "proposals"}] ELSE dbase
       /\ UNCHANGED mishaps

\* UpgradeDatabase and upgradeCheck: the version read is kept in memory.
UpgradeDatabase ==
    /\ opener.pc = "check"
    /\ CASE NeededToReach(dbase.schema, dbase.maint) = "ok" -> opener' = [Down EXCEPT !.pc = "up"]
         [] NeededToReach(dbase.schema, dbase.maint) = "time travel" -> Refuse
         [] dbase.schema = 5 /\ dbase.maint > 1 -> Refuse
         [] OTHER -> opener' = [opener EXCEPT !.pc = "schema", !.first = dbase.schema,
                                  !.todo = compatVersion1Upgrades(dbase.schema, dbase.maint, dbase.schema, dbase.has)]
    /\ UNCHANGED <<dbase, mishaps>>

\* The next case of the switch, by fallthrough, or the last check.
fallthrough ==
    /\ opener.pc = "schema" /\ opener.todo = <<>>
    /\ opener' = IF dbase.schema = schemaVersion THEN [opener EXCEPT !.pc = "check"]
                 ELSE [opener EXCEPT !.todo = compatVersion1Upgrades(dbase.schema, dbase.maint, opener.first, dbase.has)]
    /\ UNCHANGED <<dbase, mishaps>>

\* VersionCheck: the table that decides is the first of a map, any of those
\* that are behind. Tables of 3.6.0 to 3.8.0 with local times are refused.
VersionCheck ==
    LET behind == {t \in Tables : dbase.tables[t] # requiredVersion}
    IN /\ opener.pc = "legacy" /\ opener.at = 0
       /\ IF behind = {}
          THEN opener' = [opener EXCEPT !.pc = "create", !.todo = CreateMeta]
          ELSE \E t \in behind :
                 IF dbase.local /\ dbase.tables[t] \in (toStamps + 1)..14 THEN Refuse
                 ELSE opener' = [opener EXCEPT !.at = dbase.tables[t], !.upgrades = theseUpgrades[dbase.tables[t]],
                                   !.todo = IF dbase.tables[t] = toStamps THEN dropBlockTimeIndexes ELSE <<>>,
                                   !.toVersion = Tables]
       /\ UNCHANGED <<dbase, mishaps>>

\* initiatePgUpgrade takes the next upgrade of the step.
initiatePgUpgrade ==
    /\ opener.pc = "legacy" /\ opener.at > 0
    /\ opener.todo = <<>> /\ opener.upgrades # <<>>
    /\ opener' = [opener EXCEPT !.upgrades = Tail(@), !.todo = handleUpgrades(Head(opener.upgrades), dbase.has)]
    /\ UNCHANGED <<dbase, mishaps>>

\* The mutation of versionAllTables that does not wait for the upgrades.
versionAllTablesEarly ==
    /\ opener.pc = "legacy" /\ opener.at > 0
    /\ \E t \in opener.toVersion :
         /\ dbase' = [dbase EXCEPT !.tables[t] = opener.at + 1]
         /\ opener' = [opener EXCEPT !.toVersion = @ \ {t}]
    /\ UNCHANGED mishaps

\* versionAllTables: the comments are written table by table, in any order.
versionAllTables ==
    /\ opener.pc = "legacy" /\ opener.at > 0
    /\ opener.todo = <<>> /\ opener.upgrades = <<>>
    /\ \E t \in opener.toVersion :
         /\ dbase' = [dbase EXCEPT !.tables[t] = opener.at + 1]
         /\ opener' = [opener EXCEPT !.toVersion = @ \ {t}]
    /\ UNCHANGED mishaps

\* UpgradeTables goes on with the next version by fallthrough, and checks all
\* versions after the last.
UpgradeTables ==
    /\ opener.pc = "legacy" /\ opener.at > 0
    /\ opener.todo = <<>> /\ opener.upgrades = <<>> /\ opener.toVersion = {}
    /\ opener' = IF opener.at + 1 = requiredVersion THEN [Down EXCEPT !.pc = "legacy"]
                 ELSE [opener EXCEPT !.at = @ + 1, !.upgrades = theseUpgrades[opener.at + 1], !.toVersion = Tables,
                         !.todo = (IF opener.at = toStamps THEN createBlockTimeIndexes ELSE <<>>)
                                  \o (IF opener.at + 1 = toStamps THEN dropBlockTimeIndexes ELSE <<>>)]
    /\ UNCHANGED <<dbase, mishaps>>

\* A statement is executed. Its error stops the program, unless it is logged.
Executed(s) ==
    [dbase EXCEPT !.has = (@ \ s.drops) \cup s.adds,
       !.kind = IF ("meta" \in s.adds /\ @ = "legacy") \/ "blocks" \in s.adds THEN "versioned" ELSE @,
       !.schema = IF s.writes = "schema" THEN s.version ELSE @,
       !.maint = IF s.writes = "maint" THEN s.version ELSE @]

Statement(fails) ==
    LET s == Head(opener.todo)
        rest == [opener EXCEPT !.todo = Tail(@)]
        ends == [Down EXCEPT !.pc = "check"]
    IN /\ opener.todo # <<>>
       /\ opener.pc \in {"create", "legacy", "schema"}
       /\ IF Succeeds(s, dbase.has) /\ ~fails
          THEN /\ dbase' = Executed(s)
               /\ opener' = IF opener.pc = "create" /\ rest.todo = <<>> THEN ends ELSE rest
          ELSE /\ UNCHANGED dbase
               /\ IF s.logged THEN opener' = rest ELSE Refuse

Run == Statement(FALSE) /\ UNCHANGED mishaps

\* The server reports an error: a lost connection, a full disk.
Error ==
    /\ mishaps.errors < MaxErrors
    /\ Statement(TRUE)
    /\ mishaps' = [mishaps EXCEPT !.errors = @ + 1]

\* The program is stopped and started again. One that refused the database is
\* started again too, and finds what it found before.
Crash ==
    /\ opener.pc \notin {"down", "up"}
    /\ mishaps.crashes < MaxCrashes
    /\ opener' = Down
    /\ mishaps' = [mishaps EXCEPT !.crashes = @ + 1]
    /\ UNCHANGED dbase

UpgradeNext ==
    \/ NewChainDB \/ UpgradeDatabase \/ fallthrough
    \/ VersionCheck \/ initiatePgUpgrade \/ versionAllTables \/ UpgradeTables
    \/ Run \/ Error \/ Crash

UpgradeSpec == UpgradeInit /\ [][UpgradeNext]_upgradeVars

-----------------------------------------------------------------------------
(* Properties                                                              *)

\* A version is honest: a database has all that the upgrades up to the version
\* it claims make, the last part of an upgrade included, wherever earlier runs
\* of the program were stopped or failed. The version of the tables is that of
\* the oldest one.
VersionIsHonest ==
    LET oldest == CHOOSE v \in 1..requiredVersion :
                     /\ \E t \in Tables : dbase.tables[t] = v
                     /\ \A t \in Tables : v <= dbase.tables[t]
        redone == {"agendas", "agendas on id", "agendas rows"}   \* taken away by an upgrade that is under way
        legacy == LegacyEffects(oldest) \ (Optional \cup (IF oldest <= 15 THEN redone ELSE {}))
    IN /\ dbase.kind = "legacy" => legacy \subseteq dbase.has
       /\ dbase.kind = "versioned" /\ "meta row" \in dbase.has
            => (legacy \cup SchemaEffects(dbase.schema)) \ Optional \subseteq dbase.has

\* An upgrade nothing disturbs comes to its end, from every version but the
\* first, whose coin supply upgrade cannot succeed: a database is refused only
\* after a crash or an error, or for the times it holds.
UndisturbedUpgradesEnd ==
    opener.pc = "refused" /\ mishaps.crashes = 0 /\ mishaps.errors = 0
      => \/ dbase.local
         \/ dbase.kind = "legacy" /\ \A t \in Tables : dbase.tables[t] = 1

\* A program that is up has a database of the current version.
UpgradesAreSound ==
    /\ VersionIsHonest
    /\ UndisturbedUpgradesEnd
    /\ opener.pc = "up" => dbase.schema = schemaVersion /\ SchemaEffects(schemaVersion) \ Optional \subseteq dbase.has
=============================================================================
