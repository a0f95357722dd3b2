------------------------------ MODULE MCCaches ------------------------------
(***************************************************************************)
(* Small instances of the parts that keep a copy of what another part has: *)
(* the cache of pool infos, the ticket pool on a disk that may fail, the   *)
(* address cache, the API's block cache, the chart data, the block gate    *)
(* and its prefetcher, the exchange bot and the order books it follows,    *)
(* the tables and the chain's database that an upgrade brings to the       *)
(* current version.  One part runs in a behaviour; the others stay in      *)
(* their initial states.                                                   *)
(***************************************************************************)
EXTENDS PoolInfoCache, AddressCache, TLC

CONSTANTS Tickets, MaxTip

VARIABLES part,
          live, diffs, tip, cursor, pool, diffDB, op, target, answer, failed,
          apic, pq, asks, main, now, stores,
          events, chartDB, snipping, blocks, windows, days, update, pending, ids, faults,
          node, pf, gate, wait, left,
          load, clock, xc, flights, book, exchangeChan, indexChan, bot, readers, depths, latest,
          venue, history, made, wire, ws, ob, connections, lost,
          dbase, opener, mishaps,
          cdb, upgrader, stops

poolVars == <<live, diffs, tip, cursor, pool, diffDB, op, target, answer, failed>>
apiVars == <<apic, pq, asks, main, now, stores>>
chartVars == <<events, chartDB, snipping, blocks, windows, days, update, pending, ids, faults>>
fetchVars == <<node, pf, gate, wait, left>>
exchangeVars == <<load, clock, xc, flights, book, exchangeChan, indexChan, bot, readers, depths,
                  latest>>
bookVars == <<venue, history, made, wire, ws, ob, connections, lost>>
upgradeVars == <<dbase, opener, mishaps>>
chainUpgradeVars == <<cdb, upgrader, stops>>

-----------------------------------------------------------------------------
Pool == INSTANCE TicketPool WITH DiskFaults <- TRUE

\* A block for both addresses, and on it two blocks beside each other for one.
AddressBlocks ==
    <<[prev |-> 0, adds |-> [x |-> 1, y |-> 1]],
      [prev |-> 1, adds |-> [x |-> 1, y |-> 0]],
      [prev |-> 1, adds |-> [x |-> 2, y |-> 0]]>>
\* What the two readers look up.
AddressWants ==
    {[r1 |-> {<<"x", "rows">>, <<"y", "rows">>}, r2 |-> {}],
     [r1 |-> {<<"x", "rows">>}, r2 |-> {<<"x", "rows">>}],
     [r1 |-> {<<"x", "utxos">>, <<"x", "history">>}, r2 |-> {}]}

\* Two blocks of one height and one of the next, more than fit.
Ap == INSTANCE APICache WITH
          Blocks <- {"b1", "c1", "b2"}, HeightOf <- [b1 |-> 1, c1 |-> 1, b2 |-> 2],
          Capacity <- 2, Readers <- {"r"}, MaxNow <- 2, MaxStores <- 3

\* Chains with what happens to them: blocks, reorganizations, a restart.
ABlock(t) == [kind |-> "block", time |-> t]
AReorg(d, ts) == [kind |-> "reorg", depth |-> d, times |-> ts]
ARestart == [kind |-> "restart"]
ChartHistories ==
    {[start |-> <<1, 3, 5, 6, 9, 11, 13, 17>>, events |-> <<AReorg(1, <<14, 18>>), ABlock(21)>>],
     [start |-> <<1, 2, 6, 5, 9, 13, 14>>, events |-> <<ABlock(17), ARestart, ABlock(21)>>],
     [start |-> <<1, 5, 9, 13>>, events |-> <<ABlock(17), AReorg(2, <<10, 11, 14>>), ABlock(18)>>],
     [start |-> <<1, 5, 9, 13, 17>>, events |-> <<ABlock(21), ABlock(25)>>]}

Ch == INSTANCE ChartData WITH
          DiffInterval <- 2, Day <- 4, MaxFaults <- 1, ReorgsRace <- FALSE,
          Histories <- ChartHistories, history <- events, db <- chartDB

\* Two chains, a gate of two blocks, and what is asked of it.
FetchChains == {<<0, 10, 20>>, <<0, 11, 21>>}
FetchLoad(u, r, w, m, f) == [updates |-> u, reads |-> r, waits |-> w, moves |-> m, faults |-> f]
FetchLoads == {FetchLoad(3, 0, 0, 1, 0), FetchLoad(1, 3, 0, 0, 0), FetchLoad(1, 1, 1, 0, 1),
               FetchLoad(1, 0, 1, 1, 0)}

Fe == INSTANCE Fetch WITH Chains <- FetchChains, Capacity <- 2, RetargetSize <- 2,
                          Overtakes <- 1, Waiters <- {"w1"}, Loads <- FetchLoads

\* An exchange with a socket and an index: updates only, or charts too.
ExchangeLoads ==
    {[clock |-> 3, depths |-> 3, charts |-> FALSE, tokens |-> {"p", "i"}],
     [clock |-> 3, depths |-> 2, charts |-> TRUE, tokens |-> {"p"}]}

Xb == INSTANCE ExchangeBot WITH
          Dcr <- {"p"}, Indices <- {"i"}, Sockets <- {"p"}, DataExpiry <- 1,
          RequestExpiry <- 2, ChanSize <- 3, Readers <- {"r"}, MaxFlights <- 5,
          Loads <- ExchangeLoads

\* Orders are placed and removed at two prices.
Place(r) == [rate |-> r, removes |-> FALSE]
Remove(r) == [rate |-> r, removes |-> TRUE]
BookHistories ==
    {<<Place(1), Place(2), Remove(1), Place(1)>>, <<Place(1), Remove(1), Place(2), Remove(2)>>,
     <<Place(1), Place(2), Place(1), Remove(2), Remove(1)>>}

Ob == INSTANCE OrderBook WITH
          Histories <- BookHistories, Venues <- {"bittrex", "poloniex"},
          maxBittrexQueueSize <- 2, MaxConnections <- 2, MaxLost <- 1

\* Every version that can be upgraded, one with local times, and none yet.
UpgradeStarts ==
    {<<"legacy", v, 0>> : v \in 1 .. 17} \cup {<<"versioned", v, 0>> : v \in 0 .. 8}
        \cup {<<"legacy", 12, 1>>, <<"versioned", 5, 1>>, <<"none", 0, 0>>}

Up == INSTANCE Upgrades WITH Tables <- {"t1", "t2"}, Starts <- UpgradeStarts,
                             MaxCrashes <- 2, MaxErrors <- 1

Cu == INSTANCE ChainUpgrade WITH
          OldChain <- <<"g", "a", "b", "c">>, SideBlocks <- <<"s">>, NewBlock <- "n",
          MaxEntries <- 2, MaxDeletions <- 2, MaxStops <- 2
-----------------------------------------------------------------------------
\* A part that does not run starts in one state only.
MCInit ==
    /\ part \in {"cache", "pool", "addresses", "api", "charts", "fetch", "exchanges", "books",
                "upgrades", "chain upgrades"}
    /\ Init /\ (part = "cache" \/ maxSize = 2)
    /\ Pool!Init
    /\ AddressInit /\ (part = "addresses" \/ wants = (CHOOSE w \in AddressWants : TRUE))
    /\ Ap!APIInit /\ (part = "api" \/ main[1] = "b1")
    /\ Ch!Init /\ (part = "charts" \/ Len(chartDB) = 4)
    /\ Fe!Init /\ (part = "fetch" \/ <<node, left>> = <<<<0, 10, 20>>, FetchLoad(3, 0, 0, 1, 0)>>)
    /\ Xb!Init /\ (part = "exchanges" \/ ~load.charts)
    /\ Ob!Init /\ (part = "books" \/ <<venue, Len(history)>> = <<"bittrex", 5>>)
    /\ Up!UpgradeInit /\ (part = "upgrades" \/ dbase.kind = "none")
    /\ Cu!ChainUpgradeInit /\ (part = "chain upgrades" \/ cdb.version = 0)

Idle(vs) == UNCHANGED vs
InCache == part = "cache" /\ Idle(<<part, poolVars, addressCacheVars, apiVars, chartVars, fetchVars, exchangeVars, bookVars, upgradeVars, chainUpgradeVars>>)
InPool == part = "pool" /\ Idle(<<part, vars, addressCacheVars, apiVars, chartVars, fetchVars, exchangeVars, bookVars, upgradeVars, chainUpgradeVars>>)
InAddresses == part = "addresses" /\ Idle(<<part, vars, poolVars, apiVars, chartVars, fetchVars, exchangeVars, bookVars, upgradeVars, chainUpgradeVars>>)
InAPI == part = "api" /\ Idle(<<part, vars, poolVars, addressCacheVars, chartVars, fetchVars, exchangeVars, bookVars, upgradeVars, chainUpgradeVars>>)
InCharts == part = "charts" /\ Idle(<<part, vars, poolVars, addressCacheVars, apiVars, fetchVars, exchangeVars, bookVars, upgradeVars, chainUpgradeVars>>)
InFetch == part = "fetch" /\ Idle(<<part, vars, poolVars, addressCacheVars, apiVars, chartVars, exchangeVars, bookVars, upgradeVars, chainUpgradeVars>>)
InExchanges == part = "exchanges" /\ Idle(<<part, vars, poolVars, addressCacheVars, apiVars, chartVars, fetchVars, bookVars, upgradeVars, chainUpgradeVars>>)
InBooks == part = "books" /\ Idle(<<part, vars, poolVars, addressCacheVars, apiVars, chartVars, fetchVars, exchangeVars, upgradeVars, chainUpgradeVars>>)
InUpgrades == part = "upgrades" /\ Idle(<<part, vars, poolVars, addressCacheVars, apiVars, chartVars, fetchVars, exchangeVars, bookVars, chainUpgradeVars>>)
InChainUpgrades == part = "chain upgrades" /\ Idle(<<part, vars, poolVars, addressCacheVars, apiVars, chartVars, fetchVars, exchangeVars, bookVars, upgradeVars>>)

MCNext ==
    \/ InCache /\ Next
    \/ InPool /\ Pool!Next
    \/ InAddresses /\ AddressNext
    \/ InAPI /\ Ap!APINext
    \/ InCharts /\ Ch!Next
    \/ InFetch /\ Fe!Next
    \/ InExchanges /\ Xb!Next
    \/ InBooks /\ Ob!Next
    \/ InUpgrades /\ Up!UpgradeNext
    \/ InChainUpgrades /\ Cu!ChainUpgradeNext

allVars == <<part, vars, poolVars, addressCacheVars, apiVars, chartVars, fetchVars, exchangeVars,
             bookVars, upgradeVars, chainUpgradeVars>>

MCSpec == MCInit /\ [][MCNext]_allVars

(***************************************************************************)
(* The fairness of each part, as its own module states it, is assumed by   *)
(* the liveness properties of that part and by no other.                   *)
(***************************************************************************)
PoolFairness ==
    /\ WF_allVars(InPool /\ Pool!Move) /\ WF_allVars(InPool /\ Pool!TrimEnd)
    /\ WF_allVars(InPool /\ Pool!Load)

AddressFairness == \A r \in Readers : WF_allVars(InAddresses /\ Reader(r))

FetchFairness ==
    /\ WF_allVars(InFetch /\ Fe!retargetAndUnlock) /\ WF_allVars(InFetch /\ Fe!fetcher)
    /\ SF_allVars(InFetch /\ Fe!RetrieveAndStoreNext) /\ WF_allVars(InFetch /\ Fe!updateToBlock)

ExchangeFairness ==
    /\ WF_allVars(InExchanges /\ Xb!BotSteps)
    /\ \A x \in {"p", "i"} : WF_allVars(InExchanges /\ Xb!Sent(x))

Sizes == 0 .. 5

-----------------------------------------------------------------------------
\* TicketPool: Pool and Trim return and start-up gets through, also when disk
\* writes fail, with the indexes of advance, retreat and trim in range.
PoolCallsEnd == [](part = "pool" => Pool!CursorInRange) /\ (PoolFairness => Pool!CallsEnd /\ Pool!StartupEnds)

\* AddressCache: a lookup that waits for another one's query is woken.
WaitsEnd == AddressFairness => WaitersAreWoken

\* APICache: the cache, its index by height and its heap hold the same blocks.
CacheIsQueue == Ap!CacheIsQueue

\* ChartData: columns are of the main chain, days are what the blocks give, and
\* the series of a chart are about the same blocks, days or windows.
ChartsFollowChain == Ch!ColumnsFollowChain /\ Ch!DaysAreRebuilt /\ Ch!ChartsAreAligned

\* Fetch: no waiter misses the block it waits for, the gate's maps agree, and an
\* update that has taken the gate's lock ends.
GateServesWaiters == [](part = "fetch" => Fe!GateServesWaiters) /\ (FetchFairness => Fe!UpdatesEnd)

\* ExchangeBot: an update the bot has taken is processed.
UpdatesAreProcessed == ExchangeFairness => Xb!UpdatesAreProcessed

\* ExchangeBot, OrderBook: a chart that counts as current shows the last depths,
\* and a book is the exchange's after the last update applied.
BooksAreCurrent == Xb!ChartsAreLatest /\ Ob!BookIsReplay

\* Upgrades, ChainUpgrade: a database has what its version claims, wherever
\* earlier runs stopped, and an upgrade that nothing disturbs ends.
UpgradesAreSound ==
    /\ [](Up!UpgradesAreSound /\ Cu!ChainUpgradeIsSound)
    /\ WF_allVars(InChainUpgrades /\ Cu!upgradeDB) => (part = "chain upgrades" => Cu!UpgradesEnd)
=============================================================================
