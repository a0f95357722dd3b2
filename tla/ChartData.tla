----------------------------- MODULE ChartData ------------------------------
(***************************************************************************)
(* The data of the charts (db/cache/charts.go) and the updaters that fill  *)
(* them from the database (db/dcrpg/queries.go, pgblockchain.go): columns  *)
(* of one entry per block or per ticket price window, days computed from   *)
(* the blocks, the charts made of them, the file that keeps the columns    *)
(* over a restart, and the reorganizations that cut them.                  *)
(*                                                                         *)
(* An entry is the block it was made of, so that a column can be compared  *)
(* with the main chain.  Columns that one updater appends together are one *)
(* column here.                                                            *)
(***************************************************************************)
EXTENDS Integers, Sequences, SequencesExt, FiniteSetsExt

CONSTANTS DiffInterval,   \* Blocks of a window.
          Day,            \* Length of a day.
          Histories,      \* The times of the first blocks, and what the chain does then.
          MaxFaults,      \* Queries that may fail.
          ReorgsRace      \* Whether the chain reorganizes during an update.

VARIABLES history,        \* The events still to come.
          db,             \* Main chain of the database: blocks [id, time].
          snipping,       \* Length the reorganization leaves; -1 when it was told.
          blocks, windows, days,
          update,         \* The update that runs: its updater, and what it fetched.
          pending,        \* Updates triggered and not begun.
          ids,            \* Cache numbers of the blocks and of the days.
          faults

chartVars == <<history, db, snipping, blocks, windows, days, update, pending, ids, faults>>

Updaters == <<"basic", "supply", "window", "missed", "fees", "mixed", "anonymity", "pool">>
WindowColumns == {"window", "missed"}
BlockColumns  == ToSet(Updaters) \ WindowColumns

From(s, n) == SubSeq(s, n + 1, Len(s))
snip(data, max) == SubSeq(data, 1, IF max < Len(data) THEN max ELSE Len(data))
Snip(set, length) == [c \in DOMAIN set |-> snip(set[c], IF length < 0 THEN 0 ELSE length)]
Shortest(set) == Min({Len(set[c]) : c \in DOMAIN set})
Empty(columns) == [c \in columns |-> <<>>]

(***************************************************************************)
(* Days.                                                                   *)
(***************************************************************************)
midnight(t) == t - (t % Day)

\* One block further: the first that is not of the day closes it.  The work of
\* a day is the next block's.
CloseDay(acc, bs, i, end) ==
    IF acc.done \/ bs[i].time < acc.start + Day THEN acc
    ELSE [start |-> acc.start + Day, from |-> i, done |-> bs[i].time > end,
          days |-> Append(acc.days, [time |-> acc.start, height |-> i - 2, work |-> bs[i].id,
                                     ids |-> [k \in 1..(i - acc.from) |-> bs[acc.from + k - 1].id]])]

NewDays(bs, ds) ==
    LET end    == midnight(Last(bs).time)
        start  == IF ds = <<>> THEN midnight(bs[1].time) ELSE Last(ds).time + Day
        after  == {i \in DOMAIN bs : bs[i].time > start}
        offset == IF after = {} THEN 1 ELSE Min(after)
        none   == [start |-> start, from |-> offset, done |-> FALSE, days |-> <<>>]
    IN  IF end <= start + Day THEN <<>>
        ELSE FoldLeft(LAMBDA acc, i : CloseDay(acc, bs, i, end), none,
                      [k \in 1..(Len(bs) - offset + 1) |-> offset + k - 1]).days

\* Columns are cut to the shortest, then the days are brought up to date.
Lengthen(bs, ws, ds, cacheIDs) ==
    LET b    == Snip(bs, Shortest(bs))
        w    == Snip(ws, Shortest(ws))
        more == NewDays(b["basic"], ds)
    IN  IF Shortest(bs) = 0
        THEN [ok |-> TRUE, blocks |-> b, windows |-> ws, days |-> ds, ids |-> cacheIDs]
        ELSE IF Shortest(ws) = 0
        THEN [ok |-> FALSE, blocks |-> b, windows |-> w, days |-> ds, ids |-> cacheIDs]
        ELSE [ok |-> TRUE, blocks |-> b, windows |-> w, days |-> ds \o more,
              ids |-> [block |-> Last(b["basic"]).time,
                       day |-> IF more = <<>> THEN cacheIDs.day ELSE cacheIDs.day + 1]]

(***************************************************************************)
(* The charts.  A series names the entries its values are made of.         *)
(***************************************************************************)
Ids(bs) == [i \in DOMAIN bs |-> bs[i].id]
DayKeys(ds) == [i \in DOMAIN ds |-> ds[i].time]

\* The average over HashrateAvgLength blocks begins after so many.
HashrateAvgLength == 2
hashrate(bs) == From(Ids(bs), HashrateAvgLength)
dailyHashrate(ds) == From(DayKeys(ds), 1)
blockTimes(bs) == IF Len(bs) < 2 THEN <<>> ELSE From(Ids(bs), 1)

\* The average of a day is there when a block came after the next one began.
avgBlockTimes(ds, bs) ==
    LET ended(i) == i < Len(ds) /\ \E k \in DOMAIN bs : bs[k].time > ds[i + 1].time
    IN  SelectSeq([i \in DOMAIN ds |-> IF ended(i) THEN ds[i].time ELSE -1], LAMBDA t : t >= 0)

\* The columns of the charts that show them as they are.
PlainCharts ==
    [blockSize |-> {"basic"}, blockchainSize |-> {"basic"}, chainWork |-> {"basic"},
     coinSupply |-> {"supply", "anonymity"}, txCount |-> {"basic"}, fees |-> {"fees"},
     anonymitySet |-> {"mixed"}, ticketPoolSize |-> {"pool"}, poolValue |-> {"pool"},
     stakedCoins |-> {"supply", "pool"}]
WindowCharts ==
    [powDifficulty |-> {"window"}, ticketPrice |-> {"window"}, missedVotes |-> {"missed"}]
StartPOS == DiffInterval
Charts == DOMAIN PlainCharts \cup DOMAIN WindowCharts \cup {"durationBTW", "hashRate"}

\* All series have the length of the shortest.
encode(sets) == LET n == Min({Len(s) : s \in sets}) IN {SubSeq(s, 1, n) : s \in sets}

blockChart(chart) ==
    CASE chart \in DOMAIN PlainCharts ->
           encode({Ids(blocks["basic"])} \cup {Ids(blocks[c]) : c \in PlainCharts[chart]})
      [] chart = "durationBTW" -> encode({blockTimes(blocks["basic"])})
      [] chart = "hashRate"    -> encode({hashrate(blocks["basic"])})

dayChart(chart) ==
    CASE chart \in DOMAIN PlainCharts -> encode({DayKeys(days)})
      [] chart = "durationBTW" -> encode({snip(DayKeys(days), Len(days) - 1),
                                          avgBlockTimes(days, blocks["basic"])})
      [] chart = "hashRate"    -> encode({dailyHashrate(days), From(DayKeys(days), 1)})

\* Windows before proof of stake have no votes to miss.
windowChart(chart) ==
    LET start == StartPOS \div DiffInterval
        skip  == IF chart # "missedVotes" \/ start >= Shortest(windows) THEN 0 ELSE start
    IN  encode({From(windows[c], skip) : c \in WindowCharts[chart] \cup {"window"}})

\* A chart that needs two blocks or days is refused before there are two.
Refuses(chart, bin) ==
    \/ chart = "hashRate" /\ bin = "block" /\ Len(blocks["basic"]) < 2
    \/ chart \in {"hashRate", "durationBTW"} /\ bin = "day" /\ Len(days) < 2

(***************************************************************************)
(* Updates.                                                                *)
(***************************************************************************)
Idle == [at |-> 0, fetched |-> FALSE, state |-> 0, rows |-> <<>>]

stateID == IF blocks["basic"] = <<>> THEN 0 ELSE Last(blocks["basic"]).time

\* The blocks above the last entry; of a window column, above its last window;
\* of the anonymity set, up to the last entry of the basic columns.
Rows(c) ==
    LET n == Len(blocks[c])
    IN  CASE c \in WindowColumns -> From(db, Len(windows[c]) * DiffInterval)
          [] c = "anonymity" -> SubSeq(db, n + 1, Len(blocks["basic"]))
          [] OTHER -> From(db, n)

\* Rows become windows as long as they fill them.
FullWindows(rows) ==
    [w \in 1..(Len(rows) \div DiffInterval) |->
       [k \in 1..DiffInterval |-> rows[(w - 1) * DiffInterval + k].id]]

\* Start-up: the charts are updated once the database is in step.
Init ==
    /\ \E h \in Histories :
         /\ history = h.events
         /\ db = [i \in DOMAIN h.start |-> [id |-> i, time |-> h.start[i]]]
    /\ snipping = -1 /\ update = Idle /\ pending = 1 /\ faults = 0
    /\ blocks = Empty(BlockColumns) /\ windows = Empty(WindowColumns) /\ days = <<>>
    /\ ids = [block |-> 0, day |-> 0]

Begin ==
    /\ pending > 0 /\ update.at = 0 /\ (ReorgsRace \/ snipping = -1)
    /\ pending' = pending - 1
    /\ update' = [Idle EXCEPT !.at = 1]
    /\ UNCHANGED <<history, db, snipping, blocks, windows, days, ids, faults>>

Fetch ==
    /\ update.at > 0 /\ ~update.fetched
    /\ update' = [update EXCEPT !.fetched = TRUE, !.state = stateID,
                                !.rows = Rows(Updaters[update.at])]
    /\ UNCHANGED <<history, db, snipping, blocks, windows, days, pending, ids, faults>>

\* A query that fails ends the update; its columns stay as they are.
FetchFails ==
    /\ update.at > 0 /\ ~update.fetched /\ faults < MaxFaults
    /\ update' = Idle /\ faults' = faults + 1
    /\ UNCHANGED <<history, db, snipping, blocks, windows, days, pending, ids>>

validState == stateID = update.state

\* After the last updater the columns are compared and the days computed.
Finished(bs, ws) ==
    LET r == Lengthen(bs, ws, days, ids)
    IN  /\ blocks' = r.blocks /\ windows' = r.windows /\ days' = r.days /\ ids' = r.ids
        /\ update' = Idle

Appended(bs, ws) ==
    \/ /\ update.at < Len(Updaters)
       /\ update' = [Idle EXCEPT !.at = update.at + 1]
       /\ blocks' = bs /\ windows' = ws /\ UNCHANGED <<days, ids>>
    \/ update.at = Len(Updaters) /\ Finished(bs, ws)

\* Rows that were fetched before the last block changed are not appended.
AppendRows ==
    /\ update.at > 0 /\ update.fetched
    /\ LET c == Updaters[update.at]
       IN  \/ /\ ~validState
              /\ update' = Idle /\ UNCHANGED <<blocks, windows, days, ids>>
           \/ /\ validState /\ c \in BlockColumns
              /\ Appended([blocks EXCEPT ![c] = @ \o update.rows], windows)
           \/ /\ validState /\ c \in WindowColumns
              /\ Appended(blocks, [windows EXCEPT ![c] = @ \o FullWindows(update.rows)])
    /\ UNCHANGED <<history, db, snipping, pending, faults>>

(***************************************************************************)
(* The chain.                                                              *)
(***************************************************************************)
Event(kind) == history # <<>> /\ Head(history).kind = kind /\ history' = Tail(history)
NewBlock(i, time) == [id |-> 100 * Len(history) + i, time |-> time]

StoreBlock ==
    /\ Event("block") /\ snipping = -1
    /\ db' = Append(db, NewBlock(0, Head(history).time))
    /\ pending' = pending + 1
    /\ UNCHANGED <<snipping, blocks, windows, days, update, ids, faults>>

\* The database is reorganized first, then the handler of the charts is called.
\* The charts are not updated before the next block.
Reorganize ==
    /\ Event("reorg") /\ (ReorgsRace \/ update.at = 0) /\ snipping = -1
    /\ LET e == Head(history)
           left == SubSeq(db, 1, Len(db) - e.depth)
       IN  /\ db' = left \o [i \in DOMAIN e.times |-> NewBlock(i, e.times[i])]
           /\ snipping' = Len(left)
    /\ UNCHANGED <<blocks, windows, days, update, pending, ids, faults>>

\* Mutant: one block too many is left.
ReorgHandlerLate ==
    /\ snipping >= 0
    /\ blocks' = Snip(blocks, snipping + 1)
    /\ days' = snip(days, IF Len(days) < 2 THEN 0 ELSE Len(days) - 2)
    /\ windows' = Snip(windows, Len(windows["window"]) - 1)
    /\ snipping' = -1
    /\ UNCHANGED <<history, db, update, pending, ids, faults>>

ReorgHandler ==
    /\ snipping >= 0
    /\ blocks' = Snip(blocks, snipping)
    /\ days' = snip(days, IF Len(days) < 2 THEN 0 ELSE Len(days) - 2)
    /\ windows' = Snip(windows, Len(windows["window"]) - 1)
    /\ snipping' = -1
    /\ UNCHANGED <<history, db, update, pending, ids, faults>>

\* Dump, and Load of what was dumped.  A file that cannot be read, or is of
\* another version, leaves the columns empty, and so does an error of Lengthen.
Restart ==
    /\ Event("restart") /\ snipping = -1
    /\ \E read \in BOOLEAN :
         LET r == Lengthen(blocks, windows, <<>>, [block |-> 0, day |-> 0])
             kept == read /\ r.ok
         IN  /\ blocks' = IF kept THEN r.blocks ELSE Empty(BlockColumns)
             /\ windows' = IF kept THEN r.windows ELSE Empty(WindowColumns)
             /\ days' = IF kept THEN r.days ELSE <<>>
             /\ ids' = IF kept THEN r.ids ELSE [block |-> 0, day |-> 0]
    /\ update' = Idle /\ pending' = 1
    /\ UNCHANGED <<db, snipping, faults>>

Next ==
    \/ Begin \/ Fetch \/ FetchFails \/ AppendRows
    \/ StoreBlock \/ Reorganize \/ ReorgHandler \/ Restart

Spec == Init /\ [][Next]_chartVars

(***************************************************************************)
(* What must hold.                                                         *)
(***************************************************************************)
WindowIds(chain, w) == [k \in 1..DiffInterval |-> chain[(w - 1) * DiffInterval + k].id]

\* Every entry of every column is of the main chain's block of its height,
\* whichever updates failed half way, were cut short by a reorganization or a
\* restart, and however long the columns were; a window is of the blocks of
\* its window.
ColumnsFollowChain ==
    snipping = -1 =>
      /\ \A c \in BlockColumns : IsPrefix(blocks[c], db)
      /\ \A c \in WindowColumns, w \in DOMAIN windows["window"] \cup DOMAIN windows["missed"] :
           w \in DOMAIN windows[c] =>
             w * DiffInterval <= Len(db) /\ windows[c][w] = WindowIds(db, w)

\* Days that were added block by block, cut by reorganizations and computed
\* again after a restart are those that the blocks give at once; every day has
\* only its own blocks, and no block is missing between two days.
DaysAreRebuilt ==
    (update.at = 0 /\ snipping = -1) =>
      LET all == IF blocks["basic"] = <<>> THEN <<>> ELSE NewDays(blocks["basic"], <<>>)
      IN  /\ IsPrefix(days, all)
          /\ \A i \in DOMAIN days : \A b \in ToSet(blocks["basic"]) :
               b.time \in days[i].time..(days[i].time + Day - 1) => b.id \in ToSet(days[i].ids)

\* All series of a chart, of any kind and bin, are about the same blocks, days
\* or windows, entry by entry, also during an update that has appended to some
\* of the columns only.
ChartsAreAligned ==
    \A chart \in Charts :
      IF chart \in DOMAIN WindowCharts THEN Cardinality(windowChart(chart)) = 1
      ELSE /\ Refuses(chart, "block") \/ snipping # -1 \/ Cardinality(blockChart(chart)) = 1
           /\ Refuses(chart, "day") \/ Cardinality(dayChart(chart)) = 1
=============================================================================
