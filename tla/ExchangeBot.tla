---------------------------- MODULE ExchangeBot ----------------------------
(***************************************************************************)
(* The exchange bot (exchanges/bot.go) and what its exchanges share        *)
(* (CommonExchange, exchanges/exchanges.go): requests that overlap, order  *)
(* books that arrive on a web socket meanwhile, updates sent on a channel  *)
(* with the exchange's lock held, and the loop that takes them, drops      *)
(* exchanges that are out of date, and keeps encoded charts by version.    *)
(*                                                                         *)
(* A price is the time it was fetched at, 0 while there is none (the zero  *)
(* ExchangeState of newCommonExchange, whose volume is 0 too).  A depth is *)
(* a number.  The mean price is known by the exchanges that weigh in it.   *)
(***************************************************************************)
EXTENDS Integers, Sequences, FiniteSets, TLC

CONSTANTS Dcr, Indices,            \* DcrBtcExchanges and IndexExchanges.
          Sockets,                 \* The Dcr exchanges with a web socket.
          DataExpiry, RequestExpiry,
          ChanSize,                \* Of exchangeChan and indexChan: 16 in the code.
          Readers,                 \* Who asks for the aggregated depth chart.
          MaxFlights,              \* A bound.
          Loads                    \* Bounds: [clock, depths, charts, tokens].

VARIABLES load, clock, xc,
          flights,      \* Refresh goroutines: [x, at, since, price, silent, depth].
          book,         \* Order books that arrived: the state they will be sent with.
          exchangeChan, indexChan,
          bot, readers,
          depths,       \* How many depths were made.
          latest        \* The last depth the bot got from every exchange.

exchangeVars == <<load, clock, xc, flights, book, exchangeChan, indexChan, bot, readers, depths, latest>>

Tokens == Dcr \cup Indices
None == [price |-> -1, depth |-> -1]
NoState == [price |-> 0, depth |-> 0]         \* new(ExchangeState); depth 0 is nil.
IdleReader == [at |-> "idle", version |-> -1, chart |-> <<>>]

newCommonExchange == [lastUpdate |-> -10, lastFail |-> -10, lastRequest |-> -10, state |-> NoState,
                      sending |-> None, ws |-> "off"]

NewExchangeBot ==
    [at |-> "starts", taken |-> <<>>, dcr |-> <<>>, fiat |-> <<>>, failed |-> FALSE,
     price |-> <<>>, stateCopy |-> <<>>, version |-> -1, chart |-> [dataID |-> -2, chart |-> <<>>]]

Init ==
    /\ load \in Loads /\ clock = 1 /\ xc = [x \in Tokens |-> newCommonExchange]
    /\ flights = {} /\ book = [x \in Sockets |-> None]
    /\ exchangeChan = <<>> /\ indexChan = <<>> /\ bot = NewExchangeBot
    /\ readers = [r \in Readers |-> IdleReader] /\ depths = 0 /\ latest = [x \in Dcr |-> 0]

-----------------------------------------------------------------------------
(* An exchange *)

\* update and UpdateIndices send with the exchange's lock held.
Locked(x) == xc[x].sending # None

\* Refresh: LogRequest, and the request for the price.
Flight(x) == [x |-> x, at |-> "asks", since |-> clock, price |-> 0, silent |-> FALSE, depth |-> 0,
              no |-> Cardinality(flights)]

\* wsDepthStatus: a socket that listens has the depth; a failed one is connected again and the depth
\* fetched; one that never worked is connected and the update is not sent.
wsDepthStatus(x) ==
    CASE x \notin Sockets       -> [ws |-> "off", silent |-> FALSE, depth |-> depths + 1]
      [] xc[x].ws = "listens"   -> [ws |-> "listens", silent |-> FALSE, depth |-> depths + 1]
      [] xc[x].ws \in {"failed", "reopens"}
                                -> [ws |-> "reopens", silent |-> FALSE, depth |-> depths + 1]
      [] OTHER                  -> [ws |-> "opens", silent |-> TRUE, depth |-> 0]

\* The price has been fetched, and the depth is there or on its way.
RefreshFetched(f) ==
    /\ f.at = "asks" /\ ~Locked(f.x)
    /\ LET x == f.x
           s == wsDepthStatus(x)
       IN IF x \in Indices
          THEN /\ flights' = (flights \ {f}) \cup {[f EXCEPT !.at = "answers", !.price = clock]}
               /\ UNCHANGED <<xc, depths>>
          ELSE /\ s.depth <= load.depths
               /\ flights' = (flights \ {f}) \cup {[f EXCEPT !.at = "answers", !.price = clock,
                                                         !.silent = s.silent, !.depth = s.depth]}
               /\ xc' = [xc EXCEPT ![x].ws = s.ws]
               /\ depths' = IF s.depth > depths THEN s.depth ELSE depths
    /\ UNCHANGED <<load, clock, book, exchangeChan, indexChan, bot, readers, latest>>

\* fail: no update.
fail(f) ==
    /\ f.at = "asks" /\ ~Locked(f.x)
    /\ flights' = flights \ {f} /\ xc' = [xc EXCEPT ![f.x].lastFail = clock]
    /\ UNCHANGED <<load, clock, book, exchangeChan, indexChan, bot, readers, depths, latest>>

\* update: the state is the exchange's; it is sent next, with the lock held, unless silent.
update(x, state, silent) ==
    xc' = [xc EXCEPT ![x] = [@ EXCEPT !.lastUpdate = clock, !.state = state,
                                      !.sending = IF silent THEN None ELSE state]]

RefreshEnds(f) ==
    /\ f.at = "answers" /\ ~Locked(f.x)
    /\ update(f.x, [price |-> f.price, depth |-> f.depth], f.silent)
    /\ flights' = flights \ {f}
    /\ UNCHANGED <<load, clock, book, exchangeChan, indexChan, bot, readers, depths, latest>>

\* processFullOrderbook: the book, with the price and volume of the exchange's state, which is
\* never nil; then Update.
BookArrives(x) ==
    /\ xc[x].ws \in {"opens", "reopens"} /\ ~Locked(x) /\ book[x] = None /\ depths < load.depths
    /\ depths' = depths + 1
    /\ book' = [book EXCEPT ![x] = [price |-> xc[x].state.price, depth |-> depths + 1]]
    /\ UNCHANGED <<load, clock, xc, flights, exchangeChan, indexChan, bot, readers, latest>>

BookSent(x) ==
    /\ book[x] # None /\ ~Locked(x)
    /\ xc' = [xc EXCEPT ![x] = [@ EXCEPT !.lastUpdate = clock, !.state = book[x],
                                         !.sending = book[x], !.ws = "listens"]]
    /\ book' = [book EXCEPT ![x] = None]
    /\ UNCHANGED <<load, clock, flights, exchangeChan, indexChan, bot, readers, depths, latest>>

setWsFail(x) ==
    /\ xc[x].ws \in {"opens", "reopens", "listens"} /\ xc' = [xc EXCEPT ![x].ws = "failed"]
    /\ UNCHANGED <<load, clock, flights, book, exchangeChan, indexChan, bot, readers, depths, latest>>

\* A mutant: channels with one place.
SentOne(x) ==
    /\ Locked(x)
    /\ \/ /\ x \in Dcr /\ exchangeChan = <<>>
          /\ exchangeChan' = <<[token |-> x, state |-> xc[x].sending]>> /\ UNCHANGED indexChan
       \/ /\ x \in Indices /\ indexChan = <<>>
          /\ indexChan' = <<[token |-> x, state |-> xc[x].sending]>> /\ UNCHANGED exchangeChan
    /\ xc' = [xc EXCEPT ![x].sending = None]
    /\ UNCHANGED <<load, clock, flights, book, bot, readers, depths, latest>>

\* The send goes through and the lock is released.
Sent(x) ==
    /\ Locked(x)
    /\ \/ /\ x \in Dcr /\ Len(exchangeChan) < ChanSize
          /\ exchangeChan' = Append(exchangeChan, [token |-> x, state |-> xc[x].sending])
          /\ UNCHANGED indexChan
       \/ /\ x \in Indices /\ Len(indexChan) < ChanSize
          /\ indexChan' = Append(indexChan, [token |-> x, state |-> xc[x].sending])
          /\ UNCHANGED exchangeChan
    /\ xc' = [xc EXCEPT ![x].sending = None]
    /\ UNCHANGED <<load, clock, flights, book, bot, readers, depths, latest>>

-----------------------------------------------------------------------------
(* The bot's loop.  It reads LastUpdate and LastTry under every exchange's lock. *)

AllUnlocked == \A x \in Tokens : ~Locked(x)

\* Start: every exchange is refreshed once; Hurry spreads the later requests (not distinguished from
\* an exchange that answers late).
Start ==
    /\ bot.at = "starts" /\ bot' = [bot EXCEPT !.at = "idle"]
    /\ flights' = {Flight(x) : x \in load.tokens}
    /\ xc' = [x \in Tokens |-> [xc[x] EXCEPT !.lastRequest = clock]]
    /\ UNCHANGED <<load, clock, book, exchangeChan, indexChan, readers, depths, latest>>

\* Cycle: the exchanges whose last request is older than DataExpiry.
Expired == {x \in load.tokens : clock - xc[x].lastRequest > DataExpiry}
Cycle ==
    /\ bot.at = "idle" /\ AllUnlocked /\ Expired # {} /\ Cardinality(flights) < MaxFlights
    /\ flights' = flights \cup {Flight(x) : x \in Expired}
    /\ xc' = [x \in Tokens |-> IF x \in Expired THEN [xc[x] EXCEPT !.lastRequest = clock] ELSE xc[x]]
    /\ UNCHANGED <<load, clock, book, exchangeChan, indexChan, bot, readers, depths, latest>>

\* The loop takes an update from one of its channels.
Takes ==
    /\ bot.at = "idle"
    /\ \/ /\ exchangeChan # <<>> /\ exchangeChan' = Tail(exchangeChan) /\ UNCHANGED indexChan
          /\ bot' = [bot EXCEPT !.at = "busy", !.taken = Head(exchangeChan)]
       \/ /\ indexChan # <<>> /\ indexChan' = Tail(indexChan) /\ UNCHANGED exchangeChan
          /\ bot' = [bot EXCEPT !.at = "busy", !.taken = Head(indexChan)]
    /\ UNCHANGED <<load, clock, xc, flights, book, readers, depths, latest>>

\* processState: exchanges that were not updated for RequestExpiry are deleted.
processState(states) ==
    [x \in {y \in DOMAIN states : clock - xc[y].lastUpdate <= RequestExpiry} |-> states[x]]
Weighs(states) == [x \in {y \in DOMAIN states : states[y].price > 0} |-> states[x].price]

\* updateExchange and updateIndices, with updateState: nothing is priced without an exchange of
\* either kind that is up to date.
Updated(dcr, fiat) ==
    LET d == processState(dcr)
        i == processState(fiat)
        fails == Weighs(d) = <<>> \/ i = <<>>
    IN [bot EXCEPT !.at = "idle", !.taken = <<>>, !.dcr = d, !.fiat = i, !.failed = fails,
                   !.price = IF fails THEN @ ELSE Weighs(d) @@ Weighs(i), !.stateCopy = d]

updateExchange ==
    /\ bot.at = "busy" /\ bot.taken.token \in Dcr /\ AllUnlocked
    /\ LET u == bot.taken
           b == Updated((u.token :> u.state) @@ bot.dcr, bot.fiat)
       IN IF u.state.depth # 0
          THEN /\ bot' = [b EXCEPT !.version = @ + 1]
               /\ latest' = [latest EXCEPT ![u.token] = u.state.depth]
          ELSE bot' = b /\ UNCHANGED latest
    /\ UNCHANGED <<load, clock, xc, flights, book, exchangeChan, indexChan, readers, depths>>

updateIndices ==
    /\ bot.at = "busy" /\ bot.taken.token \in Indices /\ AllUnlocked
    /\ bot' = Updated(bot.dcr, (bot.taken.token :> bot.taken.state) @@ bot.fiat)
    /\ UNCHANGED <<load, clock, xc, flights, book, exchangeChan, indexChan, readers, depths, latest>>

-----------------------------------------------------------------------------
(* QuickDepth of the aggregated book: the version, then the books, then the store. *)

\* fetchFromCache
Hit == bot.chart.dataID = bot.version
Asks(r) ==
    /\ readers[r].at = "idle" /\ load.charts /\ ~Hit
    /\ readers' = [readers EXCEPT ![r] = [at |-> "reads", version |-> bot.version, chart |-> <<>>]]
    /\ UNCHANGED <<load, clock, xc, flights, book, exchangeChan, indexChan, bot, depths, latest>>

\* aggOrderbook: the exchanges of the state's copy that have a depth.
aggOrderbook == [x \in {y \in DOMAIN bot.stateCopy : bot.stateCopy[y].depth # 0} |-> bot.stateCopy[x].depth]
Reads(r) ==
    /\ readers[r].at = "reads"
    /\ readers' = [readers EXCEPT ![r].at = "stores", ![r].chart = aggOrderbook]
    /\ UNCHANGED <<load, clock, xc, flights, book, exchangeChan, indexChan, bot, depths, latest>>

\* A mutant: the version is read again when the chart is stored.
StoresLate(r) ==
    /\ readers[r].at = "stores"
    /\ bot' = [bot EXCEPT !.chart = [dataID |-> bot.version, chart |-> readers[r].chart]]
    /\ readers' = [readers EXCEPT ![r] = IdleReader]
    /\ UNCHANGED <<load, clock, xc, flights, book, exchangeChan, indexChan, depths, latest>>

Stores(r) ==
    /\ readers[r].at = "stores"
    /\ bot' = [bot EXCEPT !.chart = [dataID |-> readers[r].version, chart |-> readers[r].chart]]
    /\ readers' = [readers EXCEPT ![r] = IdleReader]
    /\ UNCHANGED <<load, clock, xc, flights, book, exchangeChan, indexChan, depths, latest>>

-----------------------------------------------------------------------------
\* Time passes when the bot has nothing to take, for it is far quicker than DataExpiry, and an
\* exchange answers or fails within DataExpiry.
Ticks ==
    /\ clock < load.clock /\ bot.at = "idle" /\ exchangeChan = <<>> /\ indexChan = <<>> /\ AllUnlocked
    /\ \A f \in flights : clock - f.since < DataExpiry
    /\ clock' = clock + 1
    /\ UNCHANGED <<load, xc, flights, book, exchangeChan, indexChan, bot, readers, depths, latest>>

Next ==
    \/ Start \/ Cycle \/ Takes \/ updateExchange \/ updateIndices \/ Ticks
    \/ \E f \in flights : RefreshFetched(f) \/ fail(f) \/ RefreshEnds(f)
    \/ \E x \in Sockets : BookArrives(x) \/ BookSent(x) \/ setWsFail(x)
    \/ \E x \in Tokens : Sent(x)
    \/ \E r \in Readers : Asks(r) \/ Reads(r) \/ Stores(r)

\* The loop runs, and so does a sender that is able to send.
BotSteps == Takes \/ updateExchange \/ updateIndices
Fairness == WF_exchangeVars(BotSteps) /\ \A x \in Tokens : WF_exchangeVars(Sent(x))
Spec == Init /\ [][Next]_exchangeVars /\ Fairness

-----------------------------------------------------------------------------
(***************************************************************************)
(* An update the bot has taken is processed: the loop, which reads every   *)
(* exchange's times under that exchange's lock, is never kept from it by   *)
(* an exchange that holds its lock while it waits for a place in the       *)
(* channel (CommonExchange.update, ExchangeBot.processState).              *)
(***************************************************************************)
UpdatesAreProcessed == bot.at = "busy" ~> bot.at = "idle"

\* A cached chart that counts as current shows the last depth received from every exchange in it,
\* however updates fell between the reading of its version and its storing (QuickDepth).
ChartsAreLatest == Hit => \A x \in DOMAIN bot.chart.chart : bot.chart.chart[x] = latest[x]
=============================================================================
