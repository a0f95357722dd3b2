----------------------------- MODULE ExplorerHub -----------------------------
(***************************************************************************)
(* The explorer's web socket hub, its connections and the page they show   *)
(* (explorer/websocket.go, websockethandlers.go, syncstatus.go and the     *)
(* Store of explorer.go).                                                  *)
(*                                                                         *)
(* The hub is one goroutine that selects among channels: signals of other  *)
(* goroutines, clients that come and leave, the request to send the new    *)
(* transactions, exchange updates and the order to stop. A connection is a *)
(* goroutine that selects among its own channels and writes what it takes  *)
(* to the socket, and a second one that reads the socket. A signal holds   *)
(* no data: what is written is read when it is written.                    *)
(***************************************************************************)
EXTENDS Naturals, Sequences, FiniteSets

CONSTANTS Visitors,         \* connections that may be made
          SpokeSize,        \* places of a connection's signal channel (3)
          XcSize,           \* places of its exchange channel (3)
          XcChanSize,       \* places of the hub's exchange channel (16)
          newTxBufferSize,  \* transactions that are sent at once (5)
          clientSignalSize, \* places of sendBufferChan (5)
          Visits            \* what happens in a run: records of bounds

VARIABLES wsHub,    \* the hub: where it is, its clients, the buffer, its channels
          conns,    \* the connections
          relayed,  \* senders that wait at HubRelay
          page,     \* pageData and the progress bars
          budget,   \* what may still happen
          wsLog     \* ghost: the blocks each connection was shown

explorerVars == <<wsHub, conns, relayed, page, budget, wsLog>>

-----------------------------------------------------------------------------
Nothing == [event |-> "nothing", is |-> 0, meant |-> 0]

ExplorerInit ==
    /\ budget \in Visits
    /\ wsHub = [pc |-> "select", clients |-> {}, numClients |-> 0, owed |-> {}, xcChan |-> 0,
                newTxBuffer |-> {}, kicks |-> 0, sendBufferChan |-> 0, quit |-> FALSE]
    /\ conns = [c \in Visitors |-> [pc |-> "out", spoke |-> <<>>, closed |-> FALSE, xc |-> 0, newTxs |-> {}, ws |-> "none", out |-> Nothing]]
    /\ relayed = {}
    /\ page = [height |-> 0, ASR |-> 0, simulations |-> {}, sync |-> "off", timer |-> "off", bars |-> 0]
    /\ wsLog = [c \in Visitors |-> <<>>]

Spends(what) == budget[what] > 0 /\ budget' = [budget EXCEPT ![what] = @ - 1]

-----------------------------------------------------------------------------
(* The hub                                                                 *)

\* registerClient
registerClient(c) ==
    /\ wsHub.pc = "select" /\ conns[c].pc = "registering"
    /\ wsHub' = [wsHub EXCEPT !.clients = @ \cup {c}, !.numClients = Cardinality(wsHub.clients \cup {c})]
    /\ conns' = [conns EXCEPT ![c].pc = "loop"]
    /\ UNCHANGED <<relayed, page, budget, wsLog>>

\* The clients in `gone` are deleted and their channels closed.
Dropped(gone, cs) == [c \in Visitors |-> IF c \in gone THEN [cs[c] EXCEPT !.closed = TRUE] ELSE cs[c]]

\* The mutation of unregisterClient that closes the channel of a client it has
\* unregistered before: a panic.
unregisterClientTwice(c) ==
    /\ wsHub.pc = "select" /\ conns[c].pc = "leaving"
    /\ IF c \in wsHub.clients
       THEN /\ wsHub' = [wsHub EXCEPT !.clients = @ \ {c}, !.numClients = Cardinality(wsHub.clients \ {c})]
            /\ conns' = [Dropped({c}, conns) EXCEPT ![c].pc = "gone"]
       ELSE wsHub' = [wsHub EXCEPT !.pc = "off"] /\ UNCHANGED conns
    /\ UNCHANGED <<relayed, page, budget, wsLog>>

\* UnregisterClient of a connection meets unregisterClient of the hub.
unregisterClient(c) ==
    LET known == {c} \cap wsHub.clients
    IN /\ wsHub.pc = "select" /\ conns[c].pc = "leaving"
       /\ wsHub' = [wsHub EXCEPT !.clients = @ \ known, !.numClients = Cardinality(wsHub.clients \ known)]
       /\ conns' = [Dropped(known, conns) EXCEPT ![c].pc = "gone"]
       /\ UNCHANGED <<relayed, page, budget, wsLog>>

\* A signal goes to every client that has a place for it, the others are
\* unregistered.
Signalled(s, cs) ==
    LET full == {c \in wsHub.clients : Len(cs[c].spoke) >= SpokeSize}
    IN /\ conns' = [c \in Visitors |-> IF c \in wsHub.clients \ full THEN [cs[c] EXCEPT !.spoke = Append(@, s)] ELSE Dropped(full, cs)[c]]
       /\ wsHub' = [wsHub EXCEPT !.clients = @ \ full, !.numClients = IF full = {} THEN @ ELSE Cardinality(wsHub.clients \ full)]

\* The loop takes a message of HubRelay. Transactions are kept; the last that
\* fits starts a goroutine that asks for the buffer to be sent (maybeSendTxns).
RelayMessage(m) ==
    /\ wsHub.pc = "select" /\ m \in relayed
    /\ relayed' = relayed \ {m}
    /\ IF m.signal = "newTx"
       THEN LET full == Cardinality(wsHub.newTxBuffer \cup {m.data}) >= newTxBufferSize
            IN /\ wsHub' = [wsHub EXCEPT !.newTxBuffer = @ \cup {m.data}, !.kicks = IF full THEN @ + 1 ELSE @]
               /\ UNCHANGED conns
       ELSE Signalled(m, conns)
    /\ UNCHANGED <<page, budget, wsLog>>

\* The buffer is sent: every client's slice is replaced, then it is told.
SendBuffer ==
    LET txs == wsHub.newTxBuffer
        emptied == [wsHub EXCEPT !.sendBufferChan = @ - 1, !.newTxBuffer = {}]
        given == [c \in Visitors |-> IF c \in wsHub.clients THEN [conns[c] EXCEPT !.newTxs = txs] ELSE conns[c]]
        full == {c \in wsHub.clients : Len(conns[c].spoke) >= SpokeSize}
        s == [signal |-> "newTxs", data |-> 0]
    IN /\ wsHub.pc = "select" /\ wsHub.sendBufferChan > 0
       /\ IF txs = {} THEN wsHub' = emptied /\ UNCHANGED conns
          ELSE /\ conns' = [c \in Visitors |-> IF c \in wsHub.clients \ full THEN [given[c] EXCEPT !.spoke = Append(@, s)] ELSE Dropped(full, given)[c]]
               /\ wsHub' = [emptied EXCEPT !.clients = @ \ full, !.numClients = Cardinality(wsHub.clients \ full)]
       /\ UNCHANGED <<relayed, page, budget, wsLog>>

\* An exchange update is sent to one client after the other, waiting for each.
TakeUpdate ==
    /\ wsHub.pc = "select" /\ wsHub.xcChan > 0
    /\ wsHub' = [wsHub EXCEPT !.xcChan = @ - 1, !.owed = wsHub.clients, !.pc = IF wsHub.clients = {} THEN "select" ELSE "xc"]
    /\ UNCHANGED <<conns, relayed, page, budget, wsLog>>

SendUpdate(c) ==
    /\ wsHub.pc = "xc" /\ c \in wsHub.owed
    /\ conns[c].xc < XcSize
    /\ conns' = [conns EXCEPT ![c].xc = @ + 1]
    /\ wsHub' = [wsHub EXCEPT !.owed = @ \ {c}, !.pc = IF wsHub.owed = {c} THEN "select" ELSE "xc"]
    /\ UNCHANGED <<relayed, page, budget, wsLog>>

\* quitWSHandler is closed: the loop ends and unregisterAllClients closes all.
Quit ==
    /\ wsHub.pc = "select" /\ wsHub.quit
    /\ conns' = Dropped(wsHub.clients, conns)
    /\ wsHub' = [wsHub EXCEPT !.pc = "off", !.clients = {}]
    /\ UNCHANGED <<relayed, page, budget, wsLog>>

run ==
    \/ \E c \in Visitors : registerClient(c) \/ unregisterClient(c) \/ SendUpdate(c)
    \/ \E m \in relayed : RelayMessage(m)
    \/ SendBuffer \/ TakeUpdate \/ Quit

\* The goroutine of maybeSendTxns, and the ticks of periodicBufferSend.
kick ==
    /\ wsHub.kicks > 0 /\ wsHub.sendBufferChan < clientSignalSize
    /\ wsHub' = [wsHub EXCEPT !.kicks = @ - 1, !.sendBufferChan = @ + 1]
    /\ UNCHANGED <<conns, relayed, page, budget, wsLog>>

periodicBufferSend ==
    /\ Spends("ticks")
    /\ wsHub.sendBufferChan < clientSignalSize /\ wsHub.pc # "off"
    /\ wsHub' = [wsHub EXCEPT !.sendBufferChan = @ + 1]
    /\ UNCHANGED <<conns, relayed, page, wsLog>>

Stop ==
    /\ Spends("stops")
    /\ wsHub' = [wsHub EXCEPT !.quit = TRUE]
    /\ UNCHANGED <<conns, relayed, page, wsLog>>

-----------------------------------------------------------------------------
(* The senders                                                             *)

\* The mutation of Store that signals a block the page does not show yet.
StoreLate ==
    /\ Spends("blocks")
    /\ page' = [page EXCEPT !.simulations = @ \cup {page.height + 1}]
    /\ relayed' = relayed \cup {[signal |-> "newBlock", data |-> page.height + 1]}
    /\ UNCHANGED <<wsHub, conns, wsLog>>

\* Store puts the new block on the page, then a goroutine signals it; other
\* goroutines bring the rest of the page up to date.
Store ==
    /\ Spends("blocks")
    /\ page' = [page EXCEPT !.height = @ + 1, !.simulations = @ \cup {page.height + 1}]
    /\ relayed' = relayed \cup {[signal |-> "newBlock", data |-> page.height + 1]}
    /\ UNCHANGED <<wsHub, conns, wsLog>>

\* The goroutine gives up after ten seconds.
SignalTimeout ==
    \E m \in relayed :
      /\ m.signal = "newBlock"
      /\ wsHub.pc # "select"
      /\ relayed' = relayed \ {m}
      /\ UNCHANGED <<wsHub, conns, page, budget, wsLog>>

\* simulateASR ends for a block; its result is written whatever came later.
simulateASR ==
    \E h \in page.simulations :
      /\ page' = [page EXCEPT !.simulations = @ \ {h}, !.ASR = h]
      /\ UNCHANGED <<wsHub, conns, relayed, budget, wsLog>>

\* The mempool monitor sends one new transaction after the other.
NewTx ==
    /\ \A m \in relayed : m.signal # "newTx"
    /\ Spends("txs")
    /\ relayed' = relayed \cup {[signal |-> "newTx", data |-> budget["txs"]]}
    /\ UNCHANGED <<wsHub, conns, page, wsLog>>

pingClients ==
    /\ \A m \in relayed : m.signal # "pingAndUserCount"
    /\ Spends("pings") /\ wsHub.pc # "off"
    /\ relayed' = relayed \cup {[signal |-> "pingAndUserCount", data |-> 0]}
    /\ UNCHANGED <<wsHub, conns, page, wsLog>>

\* watchExchanges hands an update over or drops it.
watchExchanges ==
    /\ Spends("updates")
    /\ wsHub' = IF wsHub.xcChan < XcChanSize THEN [wsHub EXCEPT !.xcChan = @ + 1] ELSE wsHub
    /\ UNCHANGED <<conns, relayed, page, wsLog>>

\* BeginSyncStatusUpdates: the page of progress bars is shown, a timer signals
\* it, bars are updated; the nil bar stops the timer (which has to be waiting),
\* and after a last signal the page goes away.
BeginSyncStatusUpdates ==
    /\ page.sync = "off" /\ Spends("syncs")
    /\ page' = [page EXCEPT !.sync = "shown", !.timer = "waiting"]
    /\ UNCHANGED <<wsHub, conns, relayed, wsLog>>

SyncStatusTimer ==
    \/ /\ page.timer = "waiting" /\ Spends("bars")
       /\ page' = [page EXCEPT !.timer = "sending"]
       /\ relayed' = relayed \cup {[signal |-> "syncStatus", data |-> 0]}
       /\ UNCHANGED <<wsHub, conns, wsLog>>
    \/ /\ page.timer = "sending" /\ [signal |-> "syncStatus", data |-> 0] \notin relayed
       /\ page' = [page EXCEPT !.timer = "waiting"]
       /\ UNCHANGED <<wsHub, conns, relayed, budget, wsLog>>

BarLoad ==
    /\ page.sync = "shown"
    /\ \/ /\ Spends("bars")
          /\ page' = [page EXCEPT !.bars = @ + 1]
          /\ UNCHANGED relayed
       \/ /\ page.timer = "waiting"
          /\ page' = [page EXCEPT !.sync = "last", !.timer = "off"]
          /\ relayed' = relayed \cup {[signal |-> "syncStatus", data |-> 1]}
          /\ UNCHANGED budget
    /\ UNCHANGED <<wsHub, conns, wsLog>>

SyncPageEnds ==
    /\ page.sync = "last" /\ [signal |-> "syncStatus", data |-> 1] \notin relayed
    /\ page' = [page EXCEPT !.sync = "done"]
    /\ UNCHANGED <<wsHub, conns, relayed, budget, wsLog>>

-----------------------------------------------------------------------------
(* A connection                                                            *)

RootWebsocket(c) ==
    /\ conns[c].pc = "out" /\ Spends("visits")
    /\ conns' = [conns EXCEPT ![c].pc = "registering", ![c].ws = "open"]
    /\ UNCHANGED <<wsHub, relayed, page, wsLog>>

\* The send loop ends: the socket is closed, then UnregisterClient waits for
\* the hub.
Leaves(c) == conns' = [conns EXCEPT ![c].pc = "leaving", ![c].ws = "closed", ![c].out = Nothing]

\* What is written for a signal is read now, not when the signal was sent.
Encode(c, s) ==
    CASE s.signal = "newBlock" -> [event |-> "newBlock", is |-> page.height, meant |-> s.data]
      [] s.signal = "newTxs" -> [event |-> "newTxs", is |-> Cardinality(conns[c].newTxs), meant |-> 0]
      [] s.signal = "pingAndUserCount" -> [event |-> "ping", is |-> wsHub.numClients, meant |-> 0]
      [] OTHER -> [event |-> "sync", is |-> page.bars, meant |-> 0]

SendLoop(c) ==
    /\ conns[c].pc = "loop"
    /\ \/ /\ conns[c].spoke # <<>>
          /\ LET webData == Encode(c, Head(conns[c].spoke))
             IN /\ conns' = [conns EXCEPT ![c].spoke = Tail(@), ![c].pc = "send", ![c].out = webData]
                /\ wsLog' = IF webData.event = "newBlock" THEN [wsLog EXCEPT ![c] = Append(@, webData)] ELSE wsLog
       \/ /\ conns[c].spoke = <<>> /\ conns[c].closed
          /\ Leaves(c) /\ UNCHANGED wsLog
       \/ /\ conns[c].xc > 0
          /\ conns' = [conns EXCEPT ![c].xc = @ - 1, ![c].pc = "send"]
          /\ UNCHANGED wsLog
       \/ /\ wsHub.quit
          /\ Leaves(c) /\ UNCHANGED wsLog
    /\ UNCHANGED <<wsHub, relayed, page, budget>>

\* send: a write to a socket that is open succeeds, one to a socket whose peer
\* does not read ends at its deadline, one to a closed socket fails.
send(c) ==
    /\ conns[c].pc = "send"
    /\ IF conns[c].ws = "open" THEN conns' = [conns EXCEPT ![c].pc = "loop", ![c].out = Nothing] ELSE Leaves(c)
    /\ UNCHANGED <<wsHub, relayed, page, budget, wsLog>>

\* The reading goroutine: it answers a request and goes on, or an error of the
\* read or of the answer makes it close the socket.
ReceiveLoop(c) ==
    /\ conns[c].ws \in {"open", "stalled"} /\ Spends("requests")
    /\ \E w \in {conns[c].ws, "closed"} : conns' = [conns EXCEPT ![c].ws = w]
    /\ UNCHANGED <<wsHub, relayed, page, wsLog>>

\* The peer stops reading.
Stalls(c) ==
    /\ conns[c].ws = "open" /\ Spends("stalls")
    /\ conns' = [conns EXCEPT ![c].ws = "stalled"]
    /\ UNCHANGED <<wsHub, relayed, page, wsLog>>

-----------------------------------------------------------------------------
ExplorerNext ==
    \/ run \/ kick \/ periodicBufferSend \/ Stop
    \/ Store \/ SignalTimeout \/ simulateASR \/ NewTx \/ pingClients \/ watchExchanges
    \/ BeginSyncStatusUpdates \/ SyncStatusTimer \/ BarLoad \/ SyncPageEnds
    \/ \E c \in Visitors : RootWebsocket(c) \/ SendLoop(c) \/ send(c) \/ ReceiveLoop(c) \/ Stalls(c)

\* The goroutines of the hub and of the connections are scheduled, the timer
\* and the loader of the progress bars too. Nobody has to visit or to answer.
ExplorerFairness ==
    /\ SF_explorerVars(run) /\ WF_explorerVars(SyncStatusTimer) /\ WF_explorerVars(BarLoad) /\ WF_explorerVars(SyncPageEnds)
    /\ \A c \in Visitors : WF_explorerVars(SendLoop(c)) /\ WF_explorerVars(send(c))

ExplorerSpec == ExplorerInit /\ [][ExplorerNext]_explorerVars /\ ExplorerFairness

-----------------------------------------------------------------------------
(* Properties                                                              *)

\* A connection told of a block is shown that block or a later one, and the
\* heights it is shown never go back: the page is changed before the signal is
\* sent, and signals may be late, dropped or doubled but never early.
BlockNewsIsCurrent ==
    \A c \in Visitors : \A i, j \in DOMAIN wsLog[c] :
        /\ wsLog[c][i].is >= wsLog[c][i].meant
        /\ i < j => wsLog[c][i].is <= wsLog[c][j].is

\* While the hub is not stopped, a connection that comes is registered, one
\* that leaves is released, and the page of a sync goes away when it ends: the
\* hub never waits for a client whose channel is full.
ClientsComeAndGo ==
    /\ \A c \in Visitors : (conns[c].pc \in {"registering", "leaving"}) ~> (conns[c].pc \notin {"registering", "leaving"} \/ wsHub.quit)
    /\ (page.sync = "shown" /\ budget["bars"] = 0) ~> (page.sync = "done" \/ wsHub.quit)

\* One visitor whose socket stalls, more exchange updates than its channel has
\* places, and an order to stop.
FullChannel ==
    {[visits |-> 1, blocks |-> 0, txs |-> 0, ticks |-> 0, pings |-> 0, updates |-> 3,
      syncs |-> 0, bars |-> 0, requests |-> 0, stalls |-> 1, stops |-> 1]}

\* "WebsocketHub is responsible for closing all connections registered with
\* it. If the event loop is running, calling (*WebsocketHub).Stop() will handle
\* it." (websocket.go:52-54)
StopClosesConnections == \A c \in Visitors : wsHub.quit ~> (c \notin wsHub.clients)
=============================================================================
