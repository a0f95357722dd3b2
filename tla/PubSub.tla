------------------------------- MODULE PubSub -------------------------------
(***************************************************************************)
(* The pubsub server (pubsub/pubsubhub.go) and its hub (websocket.go): one *)
(* loop, Run, that takes messages from HubRelay and hands them to the      *)
(* clients through channels ("spokes"); for each client an HTTP handler    *)
(* with a receive loop and a send loop; a goroutine that pings, one that   *)
(* makes the hub flush the clients' transactions, and Stop.                *)
(*                                                                         *)
(* HubRelay has no buffer: a sender waits in relay until Run takes its     *)
(* message, or gives up.  Transactions and blocks are numbers.  A write to *)
(* a peer that left fails; one to a peer that is there may fail as well.   *)
(***************************************************************************)
EXTENDS Integers, Sequences, SequencesExt

CONSTANTS Clients, Addrs,
          SpokeSize, NewTxBufferSize, TickerSize,     \* 16, 5 and 6 in the code.
          Loads      \* Bounds: [clients, requests, blocks, txs, faults].  A request of
                     \* a peer is [op, sig, addr]; without faults nobody leaves, nothing
                     \* stops or takes longer than its time limit.

VARIABLES
    load,      \* The one of Loads that runs.
    hub,       \* Run: where it is, its message, the clients it has yet to serve.
    clients,   \* wsh.clients
    cl,        \* The data, channel and goroutines of every connection.
    relay,     \* Messages whose senders wait for Run.
    ticker,    \* bufferTickerChan, timeToSendTxBuffer, and whether its loop runs.
    block,     \* psh.state.BlockInfo; 0 before the first Store.
    txs,       \* Transactions announced so far.
    stop,      \* How far Stop is.
    log        \* History: the transactions in the order Run buffered them.

pubsubVars == <<load, hub, clients, cl, relay, ticker, block, txs, stop, log>>

Everyone == {"ping", "bye"}                 \* These need no subscription.

Msg(sig, arg) == [sig |-> sig, arg |-> arg]
Ping == Msg("ping", 0)
Bye == Msg("bye", 0)

Select == [at |-> "select", msg |-> Ping, todo |-> {}]

newClient ==
    [subs |-> {}, addrs |-> {}, newTxs |-> <<>>, killed |-> FALSE,
     spoke |-> <<>>, closed |-> FALSE,
     handler |-> "none",       \* "none", "registers", "starts", "runs", "ended"
     recv |-> FALSE, send |-> FALSE, ws |-> FALSE, peer |-> FALSE,
     got |-> <<>>, seen |-> 0, from |-> 0]     \* History: what the peer received.

Init ==
    /\ load \in Loads
    /\ hub = Select
    /\ clients = {} /\ cl = [c \in Clients |-> newClient]
    /\ relay = {} /\ ticker = [queue |-> <<>>, time |-> FALSE, on |-> TRUE]
    /\ block = 0 /\ txs = 0 /\ stop = "no" /\ log = <<>>

(***************************************************************************)
(* Subscriptions.                                                          *)
(***************************************************************************)
isSubscribed(c, msg) ==
    /\ msg.sig \in cl[c].subs
    /\ msg.sig = "address" => msg.arg \in cl[c].addrs

subscribe(d, sig, addr) ==
    [d EXCEPT !.subs = @ \cup {sig}, !.addrs = IF sig = "address" THEN @ \cup {addr} ELSE @]

\* Address signals end with the last address.
unsubscribe(d, sig, addr) ==
    LET left == d.addrs \ {addr}
    IN  IF sig # "address" THEN [d EXCEPT !.subs = @ \ {sig}]
        ELSE [d EXCEPT !.addrs = left, !.subs = IF left = {} THEN @ \ {sig} ELSE @]

unsubscribeAll(d) == [d EXCEPT !.subs = {}, !.addrs = {}]

(***************************************************************************)
(* The connection of a client: WebSocketHandler and its two loops.         *)
(***************************************************************************)
\* NewClientHubSpoke waits for Run.
Connect(c) ==
    /\ cl[c].handler = "none" /\ c \in load.clients
    /\ cl' = [cl EXCEPT ![c].handler = "registers"]
    /\ UNCHANGED <<load, hub, clients, relay, ticker, block, txs, stop, log>>

\* The handshake succeeds and the loops start, or the handler returns.
WebSocketHandler(c) ==
    /\ cl[c].handler = "starts"
    /\ \/ cl' = [cl EXCEPT ![c].handler = "runs", ![c].recv = TRUE, ![c].send = TRUE,
                           ![c].ws = TRUE, ![c].peer = TRUE]
       \/ load.faults /\ cl' = [cl EXCEPT ![c].handler = "ended", ![c].killed = TRUE]
    /\ UNCHANGED <<load, hub, clients, relay, ticker, block, txs, stop, log>>

\* conn.Wait returns: the subscriptions go, and the deferred close(killed).
HandlerReturns(c) ==
    /\ cl[c].handler = "runs" /\ ~cl[c].recv /\ ~cl[c].send
    /\ cl' = [cl EXCEPT ![c] = [unsubscribeAll(@) EXCEPT !.handler = "ended", !.killed = TRUE]]
    /\ UNCHANGED <<load, hub, clients, relay, ticker, block, txs, stop, log>>

PeerLeaves(c) ==
    /\ cl[c].peer /\ load.faults
    /\ cl' = [cl EXCEPT ![c].peer = FALSE]
    /\ UNCHANGED <<load, hub, clients, relay, ticker, block, txs, stop, log>>

\* A request.  The subscription holds also when writing the answer fails.
receiveLoop(c) ==
    /\ cl[c].recv /\ cl[c].ws /\ cl[c].peer
    /\ \E r \in load.requests :
          cl' = [cl EXCEPT ![c] = IF r.op = "subscribe" THEN subscribe(@, r.sig, r.addr)
                                  ELSE unsubscribe(@, r.sig, r.addr)]
    /\ UNCHANGED <<load, hub, clients, relay, ticker, block, txs, stop, log>>

\* Reading, or writing an answer, fails.  The websocket is left open.
receiveLoopEnds(c) ==
    /\ cl[c].recv /\ (~cl[c].ws \/ ~cl[c].peer)
    /\ cl' = [cl EXCEPT ![c].recv = FALSE]
    /\ UNCHANGED <<load, hub, clients, relay, ticker, block, txs, stop, log>>

\* The block is the one of the signal.
PayloadOfSignal(d, msg) ==
    CASE msg.sig = "newblock" -> [d EXCEPT !.seen = msg.arg]
      [] msg.sig = "newtxs" -> [d EXCEPT !.got = @ \o d.newTxs, !.newTxs = <<>>]
      [] OTHER -> d

\* What is sent for a signal is read now: the block in state, the client's own
\* transactions, whose list is emptied under its lock.
Payload(d, msg) ==
    CASE msg.sig = "newblock" -> [d EXCEPT !.seen = block]
      [] msg.sig = "newtxs" -> [d EXCEPT !.got = @ \o d.newTxs, !.newTxs = <<>>]
      [] OTHER -> d

Skips(c, msg) ==
    \/ msg.sig \notin Everyone /\ ~isSubscribed(c, msg)
    \/ msg.sig = "newtxs" /\ cl[c].newTxs = <<>>

sendLoop(c) ==
    /\ cl[c].send /\ cl[c].spoke # <<>>
    /\ LET msg == Head(cl[c].spoke)
           d == [cl[c] EXCEPT !.spoke = Tail(@)]
       IN  \/ Skips(c, msg) /\ cl' = [cl EXCEPT ![c] = d]
           \/ ~Skips(c, msg) /\ d.peer /\ d.ws /\ cl' = [cl EXCEPT ![c] = Payload(d, msg)]
           \/ ~Skips(c, msg) /\ (load.faults \/ ~d.ws)
              /\ cl' = [cl EXCEPT ![c] =
                    [d EXCEPT !.newTxs = Payload(d, msg).newTxs, !.send = FALSE, !.ws = FALSE]]
    /\ UNCHANGED <<load, hub, clients, relay, ticker, block, txs, stop, log>>

\* The send loop leaves the websocket open when the channel is closed.
sendLoopEndsOpen(c) ==
    /\ cl[c].send /\ cl[c].spoke = <<>> /\ cl[c].closed
    /\ cl' = [cl EXCEPT ![c].send = FALSE]
    /\ UNCHANGED <<load, hub, clients, relay, ticker, block, txs, stop, log>>

\* The channel is closed and drained; closeWS ends the receive loop.
sendLoopEnds(c) ==
    /\ cl[c].send /\ cl[c].spoke = <<>> /\ cl[c].closed
    /\ cl' = [cl EXCEPT ![c].send = FALSE, ![c].ws = FALSE]
    /\ UNCHANGED <<load, hub, clients, relay, ticker, block, txs, stop, log>>

(***************************************************************************)
(* The senders on HubRelay.                                                *)
(***************************************************************************)
\* The new state is there before the signals, which goroutines send in any
\* order: the block, the addresses and the hash of its coinbase.
Store ==
    /\ block < load.blocks
    /\ block' = block + 1 /\ txs' = txs + 1
    /\ relay' = relay \cup {Msg("newblock", block + 1), Msg("newtx", txs + 1)}
                      \cup {Msg("address", a) : a \in Addrs}
    /\ UNCHANGED <<load, hub, clients, cl, ticker, stop, log>>

\* The mempool monitor's hubSend.
hubSend ==
    /\ txs < load.txs
    /\ txs' = txs + 1
    /\ relay' = relay \cup {Msg("newtx", txs + 1)}
    /\ UNCHANGED <<load, hub, clients, cl, ticker, block, stop, log>>

\* Ten seconds pass.
GivesUp(m) ==
    /\ load.faults /\ m \in relay /\ m.sig \notin Everyone /\ hub.at # "select"
    /\ relay' = relay \ {m}
    /\ UNCHANGED <<load, hub, clients, cl, ticker, block, txs, stop, log>>

pingClients ==
    /\ hub.at # "ended" /\ Ping \notin relay
    /\ relay' = relay \cup {Ping}
    /\ UNCHANGED <<load, hub, clients, cl, ticker, block, txs, stop, log>>

\* "bye" on HubRelay, then quitWSHandler is closed, then at most five seconds.
StopBegins ==
    /\ stop = "no" /\ load.faults
    /\ stop' = "bye" /\ relay' = relay \cup {Bye}
    /\ UNCHANGED <<load, hub, clients, cl, ticker, block, txs, log>>

Stop ==
    /\ \/ stop = "bye" /\ Bye \notin relay /\ stop' = "quit"
       \/ stop = "quit" /\ stop' = "done"
    /\ UNCHANGED <<load, hub, clients, cl, relay, ticker, block, txs, log>>

(***************************************************************************)
(* periodicTxBufferSend.                                                   *)
(***************************************************************************)
tickerFires ==
    /\ ticker.on /\ ~ticker.time
    /\ ticker' = [ticker EXCEPT !.time = TRUE]
    /\ UNCHANGED <<load, hub, clients, cl, relay, block, txs, stop, log>>

periodicTxBufferSend ==
    /\ ticker.on /\ ticker.queue # <<>>
    /\ ticker' = [ticker EXCEPT !.queue = Tail(@), !.on = Head(ticker.queue) # "stop"]
    /\ UNCHANGED <<load, hub, clients, cl, relay, block, txs, stop, log>>

(***************************************************************************)
(* Run.                                                                    *)
(***************************************************************************)
Register(c) ==
    /\ hub.at = "select" /\ cl[c].handler = "registers"
    /\ clients' = clients \cup {c}
    /\ cl' = [cl EXCEPT ![c].handler = "starts", ![c].from = Len(log)]
    /\ UNCHANGED <<load, hub, relay, ticker, block, txs, stop, log>>

\* Every client gets the transaction.  What the loop over the map returns is
\* whether the client that came last is ready.
addTxToBuffer(tx) ==
    [c \in Clients |-> IF c \in clients THEN [cl[c] EXCEPT !.newTxs = Append(@, tx)] ELSE cl[c]]
someReadyToSend(after) == {Len(after[c].newTxs) >= NewTxBufferSize : c \in clients}

\* Run takes a message: with no clients it is dropped.
Takes(m) ==
    /\ hub.at = "select" /\ m \in relay
    /\ relay' = relay \ {m}
    /\ \/ clients = {} /\ UNCHANGED <<hub, cl, log>>
       \/ /\ clients # {} /\ m.sig # "newtx"
          /\ hub' = [at |-> "send", msg |-> m, todo |-> clients]
          /\ UNCHANGED <<cl, log>>
       \/ /\ clients # {} /\ m.sig = "newtx"
          /\ cl' = addTxToBuffer(m.arg) /\ log' = Append(log, m.arg)
          /\ \E ready \in someReadyToSend(cl') :
                \/ ready /\ hub' = [at |-> "reset", msg |-> Msg("newtxs", 0), todo |-> clients]
                \/ /\ ~ready /\ ticker.time
                   /\ hub' = [at |-> "send", msg |-> Msg("newtxs", 0), todo |-> clients]
                \/ ~ready /\ ~ticker.time /\ UNCHANGED hub
    /\ UNCHANGED <<load, clients, ticker, block, txs, stop>>

\* maybeSendTxns puts the ticker back, which waits when the channel is full.
maybeSendTxns ==
    /\ hub.at = "reset" /\ Len(ticker.queue) < TickerSize
    /\ ticker' = [ticker EXCEPT !.queue = Append(@, "reset")]
    /\ hub' = [hub EXCEPT !.at = "send"]
    /\ UNCHANGED <<load, clients, cl, relay, block, txs, stop, log>>

unregisterClient(c) ==
    /\ clients' = clients \ {c}
    /\ cl' = [cl EXCEPT ![c].closed = TRUE]

\* sendMsg: the channel has room, or the client is gone, or time is up.  The
\* wait for killed in unregisterClient is over before it starts.
sendMsg(c) ==
    /\ hub.at = "send" /\ c \in hub.todo
    /\ hub' = [hub EXCEPT !.todo = @ \ {c}]
    /\ LET wanted == hub.msg.sig \in Everyone \/ isSubscribed(c, hub.msg)
       IN  \/ ~wanted /\ UNCHANGED <<clients, cl>>
           \/ /\ wanted /\ Len(cl[c].spoke) < SpokeSize
              /\ cl' = [cl EXCEPT ![c].spoke = Append(@, hub.msg)]
              /\ UNCHANGED clients
           \/ wanted /\ cl[c].killed /\ unregisterClient(c)
           \/ /\ wanted /\ ~cl[c].killed /\ Len(cl[c].spoke) = SpokeSize
              /\ UNCHANGED <<clients, cl>>
    /\ UNCHANGED <<load, relay, ticker, block, txs, stop, log>>

Sent ==
    /\ hub.at = "send" /\ hub.todo = {}
    /\ hub' = Select
    /\ ticker' = [ticker EXCEPT !.time = @ /\ hub.msg.sig # "newtxs"]
    /\ UNCHANGED <<load, clients, cl, relay, block, txs, stop, log>>

\* quitWSHandler is closed: the ticker's loop is told, and all channels closed.
Quits ==
    /\ hub.at = "select" /\ stop \in {"quit", "done"} /\ Len(ticker.queue) < TickerSize
    /\ ticker' = [ticker EXCEPT !.queue = Append(@, "stop")]
    /\ hub' = [hub EXCEPT !.at = "waits", !.todo = clients]
    /\ clients' = {}
    /\ cl' = [c \in Clients |-> [cl[c] EXCEPT !.closed = @ \/ c \in clients]]
    /\ UNCHANGED <<load, relay, block, txs, stop, log>>

\* The other half of unregisterAllClients: wait for all to be killed.  Then the
\* deferred drain of HubRelay and the close of killed.
unregisterAllClients ==
    /\ hub.at = "waits" /\ \A c \in hub.todo : cl[c].killed
    /\ hub' = [hub EXCEPT !.at = "ended", !.todo = {}] /\ relay' = {}
    /\ UNCHANGED <<load, clients, cl, ticker, block, txs, stop, log>>

Run ==
    \/ \E m \in relay : Takes(m)
    \/ \E c \in Clients : Register(c) \/ sendMsg(c)
    \/ maybeSendTxns \/ Sent \/ Quits \/ unregisterAllClients

Connection(c) ==
    \/ WebSocketHandler(c) \/ HandlerReturns(c)
    \/ receiveLoopEnds(c) \/ sendLoop(c) \/ sendLoopEnds(c)

Next ==
    \/ Run
    \/ \E c \in Clients : Connect(c) \/ Connection(c) \/ PeerLeaves(c) \/ receiveLoop(c)
    \/ Store \/ hubSend \/ pingClients \/ StopBegins \/ Stop
    \/ \E m \in relay : GivesUp(m)
    \/ tickerFires \/ periodicTxBufferSend

\* Goroutines that can go on do; a ticker that is due fires; a select takes each
\* of its ready cases some time, as it chooses at random.  Nobody has to connect,
\* to leave or to call Stop.
Fairness ==
    /\ WF_pubsubVars(Run) /\ SF_pubsubVars(Quits)
    /\ WF_pubsubVars(periodicTxBufferSend) /\ WF_pubsubVars(pingClients)
    /\ WF_pubsubVars(Stop)
    /\ \A c \in Clients : WF_pubsubVars(Connection(c))

Spec == Init /\ [][Next]_pubsubVars /\ Fairness

(***************************************************************************)
(* Properties.                                                             *)
(***************************************************************************)
\* A client that is up has received, or still has in its list, every
\* transaction that Run buffered since it registered, once and in order; it is
\* subscribed to address signals exactly while it has addresses; and Run never
\* holds a client whose channel is closed, on which a send would panic.
DeliveryIsExact ==
    \A c \in Clients :
       /\ c \in clients /\ cl[c].send =>
             cl[c].got \o cl[c].newTxs = SubSeq(log, cl[c].from + 1, Len(log))
       /\ "address" \in cl[c].subs <=> cl[c].addrs # {}
       /\ c \in clients => ~cl[c].closed

\* Signals for two blocks may be relayed in either order; the peer never sees
\* the older block after the newer one, because sendLoop reads the block when
\* it sends.
BlocksForward == [][\A c \in Clients : cl'[c].seen >= cl[c].seen]_pubsubVars

\* A client whose peer left is found by a ping and leaves the hub, and its
\* handler returns.  Once Stop has closed the quit channel Run ends, with no
\* handler of a registered client left: no wait for killed lasts forever.
ClientsAreReleased ==
    /\ \A c \in Clients :
          (c \in clients /\ cl[c].handler = "runs" /\ ~cl[c].peer)
             ~> (c \notin clients /\ cl[c].killed)
    /\ stop = "quit" ~> (hub.at = "ended" /\ \A c \in Clients : cl[c].closed => cl[c].killed)

(***************************************************************************)
(* Mutants.                                                                *)
(***************************************************************************)
=============================================================================
