----------------------------- MODULE MCServices -----------------------------
(***************************************************************************)
(* Small instances of the parts that pass messages on: the notifier, the   *)
(* mempool monitor, the publish-subscribe hub and its client, and the      *)
(* explorer's hub of web sockets.  One part runs in a behaviour; the       *)
(* others stay in their initial states.                                    *)
(***************************************************************************)
EXTENDS MCNotifier, Mempool

VARIABLES part,
          load, hub, clients, cl, relay, ticker, block, txs, stop, log,
          call, requests, nextID, toServer, fromServer, up, receiver, handing, recvMsgs, pushes,
          wsHub, conns, relayed, page, budget, wsLog

pubsubVars == <<load, hub, clients, cl, relay, ticker, block, txs, stop, log>>
psclientVars == <<call, requests, nextID, toServer, fromServer, up, receiver, handing, recvMsgs,
                  pushes>>
explorerVars == <<wsHub, conns, relayed, page, budget, wsLog>>

-----------------------------------------------------------------------------
\* Two votes of one ticket for the next block but one, and a payment.
MempoolTxs ==
    {[id |-> 2, kind |-> "vote", votesOn |-> 2, ticket |-> 2],
     [id |-> 4, kind |-> "vote", votesOn |-> 2, ticket |-> 2],
     [id |-> 3, kind |-> "regular", votesOn |-> 0, ticket |-> 0]}

\* What the peers of the hub ask for and what happens meanwhile.
Request(op, sig) == [op |-> op, sig |-> sig, addr |-> "a"]
Load(cs, rs, blocks, ts, faults) ==
    [clients |-> cs, requests |-> rs, blocks |-> blocks, txs |-> ts, faults |-> faults]
PubSubLoads ==
    {Load({"c1"}, {Request("subscribe", "newblock")}, 2, 0, FALSE),
     Load({"c1"}, {Request("subscribe", "address"), Request("unsubscribe", "address")}, 1, 0, FALSE),
     Load({"c1"}, {Request("subscribe", "newtxs")}, 0, 1, TRUE),
     Load({"c1", "c2"}, {Request("subscribe", "newtxs")}, 0, 1, FALSE)}

Ps == INSTANCE PubSub WITH Clients <- {"c1", "c2"}, Addrs <- {"a"}, SpokeSize <- 1,
                           NewTxBufferSize <- 2, TickerSize <- 1, Loads <- PubSubLoads

Pc == INSTANCE PSClient WITH Callers <- {"t1", "t2"}, RecvSize <- 1, MaxRequests <- 2,
                             MaxPushes <- 1

\* How often each thing happens to the explorer's hub.
Visit(visits, blocks, ts, ticks, pings, updates, syncs, bars, asks, stalls, stops) ==
    [visits |-> visits, blocks |-> blocks, txs |-> ts, ticks |-> ticks, pings |-> pings,
     updates |-> updates, syncs |-> syncs, bars |-> bars, requests |-> asks,
     stalls |-> stalls, stops |-> stops]
ExplorerVisits ==
    {Visit(2, 1, 0, 0, 0, 0, 0, 0, 0, 1, 0), Visit(1, 2, 0, 0, 0, 0, 0, 0, 1, 1, 0),
     Visit(1, 0, 3, 1, 1, 0, 0, 0, 0, 0, 1), Visit(1, 0, 0, 0, 1, 1, 1, 2, 0, 1, 0),
     Visit(2, 0, 0, 0, 1, 1, 0, 0, 1, 0, 0)}

Ex == INSTANCE ExplorerHub WITH Visitors <- {"c1", "c2"}, SpokeSize <- 1, XcSize <- 1,
                                XcChanSize <- 2, newTxBufferSize <- 2, clientSignalSize <- 1,
                                Visits <- ExplorerVisits

-----------------------------------------------------------------------------
\* A part that does not run starts in one state only.
MCInit ==
    /\ part \in {"notifier", "mempool", "pubsub", "psclient", "explorer"}
    /\ Init /\ (part = "notifier" \/ env = CHOOSE s \in Scenarios : TRUE)
    /\ MempoolInit
    /\ Ps!Init /\ (part = "pubsub" \/ load = CHOOSE l \in PubSubLoads : TRUE)
    /\ Pc!Init
    /\ Ex!ExplorerInit /\ (part = "explorer" \/ budget = CHOOSE v \in ExplorerVisits : TRUE)

InNotifier == part = "notifier" /\ UNCHANGED <<part, mempoolVars, pubsubVars, psclientVars, explorerVars>>
InMempool == part = "mempool" /\ UNCHANGED <<part, vars, pubsubVars, psclientVars, explorerVars>>
InPubSub == part = "pubsub" /\ UNCHANGED <<part, vars, mempoolVars, psclientVars, explorerVars>>
InClient == part = "psclient" /\ UNCHANGED <<part, vars, mempoolVars, pubsubVars, explorerVars>>
InExplorer == part = "explorer" /\ UNCHANGED <<part, vars, mempoolVars, pubsubVars, psclientVars>>

MCNext ==
    \/ InNotifier /\ Next
    \/ InMempool /\ MempoolNext
    \/ InPubSub /\ Ps!Next
    \/ InClient /\ Pc!Next
    \/ InExplorer /\ Ex!ExplorerNext

allVars == <<part, vars, mempoolVars, pubsubVars, psclientVars, explorerVars>>

MCSpec == MCInit /\ [][MCNext]_allVars

(***************************************************************************)
(* The fairness of each part, as its own module states it, is assumed by   *)
(* the liveness properties of that part and by no other.                   *)
(***************************************************************************)
NotifierFairness ==
    /\ WF_allVars(InNotifier /\ Listen) /\ WF_allVars(InNotifier /\ Callback)
    /\ WF_allVars(InNotifier /\ Process) /\ WF_allVars(InNotifier /\ GiveUp)
    /\ WF_allVars(InNotifier /\ Handle)

PubSubFairness ==
    /\ WF_allVars(InPubSub /\ Ps!Run) /\ SF_allVars(InPubSub /\ Ps!Quits)
    /\ WF_allVars(InPubSub /\ Ps!periodicTxBufferSend) /\ WF_allVars(InPubSub /\ Ps!pingClients)
    /\ WF_allVars(InPubSub /\ Ps!Stop)
    /\ \A c \in {"c1", "c2"} : WF_allVars(InPubSub /\ Ps!Connection(c))

ClientFairness ==
    /\ WF_allVars(InClient /\ Pc!ServerAnswers) /\ WF_allVars(InClient /\ Pc!receiverTurn)
    /\ WF_allVars(InClient /\ Pc!AppReads)
    /\ \A t \in {"t1", "t2"} : WF_allVars(InClient /\ Pc!Written(t))
    /\ \A id \in 0 .. 1 : WF_allVars(InClient /\ Pc!Delivers(id))

ExplorerFairness ==
    /\ SF_allVars(InExplorer /\ Ex!run) /\ WF_allVars(InExplorer /\ Ex!SyncStatusTimer)
    /\ WF_allVars(InExplorer /\ Ex!BarLoad) /\ WF_allVars(InExplorer /\ Ex!SyncPageEnds)
    /\ \A c \in {"c1", "c2"} : /\ WF_allVars(InExplorer /\ Ex!SendLoop(c))
                               /\ WF_allVars(InExplorer /\ Ex!send(c))

-----------------------------------------------------------------------------
\* Notifier: once dcrd is quiet the notifier and its handlers end at the best
\* block, and the queue empties.
NotifierCatchesUp == NotifierFairness => (part = "notifier" => CatchesUp)

\* PubSub: every transaction buffered for a peer is sent to it once and in
\* order, and no peer sees an older block after a newer one.
PeersAreServed == [](part = "pubsub" => Ps!DeliveryIsExact) /\ Ps!BlocksForward

\* PubSub: a peer that left is released, and Stop ends the hub.
ClientsAreReleased == PubSubFairness => Ps!ClientsAreReleased

\* PSClient: every call on an open connection gets its response.
CallsAreAnswered == ClientFairness => Pc!CallsAreAnswered

\* ExplorerHub: a visitor told of a block is shown that block or a later one,
\* and never an older one afterwards.
BlockNewsIsCurrent == Ex!BlockNewsIsCurrent

\* ExplorerHub: visitors are registered and released, and the page of a sync
\* goes away when it ends.
ClientsComeAndGo == ExplorerFairness => Ex!ClientsComeAndGo
=============================================================================
