------------------------------ MODULE Mempool ------------------------------
(***************************************************************************)
(* The mempool monitor and its collector (mempool/monitor.go,              *)
(* mempool/collector.go) with the caches they fill (mempoolcache.go).      *)
(*                                                                         *)
(* The node (external) accepts transactions and connects blocks, and       *)
(* notifies of both in that order; the notifier hands the notifications to *)
(* BlockHandler and TxHandler one after the other.  A collection asks the  *)
(* node several questions, and the node moves on between them.             *)
(*                                                                         *)
(* A transaction is a record of its kind and, for votes, the height of the *)
(* block voted on and the ticket spent.  Amounts and sizes are counts.     *)
(***************************************************************************)
EXTENDS Integers, Sequences, SequencesExt, FiniteSets

CONSTANTS Txs, NumLatestMempoolTxns,
          MaxHeight              \* Bound.

ASSUME MempoolAssumption ==
    /\ \A tx \in Txs : tx.votesOn \in Nat
    /\ NumLatestMempoolTxns \in Nat \ {0} /\ MaxHeight \in Nat

VARIABLES
    node,        \* [pool, height, blockTime, clock, time]: time of each tx.
    queue,       \* Notifications not yet handled.
    pc,          \* Where the handler is: "idle" or inside Refresh.
    fetched,     \* What the collection has so far.
    lastBlock,   \* The block of the last collection.
    inventory, txnsStore, addrMap,
    saving,      \* StoreMPData goroutines not yet run.
    dataCache

mempoolVars == <<node, queue, pc, fetched, lastBlock, inventory, txnsStore, addrMap,
                 saving, dataCache>>

NoTime == 0
ForBlock(tx, height) == tx.kind = "vote" /\ tx.votesOn = height

(***************************************************************************)
(* The inventory.                                                          *)
(***************************************************************************)
\* The transactions by time, the latest first: each has those before it that are
\* newer.  The node's clock gives no two of them the same time.
Newer(S, times, tx) == {other \in S : times[other] > times[tx]}
ByTime(S, times) ==
    [i \in 1 .. Cardinality(S) |-> CHOOSE tx \in S : Cardinality(Newer(S, times, tx)) = i - 1]

\* Of the votes on the last block the first for each ticket counts; other
\* votes are not likely to be mined.
ParseTxns(S, times, height, ident) ==
    LET byTime == ByTime(S, times)
        onLast == {tx \in S : ForBlock(tx, height)}
        voted  == {tx.ticket : tx \in onLast}
    IN  [ident |-> ident, txs |-> S,
         latest |-> SubSeq(byTime, 1, IF Len(byTime) > NumLatestMempoolTxns
                                      THEN NumLatestMempoolTxns ELSE Len(byTime)),
         numAll |-> Cardinality(S), numVotes |-> Cardinality({tx \in S : tx.kind = "vote"}),
         voted |-> voted, ticketsVoted |-> Cardinality(voted),
         likely |-> Cardinality({tx \in S : tx.kind # "vote"}) + Cardinality(voted)]

\* Mutant: a second vote of the same ticket counts again.
CountedAgain(inv, tx) ==
    [inv EXCEPT !.ident = @ + 1, !.txs = @ \cup {tx},
       !.latest = <<tx>> \o SubSeq(@, 1, IF Len(@) >= NumLatestMempoolTxns
                                        THEN Len(@) - 1 ELSE Len(@)),
       !.numAll = @ + 1, !.numVotes = IF tx.kind = "vote" THEN @ + 1 ELSE @,
       !.voted = IF ForBlock(tx, lastBlock.height) THEN @ \cup {tx.ticket} ELSE @,
       !.ticketsVoted = IF ForBlock(tx, lastBlock.height) THEN @ + 1 ELSE @,
       !.likely = @ + 1]

\* One more transaction, at the front of every list.
Counted(inv, tx) ==
    LET counts == ForBlock(tx, lastBlock.height) /\ tx.ticket \notin inv.voted
    IN  [inv EXCEPT !.ident = @ + 1, !.txs = @ \cup {tx},
           !.latest = <<tx>> \o SubSeq(@, 1, IF Len(@) >= NumLatestMempoolTxns
                                            THEN Len(@) - 1 ELSE Len(@)),
           !.numAll = @ + 1,
           !.numVotes = IF tx.kind = "vote" THEN @ + 1 ELSE @,
           !.voted = IF counts THEN @ \cup {tx.ticket} ELSE @,
           !.ticketsVoted = IF counts THEN @ + 1 ELSE @,
           !.likely = IF tx.kind # "vote" \/ counts THEN @ + 1 ELSE @]

(***************************************************************************)
(* The node.  Bound: a transaction is accepted once.  A block's time is    *)
(* not ahead of the clock of the node, but may be behind.                  *)
(***************************************************************************)
Accept ==
    \E tx \in Txs :
      /\ node.time[tx] = NoTime
      /\ tx.kind = "vote" => tx.votesOn <= node.height
      /\ node' = [node EXCEPT !.pool = @ \cup {tx}, !.clock = @ + 1,
                              !.time = [@ EXCEPT ![tx] = node.clock]]
      /\ queue' = Append(queue, [kind |-> "tx", tx |-> tx])
      /\ UNCHANGED <<pc, fetched, lastBlock, inventory, txnsStore, addrMap, saving, dataCache>>

Connect ==
    \E mined \in SUBSET node.pool, t \in {node.clock - 1, node.clock} :
      /\ node.height < MaxHeight
      /\ t >= node.blockTime
      /\ node' = [node EXCEPT !.pool = @ \ mined, !.height = @ + 1, !.blockTime = t,
                              !.clock = @ + 1]
      /\ queue' = Append(queue, [kind |-> "block"])
      /\ UNCHANGED <<pc, fetched, lastBlock, inventory, txnsStore, addrMap, saving, dataCache>>

(***************************************************************************)
(* Collect and Refresh.                                                    *)
(***************************************************************************)
HandlerVars == <<lastBlock, inventory, txnsStore, addrMap, saving, dataCache>>

\* Ready for a notification, after a collection that failed too.
Ready == pc \in {"idle", "failed"}

BlockHandler ==
    /\ Ready /\ queue # <<>> /\ Head(queue).kind = "block"
    /\ queue' = Tail(queue) /\ pc' = "collect"
    /\ UNCHANGED <<node, fetched, HandlerVars>>

\* The tickets, the votes and the best block.
CollectBestBlock ==
    /\ pc = "collect"
    /\ fetched' = [tickets |-> {tx \in node.pool : tx.kind = "ticket"},
                   block |-> [height |-> node.height, time |-> node.blockTime],
                   pool |-> {}]
    /\ pc' = "mempoolTxns"
    /\ UNCHANGED <<node, queue, HandlerVars>>

\* All transactions; one that is gone when it is asked for is left out.
MempoolTxns ==
    /\ pc = "mempoolTxns"
    /\ fetched' = [fetched EXCEPT !.pool = node.pool]
    /\ pc' = "swap"
    /\ UNCHANGED <<node, queue, HandlerVars>>

\* The node may not answer one of the questions: everything stays as it is.
CollectFails ==
    /\ pc \in {"collect", "mempoolTxns"}
    /\ pc' = "failed"
    /\ UNCHANGED <<node, queue, fetched, HandlerVars>>

Refresh ==
    /\ pc = "swap"
    /\ lastBlock' = fetched.block
    /\ inventory' = ParseTxns(fetched.pool, node.time, fetched.block.height, inventory.ident + 1)
    /\ txnsStore' = fetched.pool
    /\ pc' = "addrMap"
    /\ UNCHANGED <<node, queue, fetched, addrMap, saving, dataCache>>

\* The address map has its own lock; then a goroutine for each saver.
CollectAndStore ==
    /\ pc = "addrMap"
    /\ addrMap' = fetched.pool
    /\ saving' = Append(saving, [height |-> fetched.block.height,
                                 numTickets |-> Cardinality(fetched.tickets),
                                 txns |-> fetched.pool])
    /\ pc' = "idle"
    /\ UNCHANGED <<node, queue, fetched, lastBlock, inventory, txnsStore, dataCache>>

StoreMPData ==
    \E i \in DOMAIN saving :
      /\ dataCache' = saving[i]
      /\ saving' = RemoveAt(saving, i)
      /\ UNCHANGED <<node, queue, pc, fetched, lastBlock, inventory, txnsStore, addrMap>>

(***************************************************************************)
(* TxHandler.  A vote on a block the monitor does not know yet reaches the *)
(* address map and the store, but not the inventory.                       *)
(***************************************************************************)
Known(tx) == tx \in inventory.txs
Early(tx) == node.time[tx] < lastBlock.time
FutureVote(tx) == tx.kind = "vote" /\ tx.votesOn > lastBlock.height

TxHandler ==
    /\ Ready /\ queue # <<>> /\ Head(queue).kind = "tx"
    /\ queue' = Tail(queue)
    /\ LET tx == Head(queue).tx
       IN  IF Early(tx) \/ Known(tx)
           THEN UNCHANGED <<inventory, txnsStore, addrMap>>
           ELSE /\ addrMap' = addrMap \cup {tx}
                /\ txnsStore' = txnsStore \cup {tx}
                /\ inventory' = IF FutureVote(tx) THEN [inventory EXCEPT !.ident = @ + 1]
                                ELSE Counted(inventory, tx)
    /\ UNCHANGED <<node, pc, fetched, lastBlock, saving, dataCache>>

(***************************************************************************)
(* The queries.                                                            *)
(***************************************************************************)
\* The transactions that can be given for an address.
UnconfirmedTxnsForAddress == addrMap \cap txnsStore

(***************************************************************************)
(* The specification.                                                      *)
(***************************************************************************)
MempoolInit ==
    /\ node = [pool |-> {}, height |-> 1, blockTime |-> 1, clock |-> 2,
               time |-> [tx \in Txs |-> NoTime]]
    /\ queue = <<>> /\ pc = "idle"
    /\ fetched = [tickets |-> {}, block |-> [height |-> 1, time |-> 1], pool |-> {}]
    /\ lastBlock = [height |-> 1, time |-> 1]
    /\ inventory = ParseTxns({}, node.time, 1, 0)
    /\ txnsStore = {} /\ addrMap = {} /\ saving = <<>>
    /\ dataCache = [height |-> 1, numTickets |-> 0, txns |-> {}]

MempoolNext == Accept \/ Connect \/ BlockHandler \/ CollectBestBlock \/ MempoolTxns \/ CollectFails
                 \/ Refresh \/ CollectAndStore \/ StoreMPData \/ TxHandler

MempoolSpec == MempoolInit /\ [][MempoolNext]_mempoolVars

(***************************************************************************)
(* What must hold.                                                         *)
(***************************************************************************)
\* TxHandler's counts, added up one by one over an inventory ParseTxns made,
\* are those of its transactions; and a transaction of the inventory is in the
\* store and, outside Refresh, in the address map.
InventoryAddsUp ==
    LET fresh == ParseTxns(inventory.txs, node.time, lastBlock.height, inventory.ident)
    IN  /\ [inventory EXCEPT !.latest = <<>>] = [fresh EXCEPT !.latest = <<>>]
        /\ ToSet(inventory.latest) \subseteq inventory.txs
        /\ inventory.txs \subseteq txnsStore
        /\ pc # "addrMap" => inventory.txs \subseteq UnconfirmedTxnsForAddress

\* When all notifications are handled and the last collection did not fail, the
\* monitor knows the node's transactions, whatever arrived or was mined while
\* it collected, and the latest ones are the latest.
CaughtUp ==
    (pc = "idle" /\ queue = <<>>) =>
       /\ lastBlock.height = node.height /\ inventory.txs = node.pool
       /\ inventory.latest = ParseTxns(node.pool, node.time, node.height, 0).latest

\* The counts added up one by one are those of the inventory, and once all
\* notifications are handled the monitor has the node's transactions.
MempoolIsTracked == InventoryAddsUp /\ CaughtUp
=============================================================================
