----------------------------- MODULE OrderBook -----------------------------
(***************************************************************************)
(* The order books two exchanges keep from their web sockets               *)
(* (exchanges/exchanges.go): Bittrex, whose updates come out of order and  *)
(* are queued by nonce until the full book is there, and Poloniex, whose   *)
(* updates must come in sequence.  A socket fails, by itself or on what it *)
(* received, and is connected again by a later Refresh (wsDepthStatus).    *)
(*                                                                         *)
(* The exchange (external) makes one change to its book after another:     *)
(* change n sets the volume of a rate to n or removes the rate.  Its full  *)
(* book is sent with the number of the last change in it.                  *)
(***************************************************************************)
EXTENDS Integers, Sequences, FiniteSets, TLC, SequencesExt

CONSTANTS Histories,      \* Sequences of changes [rate, removes].
          Venues,         \* A subset of {"bittrex", "poloniex"}.
          maxBittrexQueueSize, MaxConnections, MaxLost

VARIABLES venue, history,
          made,           \* How many changes the exchange has made.
          wire,           \* What is on its way to the client.
          ws,             \* wsSync: "off", "opens", "listens", "failed".
          ob,             \* The client's book: [orders, seq, queue, requested].
          connections, lost

orderBookVars == <<venue, history, made, wire, ws, ob, connections, lost>>

\* The book after a change; an order is known by its volume.
Without(b, r) == [x \in (DOMAIN b) \ {r} |-> b[x]]
Apply(b, n) == IF history[n].removes THEN Without(b, history[n].rate) ELSE (history[n].rate :> n) @@ b
BookAt(n) == FoldLeft(Apply, <<>>, [i \in 1..n |-> i])

Empty == [orders |-> <<>>, seq |-> 0, queue |-> {}, requested |-> FALSE]

Init ==
    /\ venue \in Venues /\ history \in Histories /\ made = 1
    /\ wire = <<>> /\ ws = "off" /\ ob = Empty /\ connections = 0 /\ lost = 0

-----------------------------------------------------------------------------
(* The exchange and the connection *)

Up == ws \in {"opens", "listens"}
Subscribed == wire \o <<[kind |-> "update", n |-> made + 1]>>

\* A change is made; a subscriber is told.
Change ==
    /\ made < Len(history) /\ made' = made + 1
    /\ wire' = IF Up THEN Subscribed ELSE wire
    /\ UNCHANGED <<venue, history, ws, ob, connections, lost>>

\* A message that never comes.
Lost ==
    /\ lost < MaxLost /\ wire # <<>> /\ Head(wire).kind = "update"
    /\ lost' = lost + 1 /\ wire' = Tail(wire)
    /\ UNCHANGED <<venue, history, made, ws, ob, connections>>

\* setWsFail: the socket is closed; nothing more is read from it.
setWsFail(book) == ws' = "failed" /\ wire' = <<>> /\ ob' = book

SocketFails ==
    /\ Up /\ setWsFail(ob) /\ UNCHANGED <<venue, history, made, connections, lost>>

\* connectWs by Refresh: Bittrex forgets its queue and its place and asks for the full book with the
\* first update; Poloniex gets the full book first and keeps what it has until then.
connectWs ==
    /\ ws \in {"off", "failed", "opens"} /\ connections < MaxConnections
    /\ connections' = connections + 1 /\ ws' = "opens"
    /\ IF venue = "bittrex"
       THEN ob' = [ob EXCEPT !.queue = {}, !.seq = 0, !.requested = FALSE] /\ wire' = <<>>
       ELSE ob' = ob /\ wire' = <<[kind |-> "full", n |-> made]>>
    /\ UNCHANGED <<venue, history, made, lost>>

-----------------------------------------------------------------------------
(* Bittrex *)

\* processBittrexOrderbookPoint: the removal of an order that is not there fails.
Fails(b, n) == history[n].removes /\ history[n].rate \notin DOMAIN b

\* The updates of the queue that follow the book without a gap, in the order of their nonces.
InTurn(book) == {n \in book.queue : n > book.seq /\ \A m \in (book.seq + 1)..n : m \in book.queue}

\* processQueue: what is out of date is dropped, what is in turn applied, the rest queued again.
processQueue(book) ==
    LET turn == InTurn(book)
        run == SetToSortSeq(turn, <)
    IN [book EXCEPT !.orders = FoldLeft(Apply, @, run), !.seq = @ + Len(run),
                    !.queue = {n \in @ : n > book.seq + Len(run)}]

\* queueOrderbookUpdate
Queued(book, n) == [book EXCEPT !.queue = @ \cup {n}]
TooLong(book) == Cardinality(book.queue) > maxBittrexQueueSize
NextNonce(book) == CHOOSE n \in book.queue : \A m \in book.queue : n <= m

\* processOrderbookUpdate: an old one is ignored, the next one applied; another is queued, and the
\* queue processed once its first update is due.
processOrderbookUpdate(n, rest) ==
    \/ /\ n <= ob.seq /\ ob' = ob /\ UNCHANGED ws /\ wire' = rest
    \/ /\ n = ob.seq + 1
       /\ LET book == [ob EXCEPT !.seq = n, !.orders = Apply(@, n)]
          IN IF Fails(ob.orders, n) THEN setWsFail(book) ELSE ob' = book /\ UNCHANGED ws /\ wire' = rest
    \/ /\ n > ob.seq + 1
       /\ LET book == Queued(ob, n)
          IN IF TooLong(book) THEN setWsFail([book EXCEPT !.queue = {}])
             ELSE /\ ob' = IF NextNonce(book) <= ob.seq + 1 THEN processQueue(book) ELSE book
                  /\ UNCHANGED ws /\ wire' = rest

\* msgHandler: a message of Bittrex is the full book or an update; any one on its way may be next.
msgHandler(i, kind) == venue = "bittrex" /\ i \in DOMAIN wire /\ wire[i].kind = kind

\* processNextUpdate, for any update on its way: before the full book came it is requested once, and
\* the update queued.
processNextUpdate(i) ==
    /\ msgHandler(i, "update")
    /\ LET n == wire[i].n
           rest == RemoveAt(wire, i)
       IN IF ob.seq # 0 THEN processOrderbookUpdate(n, rest)
          ELSE LET book == [Queued(ob, n) EXCEPT !.requested = TRUE]
               IN IF TooLong(book) THEN setWsFail([book EXCEPT !.queue = {}])
                  ELSE /\ ob' = book /\ UNCHANGED ws
                       /\ wire' = IF ob.requested THEN rest ELSE Append(rest, [kind |-> "full", n |-> made])
    /\ UNCHANGED <<venue, history, made, connections, lost>>

\* processFullOrderbook: the book, what was queued for it, and an empty queue: an update after a gap
\* is forgotten.
processFullOrderbook(i) ==
    /\ msgHandler(i, "full")
    /\ ob' = [processQueue([ob EXCEPT !.orders = BookAt(wire[i].n), !.seq = wire[i].n]) EXCEPT !.queue = {}]
    /\ wire' = RemoveAt(wire, i) /\ ws' = "listens"
    /\ UNCHANGED <<venue, history, made, connections, lost>>

-----------------------------------------------------------------------------
(* Poloniex *)

\* processWsMessage: the full book or an update, in the order they were sent.
processWsMessage(kind) == venue = "poloniex" /\ wire # <<>> /\ Head(wire).kind = kind

\* processWsOrderbook: the orders are put into the book that is there.
processWsOrderbook ==
    /\ processWsMessage("full")
    /\ ob' = [ob EXCEPT !.seq = Head(wire).n, !.orders = BookAt(Head(wire).n) @@ @]
    /\ wire' = Tail(wire) /\ ws' = "listens"
    /\ UNCHANGED <<venue, history, made, connections, lost>>

\* accumulateOrders: the counter goes up; an update with another number is a failure.
accumulateOrders ==
    /\ processWsMessage("update")
    /\ LET n == Head(wire).n
       IN IF n # ob.seq + 1 THEN setWsFail([ob EXCEPT !.seq = @ + 1])
          ELSE /\ ob' = [ob EXCEPT !.seq = n, !.orders = Apply(@, n)]
               /\ wire' = Tail(wire) /\ UNCHANGED ws
    /\ UNCHANGED <<venue, history, made, connections, lost>>

-----------------------------------------------------------------------------
Next ==
    \/ Change \/ Lost \/ SocketFails \/ connectWs \/ processWsOrderbook \/ accumulateOrders
    \/ \E i \in DOMAIN wire : processNextUpdate(i) \/ processFullOrderbook(i)

Spec == Init /\ [][Next]_orderBookVars

-----------------------------------------------------------------------------
(***************************************************************************)
(* While a socket listens, its book is what the exchange's was after the   *)
(* last update applied, whatever order updates came in and however often   *)
(* the socket was connected again: for Bittrex exactly, for Poloniex at    *)
(* least every order of it (one removed while the socket was down stays,   *)
(* processWsOrderbook).  No update of Bittrex is applied twice or out of   *)
(* turn, and its queue holds none that is out of date.                     *)
(***************************************************************************)
BookIsReplay ==
    ws = "listens" =>
        /\ venue = "bittrex" =>
              ob.orders = BookAt(ob.seq) /\ \A n \in ob.queue : n > ob.seq
        /\ venue = "poloniex" =>
              \A r \in DOMAIN BookAt(ob.seq) : r \in DOMAIN ob.orders /\ ob.orders[r] = BookAt(ob.seq)[r]
=============================================================================
