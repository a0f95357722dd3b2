----------------------------- MODULE StakeNode -----------------------------
(***************************************************************************)
(* The stake node of blockchain/stake/tickets.go: which tickets are live,  *)
(* missed and revoked at the best block.  A node is changed by connecting  *)
(* or disconnecting one block.  What a block did to its tickets is kept as *)
(* undo data, one value per ticket; the same data drives four things: the  *)
(* treaps in memory and the buckets of the database, forwards and back.    *)
(*                                                                         *)
(* The caller (StakeDatabase) changes the node in memory first and commits *)
(* it to the database in a transaction of its own; the process may stop    *)
(* between the two, and starts again from the database.                    *)
(***************************************************************************)
EXTENDS Integers, Sequences, FiniteSets

CONSTANTS NodeTickets,            \* ticket hashes
          VotesPerBlock,          \* winners drawn for each block
          StakeEnableHeight,      \* from here on winners leave and tickets expire
          StakeValidationHeight,  \* the first block that is voted on
          TicketExpiry,           \* blocks that a ticket stays live
          MaxHeight               \* bound on the chain height

ASSUME StakeNodeAssumption ==
    /\ IsFiniteSet(NodeTickets)
    /\ VotesPerBlock \in Nat /\ MaxHeight \in Nat /\ TicketExpiry \in Nat
    /\ StakeEnableHeight \in Nat /\ StakeValidationHeight \in Nat \ {0}
    /\ StakeEnableHeight <= StakeValidationHeight

VARIABLES node,      \* the node in memory
          db,        \* the database
          pending,   \* the change of node that is not in db yet
          childUndo, \* undo data of the block being disconnected
          committed  \* the nodes on the path from genesis, as committed

nodeVars == <<node, db, pending, childUndo, committed>>

-----------------------------------------------------------------------------
(* Treaps and buckets are functions from some of the tickets to values.    *)

Value == [height : 0 .. MaxHeight, missed : BOOLEAN, revoked : BOOLEAN,
          spent : BOOLEAN, expired : BOOLEAN]
IsTreap(f, V) == DOMAIN f \subseteq NodeTickets /\ f \in [DOMAIN f -> V]

Empty == [t \in {} |-> {}]
Without(f, S) == [t \in DOMAIN f \ S |-> f[t]]
With(f, g) == [t \in DOMAIN f \cup DOMAIN g |-> IF t \in DOMAIN g THEN g[t] ELSE f[t]]

\* The kinds of undo data, in the order in which the code tests for them.
New(u)     == {t \in DOMAIN u : ~u[t].missed /\ ~u[t].revoked /\ ~u[t].spent}
Revoked(u) == {t \in DOMAIN u : u[t].missed /\ u[t].revoked}
Missed(u)  == {t \in DOMAIN u : u[t].missed /\ ~u[t].revoked}
Spent(u)   == {t \in DOMAIN u : ~u[t].missed /\ u[t].spent}

genesisNode == [height |-> 0, live |-> Empty, missed |-> Empty, revoked |-> Empty,
                undo |-> Empty, new |-> {}, winners |-> {}]

\* A live ticket that entered at or below this height expires now.
toExpireHeight(h) == IF h > TicketExpiry THEN h - TicketExpiry ELSE 0

Expiring(n) == {t \in DOMAIN n.live \ n.winners :
                   n.live[t].height <= toExpireHeight(n.height + 1)}

\* What a block does to its tickets: winners are spent or missed, old tickets
\* expire, missed ones are revoked, and the maturing ones become live.
BlockUndo(n, voted, revs, news) ==
    LET on == n.height + 1 >= StakeEnableHeight
        out == IF on THEN n.winners ELSE {}
        old == IF on THEN Expiring(n) ELSE {}
        rev == IF on THEN revs ELSE {}
    IN [t \in out \cup old \cup rev \cup news |->
          IF t \in news
            THEN [height |-> n.height + 1, missed |-> FALSE, revoked |-> FALSE,
                  spent |-> FALSE, expired |-> FALSE]
          ELSE IF t \in rev THEN [n.missed[t] EXCEPT !.revoked = TRUE]
          ELSE IF t \in old THEN [n.live[t] EXCEPT !.missed = TRUE, !.expired = TRUE]
          ELSE IF t \in voted THEN [n.live[t] EXCEPT !.spent = TRUE, !.missed = FALSE]
          ELSE [n.live[t] EXCEPT !.spent = FALSE, !.missed = TRUE]]

\* connectNode returns an error when a revoked ticket is not missed, or a
\* maturing ticket is live already, or too few tickets are left to draw from.
\* dcrd only accepts revocations of tickets that were missed before the block.
CanConnect(n, revs, news) ==
    /\ n.height + 1 >= StakeEnableHeight => revs \subseteq DOMAIN n.missed
    /\ news \cap DOMAIN n.live = {}

connectNode(n, voted, revs, news, winners) ==
    LET u == BlockUndo(n, voted, revs, news)
    IN [height  |-> n.height + 1,
        live    |-> With(Without(n.live, Missed(u) \cup Spent(u)),
                         Without(u, DOMAIN u \ New(u))),
        missed  |-> With(Without(n.missed, Revoked(u)),
                         Without(u, DOMAIN u \ Missed(u))),
        revoked |-> With(n.revoked, Without(u, DOMAIN u \ Revoked(u))),
        undo    |-> u,
        new     |-> news,
        winners |-> winners]

\* The lottery: findTicketIdxs and fetchWinners draw from the tickets that are
\* live after the block, from the block before StakeValidationHeight on.
Draws(n) ==
    IF n.height >= StakeValidationHeight - 1
      THEN {w \in SUBSET DOMAIN n.live : Cardinality(w) = VotesPerBlock}
      ELSE {{}}

\* Values as they were before the block.
Unmissed(v) == [v EXCEPT !.missed = FALSE, !.expired = FALSE]
Unspent(v) == [v EXCEPT !.spent = FALSE]
Unrevoked(v) == [v EXCEPT !.revoked = FALSE]

\* The winners of the parent: expired tickets could never have been winners.
\* Mutant: they are taken for winners too.
WonOrExpired(u) == Missed(u) \cup Spent(u)

Won(u) == {t \in Missed(u) : ~u[t].expired} \cup Spent(u)

disconnectNode(n, parentUndo, parentNew) ==
    LET u == n.undo
    IN IF n.height = 1 THEN genesisNode ELSE
       [height  |-> n.height - 1,
        live    |-> With(Without(n.live, New(u)),
                         [t \in Missed(u) \cup Spent(u) |->
                             IF t \in Missed(u) THEN Unmissed(u[t]) ELSE Unspent(u[t])]),
        missed  |-> With(Without(n.missed, Missed(u)),
                         [t \in Revoked(u) |-> Unrevoked(u[t])]),
        revoked |-> Without(n.revoked, Revoked(u)),
        undo    |-> parentUndo,
        new     |-> parentNew,
        winners |-> Won(u)]

-----------------------------------------------------------------------------
(* The database: three buckets, undo data and new tickets by height, and   *)
(* the best state with the sizes of the buckets.                           *)

bestState(n) == [height |-> n.height, live |-> Cardinality(DOMAIN n.live),
                 missed |-> Cardinality(DOMAIN n.missed),
                 revoked |-> Cardinality(DOMAIN n.revoked),
                 winners |-> IF n.height >= StakeValidationHeight - 1
                               THEN n.winners ELSE {}]

InitDatabaseState ==
    [live |-> Empty, missed |-> Empty, revoked |-> Empty,
     undo |-> [h \in {0} |-> Empty], new |-> [h \in {0} |-> {}],
     best |-> bestState(genesisNode)]

WriteConnectedBestNode(d, n) ==
    LET u == n.undo
    IN [live    |-> With(Without(d.live, Missed(u) \cup Spent(u)),
                         Without(u, DOMAIN u \ New(u))),
        missed  |-> With(Without(d.missed, Revoked(u)),
                         [t \in Missed(u) |-> [u[t] EXCEPT !.missed = TRUE]]),
        revoked |-> With(d.revoked, Without(u, DOMAIN u \ Revoked(u))),
        undo    |-> With(d.undo, [h \in {n.height} |-> u]),
        new     |-> With(d.new, [h \in {n.height} |-> n.new]),
        best    |-> bestState(n)]

\* n is the restored parent, u the undo data of the block that is dropped.
WriteDisconnectedBestNode(d, n, u) ==
    LET above == {h \in DOMAIN d.undo : h > n.height /\ h <= d.best.height}
    IN [live    |-> With(Without(d.live, New(u)),
                         [t \in Missed(u) \cup Spent(u) |->
                             IF t \in Missed(u) THEN Unmissed(u[t]) ELSE Unspent(u[t])]),
        missed  |-> With(Without(d.missed, Missed(u)),
                         [t \in Revoked(u) |-> Unrevoked(u[t])]),
        revoked |-> Without(d.revoked, Revoked(u)),
        undo    |-> With(Without(d.undo, above), [h \in {n.height} |-> n.undo]),
        new     |-> With(Without(d.new, above), [h \in {n.height} |-> n.new]),
        best    |-> bestState(n)]

\* LoadBestNode refuses buckets of other sizes than the best state has.
SizesMatch(d) ==
    /\ Cardinality(DOMAIN d.live) = d.best.live
    /\ Cardinality(DOMAIN d.missed) = d.best.missed
    /\ Cardinality(DOMAIN d.revoked) = d.best.revoked

LoadBestNode(d) ==
    [height  |-> d.best.height,
     live    |-> d.live, missed |-> d.missed, revoked |-> d.revoked,
     undo    |-> d.undo[d.best.height],
     new     |-> d.new[d.best.height],
     winners |-> IF d.best.height >= StakeValidationHeight - 1
                   THEN d.best.winners ELSE {}]

-----------------------------------------------------------------------------
NodeInit ==
    /\ node = genesisNode
    /\ db = InitDatabaseState
    /\ pending = "none" /\ childUndo = Empty
    /\ committed = << genesisNode >>

\* Tickets that no block of the chain has brought in: their hashes are new.
Unused == NodeTickets \ UNION {DOMAIN committed[i].undo : i \in DOMAIN committed}

ConnectNode ==
    /\ pending = "none" /\ node.height < MaxHeight
    /\ \E voted \in SUBSET node.winners, revs \in SUBSET DOMAIN node.missed,
          news \in SUBSET Unused :
          /\ CanConnect(node, revs, news)
          /\ LET n == connectNode(node, voted, revs, news, {})
             IN \E w \in Draws(n) : node' = [n EXCEPT !.winners = w]
    /\ pending' = "connect"
    /\ UNCHANGED <<db, childUndo, committed>>

CommitConnect ==
    /\ pending = "connect"
    /\ db' = WriteConnectedBestNode(db, node)
    /\ pending' = "none"
    /\ committed' = Append(committed, node)
    /\ UNCHANGED <<node, childUndo>>

DisconnectNode ==
    /\ pending = "none" /\ node.height > 0
    /\ node' = disconnectNode(node, db.undo[node.height - 1], db.new[node.height - 1])
    /\ childUndo' = node.undo
    /\ pending' = "disconnect"
    /\ UNCHANGED <<db, committed>>

CommitDisconnect ==
    /\ pending = "disconnect"
    /\ db' = WriteDisconnectedBestNode(db, node, childUndo)
    /\ pending' = "none" /\ childUndo' = Empty
    /\ committed' = SubSeq(committed, 1, Len(committed) - 1)
    /\ UNCHANGED node

\* The process stops and starts again from the database.
Restart ==
    /\ node' = LoadBestNode(db)
    /\ pending' = "none" /\ childUndo' = Empty
    /\ UNCHANGED <<db, committed>>

NodeNext == ConnectNode \/ CommitConnect \/ DisconnectNode \/ CommitDisconnect \/ Restart

NodeSpec == NodeInit /\ [][NodeNext]_nodeVars

-----------------------------------------------------------------------------
Best == committed[Len(committed)]

\* The flags of a ticket fit the treap it is in.
NodeTypeOK ==
    /\ IsTreap(node.live, {v \in Value : ~v.missed /\ ~v.revoked /\ ~v.spent /\ ~v.expired})
    /\ IsTreap(node.missed, {v \in Value : v.missed /\ ~v.revoked /\ ~v.spent})
    /\ IsTreap(node.revoked, {v \in Value : v.missed /\ v.revoked /\ ~v.spent})
    /\ IsTreap(node.undo, Value)
    /\ node.height \in 0 .. MaxHeight
    /\ node.new \in SUBSET NodeTickets /\ node.winners \in SUBSET NodeTickets
    /\ pending \in {"none", "connect", "disconnect"}

\* Disconnecting a block gives back the node that its parent had, in every
\* part: the flags of each ticket, the winners that the block answered, and
\* the parent's own undo data (disconnectNode).
UndoIsExact ==
    pending = "disconnect" => node = committed[Len(committed) - 1]

\* Whenever the process stops, what LoadBestNode reads is the node of the last
\* commit, and its checks of the bucket sizes do not report corruption.
DiskIsBestNode == SizesMatch(db) /\ LoadBestNode(db) = Best

\* A ticket is in one state only: live, missed or revoked; tickets drawn to vote
\* are live; and what left the live set is what the block's undo data says.
TicketsInOnePlace ==
    /\ DOMAIN node.live \cap DOMAIN node.missed = {}
    /\ DOMAIN node.live \cap DOMAIN node.revoked = {}
    /\ DOMAIN node.missed \cap DOMAIN node.revoked = {}
    /\ node.winners \subseteq DOMAIN node.live
    /\ \A t \in DOMAIN node.missed \cup DOMAIN node.revoked :
          \E i \in 1 .. Len(committed) + 1 :
             LET n == IF i <= Len(committed) THEN committed[i] ELSE node
             IN t \in Missed(n.undo)

\* Disconnecting a block gives back the node that its parent had, in every
\* part; whenever the process stops, LoadBestNode reads the node of the last
\* commit; and a ticket is live, missed or revoked, with flags that fit, as the
\* undo data says.
NodeIsExact == NodeTypeOK /\ UndoIsExact /\ DiskIsBestNode /\ TicketsInOnePlace
=============================================================================
