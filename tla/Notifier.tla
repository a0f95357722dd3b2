------------------------------ MODULE Notifier ------------------------------
(***************************************************************************)
(* The notifier (notification/notifier.go).  dcrd reports connected        *)
(* blocks, reorganizations and mempool transactions; the RPC client's      *)
(* callbacks put them in the channel anyQ; the goroutine superQueue takes  *)
(* one at a time and calls the registered handler groups one after the     *)
(* other, the handlers of a group concurrently, and waits for a group no   *)
(* longer than SyncHandlerDeadline.  A block is only handled when it       *)
(* connects to the previous one.                                           *)
(*                                                                         *)
(* What a handler does is abstracted to the block it handled last; it may  *)
(* fail, which is logged.  The callbacks run in the goroutine that reads   *)
(* the RPC connection: while one waits for room in anyQ no RPC is answered.*)
(***************************************************************************)
EXTENDS Ancestry, FiniteSets

CONSTANTS Parent,       \* the block tree, genesis is block 0
          BlockGroups,  \* sequences of sets of handlers, as registered in main
          ReorgGroups,
          TxGroups,
          RpcHandlers,  \* the handlers that make RPCs
          Scenarios     \* the environments to check

FaultKinds == {"handler",   \* a handler returns an error
               "ancestor",  \* an RPC of CommonAncestor fails
               "deadline",  \* a handler takes longer than SyncHandlerDeadline
               "early"}     \* blocks come between the last sync and Listen

Blocks == DOMAIN Parent
Height == HeightIn(Parent)
Path == PathIn(Parent)
On(b) == {Path[b][i] : i \in DOMAIN Path[b]}
In(groups) == UNION {groups[i] : i \in DOMAIN groups}
Handlers == In(BlockGroups) \cup In(ReorgGroups) \cup In(TxGroups)

ASSUME ScenariosAssumption ==
    Scenarios \subseteq [faults : SUBSET FaultKinds,  \* what may go wrong
                         queueSize : Nat \ {0},       \* capacity of anyQ
                         maxReorgs : Nat,             \* bounds on what
                         maxTxs : Nat]                \* dcrd sends

\* Every block descends from genesis, which is its own parent here.
ASSUME TreeAssumption ==
    /\ Genesis \in Blocks /\ Parent \in [Blocks -> Blocks] /\ Parent[Genesis] = Genesis
    /\ \A b \in Blocks :
         /\ Path[b] \in Seq(Blocks) /\ Path[b] /= <<>> /\ Path[b][1] = Genesis
         /\ \A i \in 2 .. Len(Path[b]) : Parent[Path[b][i]] = Path[b][i - 1]

\* dcrd replaces one block by another that is as high and does not build on it.
\* CommonAncestor's bound is far beyond any reorganization.
Reorganizes(a, b) == Height[b] >= Height[a] /\ a \notin On(b)
ASSUME ForksAssumption ==
    \A a, b \in Blocks : Reorganizes(a, b) => CommonAncestor(Parent, b, a).err = "none"

\* main registers each handler once for each kind of message.
RegisteredOnce(groups) ==
    /\ groups \in Seq(SUBSET Handlers) /\ groups /= <<>>
    /\ \A i, j \in DOMAIN groups : i /= j => groups[i] \cap groups[j] = {}
ASSUME GroupsAssumption ==
    RegisteredOnce(BlockGroups) /\ RegisteredOnce(ReorgGroups) /\ RegisteredOnce(TxGroups)

VARIABLES
    env,        \* the scenario, chosen at the start
    tip,        \* dcrd: the best block
    registered, \* dcrd: notifications are on (Listen)
    sent,       \* dcrd: reorganizations and transactions sent so far
    wire,       \* notifications that no callback has put in anyQ yet
    anyQ,       \* notifier.anyQ
    previous,   \* notifier.previous
    cur,        \* the message in work; group 0 while the ancestor is looked up
    taken,      \* messages taken so far, to tell the calls of handlers apart
    running,    \* the calls of handlers that have not returned
    last        \* by handler, the block it handled last

dcrd == <<env, tip, registered, sent>>
vars == <<dcrd, wire, anyQ, previous, cur, taken, running, last>>

BlockMsg(b) == [type |-> "block", old |-> Parent[b], new |-> b]
ReorgMsg(a, b) == [type |-> "reorg", old |-> a, new |-> b]
TxMsg == [type |-> "tx", old |-> Genesis, new |-> Genesis]

Groups(m) == CASE m.type = "block" -> BlockGroups
               [] m.type = "reorg" -> ReorgGroups
               [] m.type = "tx"    -> TxGroups

Idle == [n |-> 0, msg |-> TxMsg, group |-> 0]
Calls(n, m, i) == {[n |-> n, msg |-> m, h |-> h] : h \in Groups(m)[i]}
Unfinished == {r \in running : r.n = cur.n}

Init ==
    /\ env \in Scenarios
    /\ tip = Genesis /\ previous = Genesis
    /\ registered = FALSE /\ sent = [reorgs |-> 0, txs |-> 0]
    /\ wire = <<>> /\ anyQ = <<>>
    /\ cur = Idle /\ taken = 0 /\ running = {}
    /\ last = [h \in Handlers |-> Genesis]

-----------------------------------------------------------------------------
(* dcrd, and the RPC client's callbacks. *)

Listen ==
    /\ ~registered
    /\ registered' = TRUE
    /\ UNCHANGED <<env, tip, sent, wire, anyQ, previous, cur, taken, running, last>>

Send(ms) == wire' = IF registered THEN wire \o ms ELSE wire

dcrdConnects(b) ==
    /\ registered \/ "early" \in env.faults
    /\ b /= Genesis /\ Parent[b] = tip
    /\ tip' = b
    /\ Send(<<BlockMsg(b)>>)
    /\ UNCHANGED <<env, registered, sent, anyQ, previous, cur, taken, running, last>>

\* dcrd reports the blocks it attaches, the lowest first, and then the change.
Attached(a, b) == SubSeq(Path[b], Cardinality(On(a) \cap On(b)) + 1, Len(Path[b]))

dcrdReorganizes(b) ==
    LET branch == Attached(tip, b)
    IN /\ registered
       /\ sent.reorgs < env.maxReorgs
       /\ Reorganizes(tip, b)
       /\ tip' = b
       /\ sent' = [sent EXCEPT !.reorgs = @ + 1]
       /\ Send([i \in 1 .. Len(branch) |-> BlockMsg(branch[i])] \o <<ReorgMsg(tip, b)>>)
       /\ UNCHANGED <<env, registered, anyQ, previous, cur, taken, running, last>>

dcrdAcceptsTx ==
    /\ registered /\ sent.txs < env.maxTxs
    /\ sent' = [sent EXCEPT !.txs = @ + 1]
    /\ Send(<<TxMsg>>)
    /\ UNCHANGED <<env, tip, registered, anyQ, previous, cur, taken, running, last>>

\* onBlockConnected, onReorganization, onTxAcceptedVerbose.
Callback ==
    /\ wire /= <<>> /\ Len(anyQ) < env.queueSize
    /\ anyQ' = Append(anyQ, Head(wire)) /\ wire' = Tail(wire)
    /\ UNCHANGED <<dcrd, previous, cur, taken, running, last>>

CallbackBlocked == wire /= <<>> /\ Len(anyQ) >= env.queueSize

-----------------------------------------------------------------------------
(* superQueue and the functions it calls. *)

\* Mutant: a block is handled whatever it connects to.
ConnectsAny(m) == TRUE

Connects(m) == m.type = "block" => m.old = previous

\* The next message: a block that does not connect is dropped, a
\* reorganization first needs the common ancestor.
Receive ==
    /\ cur = Idle /\ anyQ /= <<>>
    /\ LET m == Head(anyQ)
       IN IF Connects(m)
            THEN /\ taken' = taken + 1
                 /\ cur' = [n |-> taken + 1, msg |-> m,
                            group |-> IF m.type = "reorg" THEN 0 ELSE 1]
                 /\ running' = IF m.type = "reorg" THEN running
                               ELSE running \cup Calls(taken + 1, m, 1)
            ELSE UNCHANGED <<taken, cur, running>>
    /\ anyQ' = Tail(anyQ)
    /\ UNCHANGED <<dcrd, wire, previous, last>>

\* signalReorg asks dcrd for the two branches.
\* Mutant: only a reorganization to a single new block is followed.
ForkOfOne ==
    LET f == CommonAncestor(Parent, cur.msg.new, cur.msg.old)
    IN IF Len(f.chainA) > 1 THEN Failed("length") ELSE f

Fork == CommonAncestor(Parent, cur.msg.new, cur.msg.old)

FindAncestor ==
    /\ cur.n > 0 /\ cur.group = 0
    /\ ~CallbackBlocked
    /\ Fork.err = "none"
    /\ cur' = [cur EXCEPT !.group = 1]
    /\ running' = running \cup Calls(cur.n, cur.msg, 1)
    /\ UNCHANGED <<dcrd, wire, anyQ, previous, taken, last>>

AncestorNotFound ==
    /\ cur.n > 0 /\ cur.group = 0
    /\ ~CallbackBlocked
    /\ "ancestor" \in env.faults \/ Fork.err /= "none"
    /\ cur' = Idle
    /\ UNCHANGED <<dcrd, wire, anyQ, previous, taken, running, last>>

GroupDone == cur.n > 0 /\ cur.group > 0 /\ Unfinished = {}

NextGroup ==
    /\ GroupDone /\ cur.group < Len(Groups(cur.msg))
    /\ cur' = [cur EXCEPT !.group = @ + 1]
    /\ running' = running \cup Calls(cur.n, cur.msg, cur.group + 1)
    /\ UNCHANGED <<dcrd, wire, anyQ, previous, taken, last>>

SetPreviousBlock(m) == IF m.type = "tx" THEN previous ELSE m.new

Finish ==
    /\ GroupDone /\ cur.group = Len(Groups(cur.msg))
    /\ previous' = SetPreviousBlock(cur.msg)
    /\ cur' = Idle
    /\ UNCHANGED <<dcrd, wire, anyQ, taken, running, last>>

\* superQueue goes on; the calls that are late go on too.
Deadline ==
    /\ "deadline" \in env.faults
    /\ cur.n > 0 /\ cur.group > 0 /\ Unfinished /= {}

GiveUp ==
    /\ Deadline
    /\ cur' = Idle
    /\ UNCHANGED <<dcrd, wire, anyQ, previous, taken, running, last>>

\* A call of a handler returns, having handled its message or with an error.
Returns(r) ==
    /\ r.h \in RpcHandlers => ~CallbackBlocked
    /\ running' = running \ {r}
    /\ \/ last' = IF r.msg.type = "tx" THEN last ELSE [last EXCEPT ![r.h] = r.msg.new]
       \/ "handler" \in env.faults /\ last' = last
    /\ UNCHANGED <<dcrd, wire, anyQ, previous, cur, taken>>

Handle == \E r \in running : Returns(r)

Process == Receive \/ FindAncestor \/ AncestorNotFound \/ NextGroup \/ Finish

Next ==
    \/ Listen
    \/ \E b \in Blocks : dcrdConnects(b) \/ dcrdReorganizes(b)
    \/ dcrdAcceptsTx
    \/ Callback
    \/ Process
    \/ GiveUp
    \/ Handle

\* Goroutines that can go on do, handlers whose RPCs are answered return, and a
\* timer that is not stopped fires.  dcrd need not do anything.
Fairness ==
    /\ WF_vars(Listen) /\ WF_vars(Callback) /\ WF_vars(Process)
    /\ WF_vars(GiveUp) /\ WF_vars(Handle)

Spec == Init /\ [][Next]_vars /\ Fairness

-----------------------------------------------------------------------------
Message == [type : {"block", "reorg", "tx"}, old : Blocks, new : Blocks]

TypeOK ==
    /\ env \in Scenarios
    /\ tip \in Blocks /\ previous \in Blocks /\ registered \in BOOLEAN
    /\ sent \in [reorgs : 0 .. env.maxReorgs, txs : 0 .. env.maxTxs]
    /\ wire \in Seq(Message) /\ anyQ \in Seq(Message) /\ Len(anyQ) <= env.queueSize
    /\ taken \in Nat /\ cur.n \in {0, taken} /\ cur.msg \in Message
    /\ cur.group \in 0 .. Len(Groups(cur.msg))
    /\ \A r \in running : r.n \in 1 .. taken /\ r.msg \in Message /\ r.h \in Handlers
    /\ last \in [Handlers -> Blocks]

\* The handlers that follow the chain: called for blocks and reorganizations.
Followers == In(BlockGroups) \cap In(ReorgGroups)

\* Without faults each handler that follows the chain is called for the child
\* of the block it handled last, or for a reorganization away from it: through
\* queued forks, ignored blocks and reorganizations back and forth it sees an
\* unbroken walk on the block tree.
UnbrokenWalk ==
    env.faults = {} =>
      \A r \in running : r.h \in Followers /\ r.msg.type /= "tx" => last[r.h] = r.msg.old

\* "register(A); register(B, C) will result in A running alone and completing,
\* then B and C running concurrently": a handler of a later group runs only
\* when the handlers of the earlier groups have handled the same message, and
\* nothing of another message is still running.
GroupsInOrder ==
    env.faults \subseteq {"ancestor", "early"} =>
      \A r \in running :
         /\ r.n = cur.n
         /\ r.msg.type /= "tx" =>
               \A i \in DOMAIN Groups(r.msg) : r.h \in Groups(r.msg)[i] =>
                  \A j \in 1 .. i - 1 : \A h \in Groups(r.msg)[j] : last[h] = r.msg.new

\* Between messages each of these handlers is at the notifier's previous block,
\* also when a reorganization was given up for want of a common ancestor: what
\* processBlock compares with is the block that the next one is connected to.
InStep ==
    env.faults \subseteq {"ancestor", "early"} /\ cur = Idle =>
      \A h \in Followers : last[h] = previous

\* The three above, of values of the right type.
WalksInOrder == TypeOK /\ UnbrokenWalk /\ GroupsInOrder /\ InStep

\* Once dcrd is quiet the notifier ends at its best block, even if handlers
\* fail, and then so do the handlers, unless they failed: no block or
\* reorganization is lost in the queue or dropped by processBlock for good.
\* Without reorganizations superQueue empties the queue again, whatever the
\* handlers do and though no RPC is answered while the queue is full: the
\* deadline ends the wait.
CatchesUp ==
    /\ env.faults \subseteq {"handler"} => <>[](previous = tip)
    /\ env.faults = {} => <>[](\A h \in Followers : last[h] = tip)
    /\ env.maxReorgs = 0 => []<>(wire = <<>> /\ anyQ = <<>>)

\* SetPreviousBlock: "processBlock, which keeps this data up-to-date".
KeptUpToDate == <>[](previous = tip)
=============================================================================
