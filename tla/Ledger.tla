------------------------------- MODULE Ledger -------------------------------
(***************************************************************************)
(* The ledger of the full node's chain package: which blocks may be        *)
(* connected (blockchain/validate.go), what they may pay their miner and   *)
(* voters (blockchain/standalone/subsidy.go), and what connecting,         *)
(* disapproving and disconnecting them does to the unspent outputs and the *)
(* spend journal (utxoviewpoint.go, chainio.go, and the view that          *)
(* reorganizeChainInternal carries from block to block in chain.go).       *)
(*                                                                         *)
(* chain holds the blocks above genesis, journal the spend journal of each *)
(* of them, utxo the unspent outputs of the database.  During a            *)
(* reorganization view is the view carried along and reorg says where it   *)
(* stands; a block's scripts, its header commitments and its proof of work *)
(* are taken as valid.                                                     *)
(***************************************************************************)
EXTENDS Integers, Sequences, SequencesExt, FiniteSets, FiniteSetsExt

CONSTANT NoEntry

-----------------------------------------------------------------------------
(***************************************************************************)
(* Unspent outputs.  A view is a function from transaction ids to entries; *)
(* NoEntry is the nil entry of a transaction looked up in the database and *)
(* not found.  The database keeps the same entries without their spent     *)
(* outputs.                                                                *)
(*                                                                         *)
(* A transaction is a record: its id (the hash), kind, version, expiry,    *)
(* base (the value of a coinbase or stakebase input, zero without one),    *)
(* the other inputs with their fraud proofs, and the outputs.  Outputs are *)
(* numbered from one.  A block has its stake tree stxs and its regular     *)
(* tree txs, whose first transaction is the coinbase.                      *)
(***************************************************************************)
EmptyView == [id \in {} |-> NoEntry]

IsCoinBase(tx) == tx.kind = "coinbase"
IsSStx(tx) == tx.kind = "ticket"
IsSSGen(tx) == tx.kind = "vote"
IsSSRtx(tx) == tx.kind = "revocation"

Lookup(view, id) == IF id \in DOMAIN view THEN view[id] ELSE NoEntry
Put(view, id, entry) ==
    [i \in DOMAIN view \cup {id} |-> IF i = id THEN entry ELSE view[i]]

(***************************************************************************)
(* Entries.                                                                *)
(***************************************************************************)
IsOutputSpent(entry, i) == i \notin DOMAIN entry.outs \/ entry.outs[i].spent
IsFullySpent(entry) == \A i \in DOMAIN entry.outs : entry.outs[i].spent

SpendOutput(entry, i) ==
    IF IsOutputSpent(entry, i) THEN entry
    ELSE [entry EXCEPT !.modified = TRUE, !.outs[i].spent = TRUE]

\* txscript.IsUnspendable: data carriers and outputs of no value.
IsUnspendable(out) == out.class = "nulldata" \/ out.value = 0

Unspent(value, class) == [value |-> value, class |-> class, spent |-> FALSE]

newUtxoEntry(version, height, index, isCoinBase, hasExpiry, kind) ==
    [version |-> version, height |-> height, index |-> index,
     isCoinBase |-> isCoinBase, hasExpiry |-> hasExpiry, kind |-> kind,
     stakeExtra |-> <<>>, outs |-> [i \in {} |-> Unspent(0, "")], modified |-> FALSE]

\* A regular transaction and a coinbase have the same stake type.
TypeOf(tx) == IF tx.kind = "coinbase" THEN "regular" ELSE tx.kind

(***************************************************************************)
(* Connecting.                                                             *)
(***************************************************************************)
AddTxOuts(view, tx, height, index) ==
    LET known == Lookup(view, tx.id)
        fresh == [newUtxoEntry(tx.version, height, index, IsCoinBase(tx),
                               tx.expiry # 0, TypeOf(tx))
                    EXCEPT !.stakeExtra = IF IsSStx(tx) THEN tx.outs ELSE <<>>]
        entry == IF known = NoEntry THEN fresh
                 ELSE [known EXCEPT !.height = height, !.index = index]
        added == {i \in DOMAIN tx.outs : ~IsUnspendable(tx.outs[i])}
    IN  Put(view, tx.id,
            [entry EXCEPT
               !.modified = TRUE,
               !.outs = [i \in DOMAIN entry.outs \cup added |->
                           IF i \in added THEN Unspent(tx.outs[i].value, tx.outs[i].class)
                           ELSE entry.outs[i]]])

\* The journal's record of a spent output: the details of its transaction are
\* kept only with the output that was its last unspent one.
spentTxOut(entry, in) ==
    LET full == IsFullySpent(entry)
        out  == IF in.idx \in DOMAIN entry.outs THEN entry.outs[in.idx].class ELSE ""
    IN  [amount |-> in.value, class |-> out, txFullySpent |-> full,
         txVersion |-> IF full THEN entry.version ELSE 0,
         height |-> IF full THEN entry.height ELSE 0,
         index |-> IF full THEN entry.index ELSE 0,
         isCoinBase |-> full /\ entry.isCoinBase,
         hasExpiry |-> full /\ entry.hasExpiry,
         kind |-> IF full THEN entry.kind ELSE "regular",
         stakeExtra |-> IF full THEN entry.stakeExtra ELSE <<>>]

\* s is the view, the records so far, and whether no input was missing.
connectInput(s, in) ==
    IF ~s.ok \/ Lookup(s.view, in.tx) = NoEntry THEN [s EXCEPT !.ok = FALSE]
    ELSE LET entry == SpendOutput(s.view[in.tx], in.idx)
         IN  [s EXCEPT !.view[in.tx] = entry,
                       !.stxos = Append(@, spentTxOut(entry, in))]

connectTransaction(s, tx, height, index) ==
    LET paid(spent) == IF ~spent.ok THEN spent
                       ELSE [spent EXCEPT !.view = AddTxOuts(@, tx, height, index)]
    IN  paid(FoldLeft(connectInput, s, tx.ins))

\* The transactions of a tree one after the other.
connectTransactions(s, txs, height) ==
    FoldLeftDomain(LAMBDA acc, i : connectTransaction(acc, txs[i], height, i), s, txs)

(***************************************************************************)
(* Loading what a block's inputs name.                                     *)
(***************************************************************************)
Fetch(view, db, ids) ==
    [i \in DOMAIN view \cup ids |->
       IF i \in DOMAIN view THEN view[i]
       ELSE IF i \in DOMAIN db THEN db[i] ELSE NoEntry]

InputTxs(txs) == UNION {{tx.ins[i].tx : i \in DOMAIN tx.ins} : tx \in Range(txs)}

\* Inputs that name an earlier transaction of the same tree are in flight:
\* its outputs are put in the view, the others are to be fetched.
InFlight(txs, in, i) == \E k \in 1..(i - 1) : txs[k].id = in.tx

addRegularInputUtxos(view, block) ==
    LET txs == block.txs
        earlier(k) == \E i \in (k + 1)..Len(txs) : \E in \in Range(txs[i].ins) :
                         in.tx = txs[k].id
    IN  FoldLeftDomain(LAMBDA v, k : IF earlier(k)
                                     THEN AddTxOuts(v, txs[k], block.height, k) ELSE v,
                       view, txs)

RegularOrigins(block) ==
    {in.tx : in \in UNION {{n \in Range(block.txs[i].ins) : ~InFlight(block.txs, n, i)} :
                            i \in 2..Len(block.txs)}}

fetchRegularInputUtxos(view, db, block) ==
    Fetch(addRegularInputUtxos(view, block), db, RegularOrigins(block))

fetchInputUtxos(view, db, block) ==
    Fetch(addRegularInputUtxos(view, block), db,
          RegularOrigins(block) \cup InputTxs(block.stxs))

(***************************************************************************)
(* Disconnecting.                                                          *)
(***************************************************************************)
CountInputs(txs) == FoldLeft(LAMBDA n, tx : n + Len(tx.ins), 0, txs)
countSpentRegularOutputs(block) == CountInputs(block.txs)
countSpentOutputs(block) == CountInputs(block.txs) + CountInputs(block.stxs)

\* The output an input spent is unspent again.  Without an entry in the view
\* its transaction is revived from the journal's record, which must have its
\* details.
reviveOutput(s, tx, in, stxo) ==
    LET known   == Lookup(s.view, in.tx)
        revived == [newUtxoEntry(tx.version, stxo.height, stxo.index, stxo.isCoinBase,
                                 stxo.hasExpiry, stxo.kind)
                      EXCEPT !.stakeExtra = stxo.stakeExtra]
        entry   == IF known = NoEntry THEN revived ELSE known
    IN  IF ~s.ok \/ (known = NoEntry /\ ~stxo.txFullySpent)
        THEN [s EXCEPT !.ok = FALSE]
        ELSE [s EXCEPT !.view = Put(s.view, in.tx,
                [entry EXCEPT
                   !.modified = TRUE,
                   !.outs = IF in.idx \in DOMAIN entry.outs
                            THEN [entry.outs EXCEPT ![in.idx].spent = FALSE]
                            ELSE [i \in DOMAIN entry.outs \cup {in.idx} |->
                                    IF i = in.idx THEN Unspent(in.value, stxo.class)
                                    ELSE entry.outs[i]]])]

\* One transaction: its own outputs go, then its inputs come back, the last
\* first; s.left holds the records not yet used, the latest last.
disconnectTransaction(s, tx, height, index) ==
    LET known == Lookup(s.view, tx.id)
        own   == IF known = NoEntry
                 THEN newUtxoEntry(tx.version, height, index, IsCoinBase(tx),
                                   tx.expiry # 0, TypeOf(tx))
                 ELSE known
        gone  == Put(s.view, tx.id, [own EXCEPT !.modified = TRUE,
                                                !.outs = [i \in {} |-> Unspent(0, "")]])
        n     == Len(s.left) - Len(tx.ins)
    IN  [FoldRight(LAMBDA k, acc : reviveOutput(acc, tx, tx.ins[k], s.left[n + k]),
                   [k \in DOMAIN tx.ins |-> k], [s EXCEPT !.view = gone])
           EXCEPT !.left = SubSeq(s.left, 1, n)]

\* The stake tree's records come before those of the regular tree.
disconnectTransactions(s, block, stxos, stakeTree) ==
    LET txs  == IF stakeTree THEN block.stxs ELSE block.txs
        left == IF stakeTree
                THEN SubSeq(stxos, 1, Len(stxos) - countSpentRegularOutputs(block))
                ELSE stxos
    IN  FoldRight(LAMBDA i, acc : disconnectTransaction(acc, txs[i], block.height, i),
                  [i \in DOMAIN txs |-> i], [s EXCEPT !.left = left])

disconnectDisapprovedBlock(s, db, stxos, block) ==
    disconnectTransactions([s EXCEPT !.view = fetchRegularInputUtxos(@, db, block)],
                           block, stxos, FALSE)

(***************************************************************************)
(* Whole blocks.  Work(view) starts the bookkeeping of a call.             *)
(***************************************************************************)
Work(view) == [view |-> view, stxos |-> <<>>, left |-> <<>>, ok |-> TRUE]

connectBlock(view, db, block, parent, parentStxos) ==
    LET s1 == IF block.approves THEN Work(view)
              ELSE disconnectDisapprovedBlock(Work(view), db, parentStxos, parent)
        s2 == [s1 EXCEPT !.view = fetchInputUtxos(@, db, block)]
        s3 == connectTransactions(s2, block.stxs, block.height)
    IN  connectTransactions(s3, block.txs, block.height)

\* Mutant: the regular tree the block had disapproved stays disconnected.
disconnectBlockOnly(view, db, block, parent, stxos) ==
    LET s1 == [Work(view) EXCEPT !.view = fetchInputUtxos(@, db, block)]
        s2 == disconnectTransactions(s1, block, stxos, FALSE)
    IN  disconnectTransactions(s2, block, stxos, TRUE)

disconnectBlock(view, db, block, parent, stxos) ==
    LET s1 == [Work(view) EXCEPT !.view = fetchInputUtxos(@, db, block)]
        s2 == disconnectTransactions(s1, block, stxos, FALSE)
        restored(s3) ==
          IF block.approves \/ ~s3.ok THEN s3
          ELSE connectTransactions([s3 EXCEPT !.view = fetchRegularInputUtxos(@, db, parent)],
                                   parent.txs, parent.height)
    IN  restored(disconnectTransactions(s2, block, stxos, TRUE))

\* Writing a view: modified entries replace those of the database, without
\* their spent outputs, and are deleted when none is left.
Serialized(entry) ==
    [entry EXCEPT !.modified = FALSE,
                  !.outs = [i \in {j \in DOMAIN entry.outs : ~entry.outs[j].spent} |->
                              entry.outs[i]]]

dbPutUtxoView(db, view) ==
    LET modified == {i \in DOMAIN view : view[i] # NoEntry /\ view[i].modified}
        deleted  == {i \in modified : IsFullySpent(view[i])}
    IN  [i \in (DOMAIN db \cup modified) \ deleted |->
           IF i \in modified THEN Serialized(view[i]) ELSE db[i]]

commit(view) ==
    LET kept == {i \in DOMAIN view :
                   view[i] # NoEntry /\ ~(view[i].modified /\ IsFullySpent(view[i]))}
    IN  [i \in kept |-> [view[i] EXCEPT !.modified = FALSE]]

-----------------------------------------------------------------------------
(* The subsidies, the rules and the chain. *)

CONSTANTS BaseSubsidy, MulSubsidy, DivSubsidy, SubsidyReductionInterval,
          WorkProportion, StakeProportion, TreasuryProportion,
          TicketsPerBlock, StakeValidationHeight

CONSTANTS
    Blocks(_),         \* The blocks that may be offered on a chain.
    Prefix,            \* The first blocks, connected before the start.
    CoinbaseMaturity, TicketMaturity, SStxChangeMaturity,
    MinimumStakeDiff, MaxFreshStakePerBlock, MaxRevocationsPerBlock,
    TreasuryInitValue, \* Paid in block one besides its subsidy.
    Winners(_),        \* Tickets drawn for a height (external: the stake node).
    Missed(_),         \* Tickets a block of a height may revoke (external).
    MaxLength          \* Bound on the length of the chain.

VARIABLES chain, utxo, journal, view, reorg

vars == <<chain, utxo, journal, view, reorg>>

SubsidyAssumption ==
    /\ {BaseSubsidy, WorkProportion, StakeProportion, TreasuryProportion} \subseteq Nat
    /\ {MulSubsidy, DivSubsidy, SubsidyReductionInterval, TicketsPerBlock,
        StakeValidationHeight} \subseteq Nat \ {0}
    /\ MulSubsidy < DivSubsidy
    /\ WorkProportion + StakeProportion + TreasuryProportion > 0

LedgerAssumption ==
    /\ SubsidyAssumption
    /\ {CoinbaseMaturity, TicketMaturity, SStxChangeMaturity} \subseteq Nat
    /\ MaxLength \in Nat

-----------------------------------------------------------------------------
(***************************************************************************)
(* The subsidy of a block and how work, votes and treasury share it        *)
(* (blockchain/standalone/subsidy.go).  Amounts are in atoms, integers.    *)
(* SubsidyCache keeps the full subsidy of the reduction intervals asked    *)
(* for so far: the cache is a function from intervals to subsidies, and    *)
(* its sorted slice of keys is the function's domain.                      *)
(***************************************************************************)
NewSubsidyCache == [i \in {0} |-> BaseSubsidy]

TotalProportions == WorkProportion + StakeProportion + TreasuryProportion
MinVotesRequired == (TicketsPerBlock \div 2) + 1

Interval(h) == h \div SubsidyReductionInterval

\* One reduction after another from `subsidy', n times; Reduced stops at zero.
Reduce(subsidy) == (subsidy * MulSubsidy) \div DivSubsidy

Reduced(subsidy, n) ==
    LET after[i \in 0..n] == IF i = 0 THEN subsidy ELSE Reduce(after[i - 1])
        stop == Min({n} \cup {i \in 1..n : after[i] = 0})
    IN  [subsidy |-> after[stop], steps |-> stop]

\* The highest cached interval below the one asked for: the last of all when
\* it is beyond them, else the one a binary search finds.
NearestCached(cache, i) == Max({j \in DOMAIN cache : j < i})

\* The interval that is cached is the one at which the loop stopped.
CalcBlockSubsidy(cache, h) ==
    LET want == Interval(h)
        last == Max(DOMAIN cache)
        with(i, subsidy) ==
          [subsidy |-> subsidy,
           cache   |-> [j \in DOMAIN cache \cup {i} |-> IF j = i THEN subsidy ELSE cache[j]]]
        computed(from, r) == with(from + r.steps, r.subsidy)
        after(from) == computed(from, Reduced(cache[from], want - from))
    IN  CASE want \in DOMAIN cache -> [subsidy |-> cache[want], cache |-> cache]
          [] want \notin DOMAIN cache /\ want > last /\ cache[last] = 0 ->
                 [subsidy |-> 0, cache |-> cache]
          [] OTHER -> after(NearestCached(cache, want))

\* The shares of a block's subsidy `full'.
WorkShare(full, h, voters) ==
    LET share == (full * WorkProportion) \div TotalProportions
    IN  IF h < StakeValidationHeight THEN share
        ELSE IF voters < MinVotesRequired THEN 0
        ELSE (voters * share) \div TicketsPerBlock

StakeVoteShare(full, h) ==
    IF h < StakeValidationHeight - 1 THEN 0
    ELSE (full * StakeProportion) \div (TotalProportions * TicketsPerBlock)

TreasuryShare(full, h, voters) ==
    LET share == (full * TreasuryProportion) \div TotalProportions
    IN  IF h <= 0 THEN 0
        ELSE IF h < StakeValidationHeight THEN share
        ELSE IF voters < MinVotesRequired THEN 0
        ELSE (voters * share) \div TicketsPerBlock

FullSubsidy(h) == CalcBlockSubsidy(NewSubsidyCache, h).subsidy
CalcWorkSubsidy(h, voters) == WorkShare(FullSubsidy(h), h, voters)
CalcStakeVoteSubsidy(h) == StakeVoteShare(FullSubsidy(h), h)
CalcTreasurySubsidy(h, voters) == TreasuryShare(FullSubsidy(h), h, voters)

\* Whatever the calls before it were, a call gives what a fresh computation from
\* the base subsidy gives.
Cached(calls) == FoldLeft(LAMBDA c, h : CalcBlockSubsidy(c, h).cache, NewSubsidyCache, calls)
SubsidyIsOrderFree(calls, h) ==
    CalcBlockSubsidy(Cached(calls), h).subsidy = Reduced(BaseSubsidy, Interval(h)).subsidy

-----------------------------------------------------------------------------
Genesis == [id |-> <<>>, height |-> 0, approves |-> TRUE, voters |-> 0,
            stxs |-> <<>>, txs |-> <<>>]

BlockAt(c, h) == IF h = 0 THEN Genesis ELSE c[h]
Tip(c) == BlockAt(c, Len(c))
JournalAt(j, h) == IF h = 0 THEN <<>> ELSE j[h]

SumOver(S, f(_)) == FoldSet(LAMBDA x, n : n + f(x), 0, S)
TotalOut(tx) == SumOver(DOMAIN tx.outs, LAMBDA i : tx.outs[i].value)
MaxTxs(c) == Max({0} \cup {Len(c[h].txs \o c[h].stxs) : h \in DOMAIN c})

(***************************************************************************)
(* Rules that need nothing but the block (checkBlockSanity and what it     *)
(* calls) and its place in the chain.                                      *)
(***************************************************************************)
OfKind(txs, kind) == Cardinality({i \in DOMAIN txs : txs[i].kind = kind})

CheckTransactionSanity(tx) ==
    /\ tx.outs # <<>>
    /\ \A i \in DOMAIN tx.outs : tx.outs[i].value >= 0
    /\ tx.kind \in {"coinbase", "regular"} =>
         \A i \in DOMAIN tx.outs : tx.outs[i].class \in {"normal", "nulldata"}
    /\ \A i, j \in DOMAIN tx.ins :
         <<tx.ins[i].tx, tx.ins[i].idx>> = <<tx.ins[j].tx, tx.ins[j].idx>> => i = j

\* checkProofOfStake: what a ticket pays is at least the header's price.
checkProofOfStake(b) ==
    \A i \in DOMAIN b.stxs :
      IsSStx(b.stxs[i]) => b.stxs[i].outs[1].value >= MinimumStakeDiff

checkBlockHeaderSanity(b) ==
    /\ b.height < StakeValidationHeight => b.voters = 0 /\ b.approves
    /\ b.height >= StakeValidationHeight => b.voters >= MinVotesRequired
    /\ b.voters <= TicketsPerBlock
    /\ OfKind(b.stxs, "ticket") <= MaxFreshStakePerBlock

checkBlockSanity(b, parent) ==
    LET votes == {i \in DOMAIN b.stxs : IsSSGen(b.stxs[i])}
        yes   == {i \in votes : b.stxs[i].approves}
        all   == b.txs \o b.stxs
    IN  /\ checkBlockHeaderSanity(b)
        /\ checkProofOfStake(b)
        /\ b.txs # <<>> /\ IsCoinBase(b.txs[1])
        /\ \A i \in 2..Len(b.txs) : b.txs[i].kind = "regular"
        /\ \A i \in DOMAIN b.stxs : b.stxs[i].kind \in {"ticket", "vote", "revocation"}
        /\ \A i \in DOMAIN all : CheckTransactionSanity(all[i])
        /\ OfKind(b.stxs, "revocation") <= MaxRevocationsPerBlock
        /\ b.voters = Cardinality(votes)
        /\ b.height >= StakeValidationHeight =>
             /\ \A i \in votes : b.stxs[i].votedOn = parent.id
             /\ b.approves = (2 * Cardinality(yes) > Cardinality(votes))
        /\ b.height < StakeValidationHeight => OfKind(b.stxs, "ticket") = Len(b.stxs)
        /\ \A i, j \in DOMAIN all : all[i].id = all[j].id => i = j

IsExpired(tx, h) == tx.expiry # 0 /\ h >= tx.expiry

checkBlockPositional(b) ==
    \A i \in DOMAIN (b.txs \o b.stxs) : ~IsExpired((b.txs \o b.stxs)[i], b.height)

\* Only tickets drawn for the block vote in it, only missed ones are revoked.
checkAllowedVotes(b) ==
    \A i \in DOMAIN b.stxs :
      IsSSGen(b.stxs[i]) => b.stxs[i].ins[1].tx \in Winners(b.height)

checkAllowedRevocations(b) ==
    \A i \in DOMAIN b.stxs :
      IsSSRtx(b.stxs[i]) => b.stxs[i].ins[1].tx \in Missed(b.height)

\* What maybeAcceptBlock requires before a block may be connected.
Acceptable(b, parent) ==
    /\ b.height = parent.height + 1
    /\ checkBlockSanity(b, parent)
    /\ checkBlockPositional(b)
    /\ b.height >= StakeValidationHeight =>
         checkAllowedVotes(b) /\ checkAllowedRevocations(b)

(***************************************************************************)
(* Rules about the inputs of a transaction, given the view.                *)
(***************************************************************************)
Amount(view0, in) == view0[in.tx].outs[in.idx].value
Class(view0, in) == view0[in.tx].outs[in.idx].class
Age(view0, in, h) == h - view0[in.tx].height

InputExists(view0, in) ==
    Lookup(view0, in.tx) # NoEntry /\ ~IsOutputSpent(view0[in.tx], in.idx)

\* An input pays exactly its commitment and its change.
checkTicketPurchaseInputs(tx, view0) ==
    /\ Len(tx.outs) = 2 * Len(tx.ins) + 1
    /\ \A k \in DOMAIN tx.ins :
         /\ InputExists(view0, tx.ins[k])
         /\ Class(view0, tx.ins[k]) \in {"normal", "gen", "revoke", "change"}
         /\ Amount(view0, tx.ins[k]) = tx.outs[2 * k].commit + tx.outs[2 * k + 1].value

checkTicketSubmissionInput(entry) ==
    entry.kind = "ticket" /\ 1 \in DOMAIN entry.outs /\ entry.outs[1].class = "submission"

\* Scaled by 2^32 before the division and back after it, which rounds down.
calcTicketReturnAmount(contribution, paid, subsidy, total) ==
    (contribution * (paid + subsidy)) \div total

\* The payments return to each contributor its part of price and subsidy.
\* A commitment with a fee limit allows the payment to be that much smaller.
checkTicketRedeemerCommitments(ticketOuts, payments, class, subsidy) ==
    LET n     == (Len(ticketOuts) - 1) \div 2
        total == SumOver(1..n, LAMBDA k : ticketOuts[2 * k].commit)
        due(k) == calcTicketReturnAmount(ticketOuts[2 * k].commit, ticketOuts[1].value,
                                         subsidy, total)
    IN  /\ Len(payments) = n
        /\ \A k \in 1..n :
             /\ payments[k].class = class
             /\ payments[k].payee = ticketOuts[2 * k].payee
             /\ payments[k].value <= due(k)
             /\ payments[k].value >= due(k) - ticketOuts[2 * k].feeLimit

\* A vote spends a ticket older than its maturity, gets the subsidy of the
\* block it votes on, and pays as the ticket committed.
checkVoteInputs(tx, h, view0) ==
    LET in == tx.ins[1]
    IN  /\ tx.base = CalcStakeVoteSubsidy(tx.votedHeight)
        /\ in.idx = 1
        /\ Lookup(view0, in.tx) # NoEntry /\ ~IsFullySpent(view0[in.tx])
        /\ checkTicketSubmissionInput(view0[in.tx])
        /\ Age(view0, in, h) >= TicketMaturity + 1
        /\ checkTicketRedeemerCommitments(view0[in.tx].stakeExtra,
             SubSeq(tx.outs, 3, Len(tx.outs)), "gen", tx.base)

checkRevocationInputs(tx, h, view0) ==
    LET in == tx.ins[1]
    IN  /\ in.idx = 1
        /\ Lookup(view0, in.tx) # NoEntry /\ ~IsFullySpent(view0[in.tx])
        /\ checkTicketSubmissionInput(view0[in.tx])
        /\ Age(view0, in, h) >= TicketMaturity + 2
        /\ checkTicketRedeemerCommitments(view0[in.tx].stakeExtra, tx.outs, "revoke", 0)

\* Mutant: the amount the input claims is not compared.
CheckInputUnproved(tx, in, h, view0) ==
    /\ InputExists(view0, in)
    /\ Amount(view0, in) # 0
    /\ view0[in.tx].isCoinBase => Age(view0, in, h) >= CoinbaseMaturity
    /\ Class(view0, in) = "submission" => IsSSGen(tx) \/ IsSSRtx(tx)

\* One input: it is there, has value, its fraud proof is right, it is mature,
\* and a ticket is spent only by a vote or a revocation.
CheckInput(tx, in, h, view0) ==
    /\ InputExists(view0, in)
    /\ Amount(view0, in) # 0
    /\ <<in.value, in.height, in.index>> =
         <<Amount(view0, in), view0[in.tx].height, view0[in.tx].index>>
    /\ view0[in.tx].isCoinBase => Age(view0, in, h) >= CoinbaseMaturity
    /\ view0[in.tx].hasExpiry => Age(view0, in, h) >= CoinbaseMaturity
    /\ in.tree = (IF view0[in.tx].kind = "regular" THEN "regular" ELSE "stake")
    /\ Class(view0, in) = "submission" => IsSSGen(tx) \/ IsSSRtx(tx)
    /\ Class(view0, in) \in {"gen", "revoke", "change"} =>
         Age(view0, in, h) >= SStxChangeMaturity

TotalIn(tx, view0) ==
    (IF IsSSGen(tx) THEN CalcStakeVoteSubsidy(tx.votedHeight) ELSE 0)
      + SumOver(DOMAIN tx.ins, LAMBDA i : Amount(view0, tx.ins[i]))

CheckTransactionInputs(tx, h, view0) ==
    \/ IsCoinBase(tx)
    \/ /\ IsSStx(tx) => checkTicketPurchaseInputs(tx, view0)
       /\ IsSSGen(tx) => checkVoteInputs(tx, h, view0)
       /\ IsSSRtx(tx) => checkRevocationInputs(tx, h, view0)
       /\ \A i \in DOMAIN tx.ins : CheckInput(tx, tx.ins[i], h, view0)
       /\ TotalIn(tx, view0) >= TotalOut(tx)

FeeOf(tx, view0) == IF IsCoinBase(tx) THEN 0 ELSE TotalIn(tx, view0) - TotalOut(tx)

(***************************************************************************)
(* Checking a block against a view while connecting it.                    *)
(***************************************************************************)
CheckAndConnect(s, tx, h, index) ==
    IF ~s.ok \/ ~CheckTransactionInputs(tx, h, s.view) THEN [s EXCEPT !.ok = FALSE]
    ELSE [connectTransaction(s, tx, h, index) EXCEPT !.fees = @ + FeeOf(tx, s.view)]

CheckTree(s, txs, h) ==
    FoldLeftDomain(LAMBDA acc, i : CheckAndConnect(acc, txs[i], h, i), s, txs)

\* checkStakeBaseAmounts and getStakeBaseAmounts: what votes pay beyond their
\* tickets is at most the subsidy, each and together.
StakeBase(tx, view0) == TotalOut(tx) - Amount(view0, tx.ins[1])

checkStakeBaseAmounts(b, view0) ==
    LET votes == {i \in DOMAIN b.stxs : IsSSGen(b.stxs[i])}
        each  == CalcStakeVoteSubsidy(b.height - 1)
    IN  /\ \A i \in votes : StakeBase(b.stxs[i], view0) <= each
        /\ b.height >= StakeValidationHeight =>
             SumOver(votes, LAMBDA i : StakeBase(b.stxs[i], view0)) <= each * b.voters

getStakeTreeFees(b, view0) ==
    SumOver(DOMAIN b.stxs, LAMBDA i :
              SumOver(DOMAIN b.stxs[i].ins, LAMBDA k : Amount(view0, b.stxs[i].ins[k]))
              - TotalOut(b.stxs[i])
              + (IF IsSSGen(b.stxs[i]) THEN CalcStakeVoteSubsidy(b.height - 1) ELSE 0))

\* Fees count by the share of voters once blocks are voted on.
FeesEarned(b, fees) ==
    IF b.height >= StakeValidationHeight THEN (fees * b.voters) \div TicketsPerBlock
    ELSE fees

ExpectedSubsidy(b) ==
    CalcWorkSubsidy(b.height, b.voters) + CalcTreasurySubsidy(b.height, b.voters)
      + (IF b.height = 1 THEN TreasuryInitValue ELSE 0)

CoinbaseInOrder(b, fees) ==
    /\ b.txs[1].base = ExpectedSubsidy(b)
    /\ TotalOut(b.txs[1]) <= ExpectedSubsidy(b) + FeesEarned(b, fees)

coinbasePaysTreasury(b) ==
    b.height > 1 /\ TreasuryProportion # 0 =>
      /\ b.txs[1].outs[1].payee = "treasury"
      /\ b.txs[1].outs[1].value = CalcTreasurySubsidy(b.height, b.voters)

StakeTreeInOrder(b, s) ==
    /\ coinbasePaysTreasury(b) /\ s.ok
    /\ b.height >= StakeValidationHeight => b.stxs # <<>>
    /\ checkStakeBaseAmounts(b, s.view)
    /\ getStakeTreeFees(b, s.view) >= 0

\* The parent's regular tree goes if the block disapproves it, the stake tree
\* is connected and checked, then the regular one.
checkConnectBlock(view0, db, b, parent, parentStxos) ==
    LET s0 == [view |-> view0, stxos |-> <<>>, left |-> <<>>, ok |-> TRUE, fees |-> 0]
        failed == [s0 EXCEPT !.ok = FALSE]
        s1 == IF b.height > 1 /\ ~b.approves
              THEN disconnectDisapprovedBlock(s0, db, parentStxos, parent) ELSE s0
        regularChecked(s3) == IF s3.ok /\ CoinbaseInOrder(b, s3.fees) THEN s3 ELSE failed
        stakeChecked(s2) ==
          IF StakeTreeInOrder(b, s2)
          THEN regularChecked(CheckTree([s2 EXCEPT !.fees = getStakeTreeFees(b, s2.view)],
                                        b.txs, b.height))
          ELSE failed
    IN  stakeChecked(CheckTree([s1 EXCEPT !.view = fetchInputUtxos(@, db, b)],
                               b.stxs, b.height))

(***************************************************************************)
(* The machine.                                                            *)
(***************************************************************************)
Idle == [phase |-> "idle", fork |-> 0, original |-> <<>>, back |-> FALSE]

Push(s, b) ==
    /\ chain' = Append(chain, b)
    /\ journal' = Append(journal, s.stxos)
    /\ utxo' = dbPutUtxoView(utxo, s.view)

Checked(view0, b) ==
    checkConnectBlock(view0, utxo, b, Tip(chain), JournalAt(journal, Len(chain)))

\* The blocks before the start, connected to an empty database.
Replayed(c) ==
    FoldLeftDomain(
        LAMBDA acc, h :
          LET put(s) == [db |-> dbPutUtxoView(acc.db, s.view),
                         journal |-> Append(acc.journal, s.stxos), ok |-> acc.ok /\ s.ok]
          IN  put(checkConnectBlock(EmptyView, acc.db, c[h], BlockAt(c, h - 1),
                                    JournalAt(acc.journal, h - 1))),
        [db |-> EmptyView, journal |-> <<>>, ok |-> TRUE], c)

Init ==
    /\ chain = Prefix
    /\ \E s \in {Replayed(Prefix)} : utxo = s.db /\ journal = s.journal
    /\ view = EmptyView
    /\ reorg = Idle

\* connectBestChain, a block on the tip: a view of its own, then connectBlock.
Extend(b) ==
    /\ reorg.phase = "idle" /\ Len(chain) < MaxLength
    /\ Acceptable(b, Tip(chain))
    /\ \E s \in {Checked(EmptyView, b)} : s.ok /\ Push(s, b)
    /\ UNCHANGED <<view, reorg>>

\* reorganizeChain towards a branch that forks below the tip.
ReorgStart(fork) ==
    /\ reorg.phase = "idle" /\ fork < Len(chain)
    /\ reorg' = [phase |-> "detach", fork |-> fork, back |-> FALSE,
                 original |-> SubSeq(chain, fork + 1, Len(chain))]
    /\ view' = EmptyView
    /\ UNCHANGED <<chain, utxo, journal>>

\* Blocks are taken off the tip one by one, with the same view.  A record
\* that cannot be revived panics: reorganizing back fails too.
Detach ==
    /\ reorg.phase = "detach" /\ Len(chain) > reorg.fork
    /\ LET h == Len(chain) IN
       \E s \in {disconnectBlock(view, utxo, chain[h], BlockAt(chain, h - 1), journal[h])} :
         IF ~s.ok
         THEN reorg' = [reorg EXCEPT !.phase = "panic"]
              /\ UNCHANGED <<chain, utxo, journal, view>>
         ELSE /\ utxo' = dbPutUtxoView(utxo, s.view)
              /\ view' = commit(s.view)
              /\ chain' = SubSeq(chain, 1, h - 1)
              /\ journal' = SubSeq(journal, 1, h - 1)
              /\ UNCHANGED reorg

Detached ==
    /\ reorg.phase = "detach" /\ Len(chain) = reorg.fork
    /\ reorg' = [reorg EXCEPT !.phase = "attach"]
    /\ UNCHANGED <<chain, utxo, journal, view>>

\* A block of the new branch, checked for the first time.  When it breaks a
\* rule the branch is abandoned and the original one comes back.
Attach(b) ==
    /\ reorg.phase = "attach" /\ ~reorg.back /\ Len(chain) < MaxLength
    /\ Acceptable(b, Tip(chain))
    /\ \E s \in {Checked(view, b)} :
         IF s.ok
         THEN Push(s, b) /\ view' = commit(s.view) /\ UNCHANGED reorg
         ELSE /\ reorg' = [reorg EXCEPT !.phase = "detach", !.back = TRUE]
              /\ view' = EmptyView
              /\ UNCHANGED <<chain, utxo, journal>>

\* A block of the original branch, known to be valid: connected unchecked.
AttachKnown ==
    LET k == Len(chain) - reorg.fork + 1
    IN  /\ reorg.phase = "attach" /\ reorg.back /\ k <= Len(reorg.original)
        /\ \E s \in {connectBlock(view, utxo, reorg.original[k], Tip(chain),
                                  JournalAt(journal, Len(chain)))} :
             IF s.ok
             THEN /\ Push(s, reorg.original[k])
                  /\ view' = commit(s.view) /\ UNCHANGED reorg
             ELSE reorg' = [reorg EXCEPT !.phase = "panic"]
                  /\ UNCHANGED <<chain, utxo, journal, view>>

\* The new branch is longer, or as long and forced; or the original is back.
ReorgDone ==
    /\ reorg.phase = "attach"
    /\ IF reorg.back THEN Len(chain) = reorg.fork + Len(reorg.original)
       ELSE Len(chain) >= reorg.fork + Len(reorg.original)
    /\ reorg' = Idle
    /\ view' = EmptyView
    /\ UNCHANGED <<chain, utxo, journal>>

Next ==
    \/ \E b \in Blocks(chain) : Extend(b)
    \/ \E f \in Len(Prefix)..Len(chain) : ReorgStart(f)
    \/ Detach \/ Detached \/ AttachKnown \/ ReorgDone
    \/ \E b \in Blocks(chain) : Attach(b)

Spec == Init /\ [][Next]_vars

(***************************************************************************)
(* What must hold.                                                         *)
(***************************************************************************)
\* The transactions that count: those of every stake tree, and those of the
\* regular trees no child disapproves, with their height and index.
Effective(c) ==
    {<<c[h].stxs[i], h, i>> : <<h, i>> \in {p \in (DOMAIN c) \X (1..MaxTxs(c)) :
                                              p[2] <= Len(c[p[1]].stxs)}}
    \cup
    {<<c[h].txs[i], h, i>> : <<h, i>> \in {p \in (DOMAIN c) \X (1..MaxTxs(c)) :
                                             /\ p[2] <= Len(c[p[1]].txs)
                                             /\ p[1] = Len(c) \/ c[p[1] + 1].approves}}

\* The unspent outputs counted from nothing but the blocks.
ReferenceUtxo(c) ==
    LET spent == {<<in.tx, in.idx>> : in \in UNION {Range(e[1].ins) : e \in Effective(c)}}
        left(tx) == {i \in DOMAIN tx.outs : /\ ~IsUnspendable(tx.outs[i])
                                            /\ <<tx.id, i>> \notin spent}
    IN  {[id |-> e[1].id, height |-> e[2], index |-> e[3],
          isCoinBase |-> IsCoinBase(e[1]), hasExpiry |-> e[1].expiry # 0,
          kind |-> TypeOf(e[1]),
          stakeExtra |-> IF IsSStx(e[1]) THEN e[1].outs ELSE <<>>,
          outs |-> [i \in left(e[1]) |-> Unspent(e[1].outs[i].value, e[1].outs[i].class)]] :
         e \in {x \in Effective(c) : left(x[1]) # {}}}

\* The database holds exactly the outputs that a replay of the main chain from
\* genesis leaves unspent, with the place of their transactions, after every
\* block connected, disapproved, disconnected or connected again, in a
\* reorganization that fails and goes back too; and no record of the spend
\* journal is ever too poor to revive what was spent, or of another length than
\* the block's inputs, which would panic.
UtxoIsReplay ==
    /\ reorg.phase # "panic"
    /\ \A h \in DOMAIN journal : Len(journal[h]) = countSpentOutputs(chain[h])
    /\ {[id |-> t, height |-> utxo[t].height, index |-> utxo[t].index,
         isCoinBase |-> utxo[t].isCoinBase, hasExpiry |-> utxo[t].hasExpiry,
         kind |-> utxo[t].kind, stakeExtra |-> utxo[t].stakeExtra,
         outs |-> utxo[t].outs] : t \in DOMAIN utxo} = ReferenceUtxo(chain)

\* What the view carried through a reorganization still holds after a commit
\* is what the database holds: the next block is checked against the truth.
ViewIsDatabase ==
    \A t \in DOMAIN view :
      /\ view[t] # NoEntry /\ ~view[t].modified
      /\ Serialized(view[t]).outs =
           (IF t \in DOMAIN utxo THEN utxo[t].outs ELSE [i \in {} |-> Unspent(0, "")])
      /\ t \in DOMAIN utxo => <<view[t].height, view[t].index>> =
                               <<utxo[t].height, utxo[t].index>>

\* Nothing is paid out that was not issued: the unspent outputs are worth at
\* most the subsidies of the effective coinbases and of the votes, and every
\* transaction that counts spends outputs that counted before it.
Issued(c) == SumOver(Effective(c), LAMBDA e : e[1].base)

PaidWasIssued ==
    /\ SumOver(DOMAIN utxo, LAMBDA t :
               SumOver(DOMAIN utxo[t].outs, LAMBDA i : utxo[t].outs[i].value))
         <= Issued(chain)
    /\ \A e \in Effective(chain) : \A in \in Range(e[1].ins) :
         \E o \in Effective(chain) :
           /\ o[1].id = in.tx
           /\ in.idx \in DOMAIN o[1].outs /\ o[1].outs[in.idx].value = in.value
           /\ o[2] <= e[2]
=============================================================================
