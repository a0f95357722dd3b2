---------------------------- MODULE AddressRows -----------------------------
(***************************************************************************)
(* The pages of an address: its rows in the addresses table, the views of  *)
(* them (all, credit, debit, and the three that merge the rows of one      *)
(* transaction), and the unconfirmed transactions that are added to them.  *)
(* db/dbtypes/types.go, db/cache/addresscache.go, db/dcrpg/pgblockchain.go *)
(* and db/dcrpg/queries.go.                                                *)
(*                                                                         *)
(* A row is an output that pays the address, or an input that spends one.  *)
(* A transaction is a record of its number, its outputs to the address     *)
(* (index -> value) and its inputs from it (index -> outpoint).            *)
(***************************************************************************)
EXTENDS Integers, Sequences, SequencesExt, FiniteSetsExt, TLC

CONSTANTS Txs,          \* Numbers of the transactions, in the order of their hashes.
          Outs,         \* What a transaction may pay to the address.
          MaxInputs,    \* A transaction spends so many of its outputs,
          MaxTime       \* and no block is later than this.

VARIABLES table,        \* Rows of the address in the main chain.
          mempool,      \* Transactions the mempool monitor still has.
          clock         \* Time of the last block.

addressRowsVars == <<table, mempool, clock>>

AtMost(a, b) == IF a < b THEN a ELSE b
Sorted(S, before(_, _)) == SortSeq(FoldSet(LAMBDA x, s : Append(s, x), <<>>, S), before)
SumOf(rows) == FoldLeft(LAMBDA n, r : n + r.value, 0, rows)

(***************************************************************************)
(* Rows.  `matching' is the spending transaction of an output, or the      *)
(* transaction whose output an input spends; Nothing for an unspent one.   *)
(***************************************************************************)
Nothing == 0

MergedViews == {"merged", "mergedCredit", "mergedDebit"}
Views == {"all", "credit", "debit"} \cup MergedViews
IsMerged(view) == view \in MergedViews

wrongDirection(view, funding) ==
    \/ view \in {"credit", "mergedCredit"} /\ ~funding
    \/ view \in {"debit", "mergedDebit"} /\ funding

Directed(rows, view) == SelectSeq(rows, LAMBDA r : ~wrongDirection(view, r.funding))

\* The query orders by time, latest first, then by hash.
RetrieveAllMainchainAddressTxns(rows) ==
    Sorted(rows, LAMBDA r, s :
      \/ r.time > s.time
      \/ r.time = s.time /\ r.tx < s.tx
      \/ r.time = s.time /\ r.tx = s.tx /\ r.id < s.id)

\* A compact row does not have the row number of the database.
CompactRows(rows) ==
    [i \in DOMAIN rows |-> [f \in DOMAIN rows[i] \ {"id"} |-> rows[i][f]]]
UncompactRows(compact) == [i \in DOMAIN compact |-> compact[i] @@ [id |-> 0]]
Same(rows, others) == CompactRows(rows) = CompactRows(others)

(***************************************************************************)
(* Slices and merges.                                                      *)
(***************************************************************************)
SliceAddressRowsAll(rows, N, offset) ==
    SubSeq(rows, offset + 1, AtMost(offset + N, Len(rows)))

SliceAddressCreditRows(rows, N, offset) ==
    SliceAddressRowsAll(Directed(rows, "credit"), N, offset)
SliceAddressDebitRows(rows, N, offset) ==
    SliceAddressRowsAll(Directed(rows, "debit"), N, offset)

CountCreditDebitRows(rows) ==
    [credit |-> Len(Directed(rows, "credit")), debit |-> Len(Directed(rows, "debit"))]

CountMergedRows(rows, view) ==
    Cardinality({r.tx : r \in ToSet(Directed(rows, view))})

Credit(r) == IF r.funding THEN r.value ELSE 0
Debit(r)  == IF r.funding THEN 0 ELSE r.value

\* One row more: it joins the merged row of its transaction; a transaction
\* without one is left out once there are N, or is skipped while there are
\* fewer than `offset' transactions seen.
MergeRow(acc, r, N, offset) ==
    LET same == {i \in DOMAIN acc.merged : acc.merged[i].tx = r.tx}
        new  == [tx |-> r.tx, time |-> r.time, credit |-> Credit(r), debit |-> Debit(r),
                 count |-> 1, regular |-> r.regular]
    IN  IF same # {}
        THEN [acc EXCEPT !.merged[CHOOSE i \in same : TRUE] =
                [@ EXCEPT !.credit = @ + Credit(r), !.debit = @ + Debit(r), !.count = @ + 1]]
        ELSE IF Len(acc.merged) = N THEN acc
        ELSE IF Cardinality(acc.seen) < offset
        THEN [acc EXCEPT !.seen = @ \cup {r.tx}]
        ELSE [acc EXCEPT !.merged = Append(@, new)]

MergeRowsRange(rows, N, offset, view) ==
    IF N = 0 THEN <<>>
    ELSE FoldLeft(LAMBDA acc, r : MergeRow(acc, r, N, offset),
                  [seen |-> {}, merged |-> <<>>], Directed(rows, view)).merged

MergeRows(rows) == MergeRowsRange(rows, Len(rows) + 1, 0, "merged")

\* A net of zero counts as spending.
UncompactMergedRows(merged) ==
    [i \in DOMAIN merged |->
      LET m == merged[i]
      IN  [id |-> 0, tx |-> m.tx, time |-> m.time, index |-> 0, matching |-> Nothing,
           funding |-> m.credit > m.debit, regular |-> m.regular, merged |-> m.count,
           value |-> IF m.credit > m.debit THEN m.credit - m.debit ELSE m.debit - m.credit]]

NoPage(rows, N, offset) == N = 0 \/ offset >= Len(rows)

\* Mutant: the limit is applied before the rows are divided.
SliceAddressRowsFirst(rows, N, offset, view) ==
    LET page == SliceAddressRowsAll(rows, N, offset)
    IN  IF IsMerged(view) THEN UncompactMergedRows(MergeRowsRange(page, N, 0, view))
        ELSE Directed(page, view)

\* A page of the rows that were just retrieved.
SliceAddressRows(rows, N, offset, view) ==
    CASE NoPage(rows, N, offset) -> <<>>
      [] ~NoPage(rows, N, offset) /\ view = "all" -> SliceAddressRowsAll(rows, N, offset)
      [] ~NoPage(rows, N, offset) /\ view = "credit" -> SliceAddressCreditRows(rows, N, offset)
      [] ~NoPage(rows, N, offset) /\ view = "debit" -> SliceAddressDebitRows(rows, N, offset)
      [] OTHER -> UncompactMergedRows(MergeRowsRange(rows, N, offset, view))

\* A page of the cached rows.
Transactions(compact, N, offset, view) ==
    CASE NoPage(compact, N, offset) -> <<>>
      [] ~NoPage(compact, N, offset) /\ IsMerged(view) ->
           UncompactMergedRows(MergeRowsRange(compact, N, offset, view))
      [] OTHER -> UncompactRows(SliceAddressRowsAll(Directed(compact, view), N, offset))

(***************************************************************************)
(* Counts and balances.                                                    *)
(***************************************************************************)
\* From the table: an output without a spender is unspent, an input with the
\* output it spends counts as spent.
RetrieveAddressBalance(rows) ==
    LET stake(s) == SumOf(SelectSeq(s, LAMBDA r : ~r.regular))
        totals(credits, unspent, spent) ==
          [numSpent |-> Len(spent), numUnspent |-> Len(unspent),
           totalSpent |-> SumOf(spent), totalUnspent |-> SumOf(unspent),
           fromStake |-> stake(credits), toStake |-> stake(spent)]
        of(all) == totals(Directed(all, "credit"),
                          SelectSeq(all, LAMBDA r : r.funding /\ r.matching = Nothing),
                          SelectSeq(all, LAMBDA r : ~r.funding /\ r.matching # Nothing))
    IN  of(RetrieveAllMainchainAddressTxns(rows))

\* From the rows themselves.
ReduceAddressHistory(rows) ==
    [credits |-> Directed(rows, "credit"), debits |-> Directed(rows, "debit"),
     received |-> SumOf(Directed(rows, "credit")), sent |-> SumOf(Directed(rows, "debit")),
     fromStake |-> SumOf(SelectSeq(rows, LAMBDA r : r.funding /\ ~r.regular)),
     toStake |-> SumOf(SelectSeq(rows, LAMBDA r : ~r.funding /\ ~r.regular))]

HistoryBalance(rows) ==
    LET of(info) ==
          [numSpent |-> Len(info.debits), numUnspent |-> Len(info.credits) - Len(info.debits),
           totalSpent |-> info.sent, totalUnspent |-> info.received - info.sent,
           fromStake |-> info.fromStake, toStake |-> info.toStake]
    IN  of(ReduceAddressHistory(rows))

\* A first page with all the rows is enough for the balance.
AddressHistory(rows, N, offset, view) ==
    LET with(page) ==
          [page |-> page,
           balance |-> IF Len(page) < N /\ offset = 0 /\ view = "all" THEN HistoryBalance(page)
                       ELSE RetrieveAddressBalance(rows)]
    IN  with(SliceAddressRows(RetrieveAllMainchainAddressTxns(rows), N, offset, view))

retrieveMergedTxnCount(rows, view) ==
    Cardinality({r.tx : r \in {x \in rows : ~wrongDirection(view, x.funding)}})

nonMergedTxnCount(balance, view) ==
    CASE view = "all"    -> 2 * balance.numSpent + balance.numUnspent
      [] view = "credit" -> balance.numSpent + balance.numUnspent
      [] view = "debit"  -> balance.numSpent

CountTransactions(rows, cached, view) ==
    IF ~IsMerged(view) THEN nonMergedTxnCount(RetrieveAddressBalance(rows), view)
    ELSE IF cached THEN CountMergedRows(RetrieveAllMainchainAddressTxns(rows), view)
    ELSE retrieveMergedTxnCount(rows, view)

(***************************************************************************)
(* Unconfirmed transactions.                                               *)
(***************************************************************************)
Value(rows, pool, outpoint) ==
    IF \E r \in rows : r.funding /\ <<r.tx, r.index>> = outpoint
    THEN (CHOOSE r \in rows : r.funding /\ <<r.tx, r.index>> = outpoint).value
    ELSE (CHOOSE t \in pool : t.id = outpoint[1]).outs[outpoint[2]]

\* The outputs to the address and the inputs from it of the monitor's
\* transactions.
OutsOf(pool) == {x \in pool \X {0, 1} : x[2] \in DOMAIN x[1].outs}
InsOf(pool)  == {x \in pool \X (0..(MaxInputs - 1)) : x[2] \in DOMAIN x[1].ins}
ByHash(S) == Sorted(S, LAMBDA a, b : a[1] < b[1] \/ (a[1] = b[1] /\ a[2] < b[2]))

Outpoints(pool) == ByHash({<<x[1].id, x[2]>> : x \in OutsOf(pool)})
PrevOuts(pool) == ByHash({<<x[1].id, x[2], x[1].ins[x[2]]>> : x \in InsOf(pool)})

\* What is already on the page, at that index of that transaction, is left
\* out: output or input.
Listed(shown, tx, index) == \E r \in ToSet(shown) : r.tx = tx /\ r.index = index

UnconfirmedRow(tx, index, funding, value, matching) ==
    [id |-> 0, tx |-> tx, time |-> MaxTime + 1, index |-> index, funding |-> funding,
     value |-> value, matching |-> matching, regular |-> TRUE, merged |-> 0]

AddFunding(acc, o, rows, pool, view) ==
    LET value == Value(rows, pool, o)
        row   == UnconfirmedRow(o[1], o[2], TRUE, value, Nothing)
    IN  IF Listed(acc.shown, o[1], o[2]) THEN acc
        ELSE [acc EXCEPT !.shown = IF view \in {"all", "credit"} THEN Append(@, row) ELSE @,
                         !.received = @ + value, !.numReceived = @ + 1]

\* The output that is spent, if it is shown, is matched with the spender.
AddSpending(acc, p, rows, pool, view) ==
    LET value == Value(rows, pool, p[3])
        matched(r) == IF r.tx = p[3][1] /\ r.index = p[3][2] /\ r.funding
                      THEN [r EXCEPT !.matching = p[1]] ELSE r
        shown == [i \in DOMAIN acc.shown |-> matched(acc.shown[i])]
        row   == UnconfirmedRow(p[1], p[2], FALSE, value, p[3][1])
    IN  IF Listed(acc.shown, p[1], p[2]) THEN acc
        ELSE [acc EXCEPT !.shown = IF view \in {"all", "debit"} THEN Append(shown, row) ELSE shown,
                         !.sent = @ + value, !.numSent = @ + 1]

\* Latest first.
PostProcess(shown) == SortSeq(shown, LAMBDA r, s :
                        r.time > s.time \/ (r.time = s.time /\ r.index > s.index))

\* Merged views leave the unconfirmed transactions out.
AddressData(rows, pool, N, offset, view) ==
    LET start(page) == [shown |-> page, received |-> 0, sent |-> 0, numReceived |-> 0,
                        numSent |-> 0]
        funded(acc) == FoldLeft(LAMBDA x, o : AddFunding(x, o, rows, pool, view), acc,
                                Outpoints(pool))
        spent(acc)  == FoldLeft(LAMBDA x, p : AddSpending(x, p, rows, pool, view), acc,
                                PrevOuts(pool))
        total(balance, added) ==
          [transactions |-> PostProcess(added.shown),
           balance |-> [balance EXCEPT
             !.numSpent = @ + added.numSent,
             !.numUnspent = @ + added.numReceived - added.numSent,
             !.totalSpent = @ + added.sent,
             !.totalUnspent = @ + added.received - added.sent]]
        of(h) == total(IF h.page = <<>> THEN [f \in DOMAIN h.balance |-> 0] ELSE h.balance,
                       IF IsMerged(view) THEN start(h.page) ELSE spent(funded(start(h.page))))
    IN  of(AddressHistory(rows, N, offset, view))

(***************************************************************************)
(* Transactions arrive, are mined, and leave the mempool.                  *)
(***************************************************************************)
Known == {t.id : t \in mempool} \cup {r.tx : r \in table}
Spendable ==
    ({<<r.tx, r.index>> : r \in {x \in table : x.funding /\ x.matching = Nothing}}
       \cup {<<x[1].id, x[2]>> : x \in OutsOf(mempool)})
      \ {x[1].ins[x[2]] : x \in InsOf(mempool)}

Mined(t) == \E r \in table : r.tx = t.id

Init == table = {} /\ mempool = {} /\ clock = 0

\* A transaction that pays or spends from the address; the one with the
\* highest hash is a stake transaction.
Broadcast ==
    /\ \E id \in Txs \ Known, outs \in Outs, ins \in SUBSET Spendable :
         /\ Cardinality(ins) <= MaxInputs /\ (DOMAIN outs # {} \/ ins # {})
         /\ LET order == ByHash(ins)
            IN  mempool' = mempool \cup {[id |-> id, outs |-> outs, regular |-> id # Max(Txs),
                                          ins |-> [i \in 0..(Len(order) - 1) |-> order[i + 1]]]}
    /\ UNCHANGED <<table, clock>>

\* The rows of a mined transaction; the outputs it spends get their match.
RowsOf(t, time) ==
    LET row(i, funding, value, matching) ==
          [id |-> t.id * 10 + i + (IF funding THEN 0 ELSE 5), tx |-> t.id, time |-> time,
           index |-> i, funding |-> funding, value |-> value, matching |-> matching,
           regular |-> t.regular, merged |-> 0]
    IN  {row(i, TRUE, t.outs[i], Nothing) : i \in DOMAIN t.outs}
          \cup {row(i, FALSE, Value(table, mempool, t.ins[i]), t.ins[i][1]) : i \in DOMAIN t.ins}

StoreBlock(t, time) ==
    LET spends(r) == r.funding /\ \E i \in DOMAIN t.ins : t.ins[i] = <<r.tx, r.index>>
    IN  {IF spends(r) THEN [r EXCEPT !.matching = t.id] ELSE r : r \in table} \cup RowsOf(t, time)

\* The parents of a mined transaction are mined; blocks may have equal times.
Mine ==
    /\ \E t \in mempool, time \in {clock, clock + 1} :
         /\ time \in 1..MaxTime /\ ~Mined(t)
         /\ \A i \in DOMAIN t.ins : \E r \in table : r.funding /\ <<r.tx, r.index>> = t.ins[i]
         /\ clock' = time /\ table' = StoreBlock(t, time)
    /\ UNCHANGED mempool

\* The monitor collects the mempool again, without what was mined.
Refresh ==
    /\ \E t \in mempool : Mined(t)
    /\ mempool' = {t \in mempool : ~Mined(t)}
    /\ UNCHANGED <<table, clock>>

Next == Broadcast \/ Mine \/ Refresh

Spec == Init /\ [][Next]_addressRowsVars

(***************************************************************************)
(* What must hold.                                                         *)
(***************************************************************************)
Pages(rows, N, view) ==
    LET page(i) == SliceAddressRows(rows, N, (i - 1) * N, view)
    IN  FlattenSeq([i \in 1..(Len(rows) + 1) |-> page(i)])

\* Of a view that does not merge, the pages one after the other are the rows
\* of the view, each once, and as many as CountTransactions says, whatever the
\* size of a page; a cached page is the page of the database, also of the
\* merged views, and so are the counts; and a first page gives the balance that
\* the table gives.
PagesAddUp ==
    \E rows \in {RetrieveAllMainchainAddressTxns(table)} :
        /\ \A view \in Views \ MergedViews, N \in 1..2 :
             /\ Pages(rows, N, view) = Directed(rows, view)
             /\ Len(Directed(rows, view)) = CountTransactions(table, FALSE, view)
        /\ \A view \in Views, N \in 0..2, offset \in {0, 1, 3} :
             Same(SliceAddressRows(rows, N, offset, view),
                  Transactions(CompactRows(rows), N, offset, view))
        /\ \A view \in MergedViews :
             /\ Len(SliceAddressRows(rows, Len(rows) + 1, 0, view)) = CountTransactions(table, FALSE, view)
             /\ CountTransactions(table, TRUE, view) = CountTransactions(table, FALSE, view)
        /\ Len(MergeRows(rows)) = CountTransactions(table, FALSE, "merged")
        /\ CountCreditDebitRows(rows) = [credit |-> CountTransactions(table, TRUE, "credit"),
                                         debit |-> CountTransactions(table, TRUE, "debit")]
        /\ AddressHistory(table, Len(rows) + 1, 0, "all").balance = RetrieveAddressBalance(table)

\* An unconfirmed transaction is added to the balance and to the page once,
\* also when it was mined and is still in the mempool, unless an input and an
\* output of it have the same index.
UnconfirmedCountedOnce ==
    LET pending == {t \in mempool : ~Mined(t)}
        in   == MapThenSumSet(LAMBDA x : x[1].outs[x[2]], OutsOf(pending))
        out  == MapThenSumSet(LAMBDA x : Value(table, mempool, x[1].ins[x[2]]), InsOf(pending))
    IN  (\A t \in mempool : DOMAIN t.ins \cap DOMAIN t.outs = {}) =>
        \E data \in {AddressData(table, mempool, Cardinality(table) + 1, 0, "all")},
           base \in {RetrieveAddressBalance(table)} :
          /\ data.balance.totalUnspent = base.totalUnspent + in - out
          /\ data.balance.numSpent = base.numSpent + Cardinality(InsOf(pending))
          /\ Len(data.transactions)
               = Cardinality(table) + Cardinality(OutsOf(pending)) + Cardinality(InsOf(pending))
=============================================================================
