---------------------------- MODULE MempoolProofs ----------------------------
(***************************************************************************)
(* That the mempool monitor keeps track of the node's mempool, for every   *)
(* set of transactions, every number of blocks and of latest transactions  *)
(* kept, and every order of what the node does and the monitor asks.       *)
(***************************************************************************)
EXTENDS Mempool, FiniteSetTheorems, TLAPS

-----------------------------------------------------------------------------
(* Ranks: how many transactions of a set are newer. *)

Distinct(S, times) == \A t, u \in S : times[t] = times[u] => t = u
Rank(S, times, tx) == Cardinality(Newer(S, times, tx))

\* The list kept of the latest transactions.
Kept(n) == IF n > NumLatestMempoolTxns THEN NumLatestMempoolTxns ELSE n
Ranked(l, S, times) ==
    /\ l \in Seq(S) /\ Len(l) = Kept(Cardinality(S))
    /\ \A i \in 1 .. Len(l) : Rank(S, times, l[i]) = i - 1

\* A transaction has a rank below the size of the set, and a newer one a
\* smaller rank.
LEMMA RankOrder ==
    ASSUME NEW S \in SUBSET Txs, IsFiniteSet(S), NEW times \in [Txs -> Nat], NEW t \in S
    PROVE  /\ Rank(S, times, t) \in 0 .. Cardinality(S) - 1
           /\ \A u \in S : times[t] > times[u] => Rank(S, times, t) < Rank(S, times, u)
<1>1. IsFiniteSet(S \ {t}) /\ Cardinality(S \ {t}) = Cardinality(S) - 1
  BY FS_RemoveElement
<1>2. Cardinality(S) \in Nat
  BY FS_CardinalityType
<1>3. Newer(S, times, t) \in SUBSET (S \ {t})
  BY DEF Newer
<1>4. Rank(S, times, t) \in Nat /\ Rank(S, times, t) <= Cardinality(S) - 1
  BY <1>1, <1>3, FS_Subset, FS_CardinalityType DEF Rank
<1>5. ASSUME NEW u \in S, times[t] > times[u] PROVE Rank(S, times, t) < Rank(S, times, u)
  <2>1. Newer(S, times, t) \in SUBSET Newer(S, times, u) /\ t \in Newer(S, times, u)
        /\ t \notin Newer(S, times, t)
    BY <1>5 DEF Newer
  <2>2. IsFiniteSet(Newer(S, times, u))
    BY FS_Subset DEF Newer
  <2>3. IsFiniteSet(Newer(S, times, t))
    BY <2>1, <2>2, FS_Subset
  <2>4. Cardinality(Newer(S, times, u)) \in Nat /\ Cardinality(Newer(S, times, t)) \in Nat
    BY <2>2, <2>3, FS_CardinalityType
  <2>. QED BY <2>1, <2>2, <2>4, FS_Subset DEF Rank
<1>. QED BY <1>2, <1>4, <1>5

\* Transactions of one rank are one.
LEMMA RankUnique ==
    ASSUME NEW S \in SUBSET Txs, IsFiniteSet(S), NEW times \in [Txs -> Nat], Distinct(S, times),
           NEW t \in S, NEW u \in S, Rank(S, times, t) = Rank(S, times, u)
    PROVE  t = u
<1>1. Rank(S, times, t) \in Int /\ Rank(S, times, u) \in Int
  BY RankOrder, FS_CardinalityType
<1>2. times[t] \in Nat /\ times[u] \in Nat
  OBVIOUS
<1>3. ~(times[t] > times[u]) /\ ~(times[u] > times[t])
  BY <1>1, RankOrder
<1>. QED BY <1>2, <1>3 DEF Distinct

\* Every rank occurs.
LEMMA RankExists ==
    ASSUME NEW S \in SUBSET Txs, IsFiniteSet(S), NEW times \in [Txs -> Nat], Distinct(S, times),
           NEW i \in 1 .. Cardinality(S)
    PROVE  \E t \in S : Rank(S, times, t) = i - 1
<1>. DEFINE f == [t \in S |-> Rank(S, times, t)]
            n == Cardinality(S)
<1>1. n \in Nat
  BY FS_CardinalityType
<1>2. f \in [S -> 0 .. n - 1]
  BY RankOrder
<1>3. f \in Injection(S, 0 .. n - 1)
  BY <1>2, RankUnique DEF Injection, IsInjective
<1>4. IsFiniteSet(0 .. n - 1) /\ Cardinality(0 .. n - 1) = n
  <2>1. 0 \in Int /\ n - 1 \in Int /\ (IF 0 > n - 1 THEN 0 ELSE (n - 1) - 0 + 1) = n
    BY <1>1
  <2>. HIDE DEF n
  <2>. QED BY <2>1, FS_Interval
<1>5. f \in Surjection(S, 0 .. n - 1)
  BY <1>3, <1>4, FS_Injection
<1>6. PICK t \in S : f[t] = i - 1
  <2>1. i - 1 \in 0 .. n - 1
    BY <1>1
  <2>. HIDE DEF f, n
  <2>. QED BY <1>5, <2>1 DEF Surjection
<1>. QED BY <1>6

\* ParseTxns keeps the latest transactions.
LEMMA ByTimeRanked ==
    ASSUME NEW S \in SUBSET Txs, IsFiniteSet(S), NEW times \in [Txs -> Nat], Distinct(S, times)
    PROVE  LET s == ByTime(S, times) IN
             /\ s \in Seq(S) /\ Len(s) = Cardinality(S)
             /\ Ranked(SubSeq(s, 1, Kept(Len(s))), S, times)
<1>. DEFINE n == Cardinality(S)
            s == ByTime(S, times)
<1>1. n \in Nat
  BY FS_CardinalityType
<1>2. \A i \in 1 .. n : s[i] \in S /\ Rank(S, times, s[i]) = i - 1
  <2>. TAKE i \in 1 .. n
  <2>1. \E t \in S : Cardinality(Newer(S, times, t)) = i - 1
    BY RankExists DEF Rank
  <2>2. s[i] = CHOOSE t \in S : Cardinality(Newer(S, times, t)) = i - 1
    BY DEF ByTime
  <2>. QED BY <2>1, <2>2 DEF Rank
<1>3. s \in [1 .. n -> S]
  BY <1>2 DEF ByTime
<1>4. s \in Seq(S) /\ Len(s) = n
  BY <1>1, <1>3
<1>5. Kept(n) \in 0 .. n
  BY <1>1, MempoolAssumption DEF Kept
<1>6. SubSeq(s, 1, Kept(n)) \in Seq(S) /\ Len(SubSeq(s, 1, Kept(n))) = Kept(n)
      /\ \A i \in 1 .. Kept(n) : SubSeq(s, 1, Kept(n))[i] = s[i]
  BY <1>1, <1>4, <1>5
<1>. QED BY <1>1, <1>2, <1>4, <1>5, <1>6 DEF Ranked

\* There is one such list.
LEMMA RankedUnique ==
    ASSUME NEW S \in SUBSET Txs, IsFiniteSet(S), NEW times \in [Txs -> Nat], Distinct(S, times),
           NEW l, NEW m, Ranked(l, S, times), Ranked(m, S, times)
    PROVE  l = m
<1>1. l \in Seq(S) /\ m \in Seq(S) /\ Len(l) = Len(m)
  BY DEF Ranked
<1>2. ASSUME NEW i \in 1 .. Len(l) PROVE l[i] = m[i]
  <2>1. l[i] \in S /\ m[i] \in S /\ Rank(S, times, l[i]) = Rank(S, times, m[i])
    BY <1>1 DEF Ranked
  <2>. QED BY <2>1, RankUnique
<1>. QED BY <1>1, <1>2

\* It depends on the times of its set only.
LEMMA RankedSame ==
    ASSUME NEW S, NEW l, NEW times, NEW later, \A t \in S : later[t] = times[t],
           Ranked(l, S, times)
    PROVE  Ranked(l, S, later)
<1>1. \A t \in S : Newer(S, later, t) = Newer(S, times, t)
  BY DEF Newer
<1>2. \A i \in 1 .. Len(l) : l[i] \in S
  BY DEF Ranked
<1>. QED BY <1>1, <1>2 DEF Ranked, Rank

\* TxHandler puts a transaction that is newer than all in front.
LEMMA RankedAdd ==
    ASSUME NEW S \in SUBSET Txs, IsFiniteSet(S), NEW times \in [Txs -> Nat], NEW l,
           Ranked(l, S, times), NEW tx \in Txs, \A t \in S : times[t] < times[tx]
    PROVE  Ranked(<<tx>> \o SubSeq(l, 1, IF Len(l) >= NumLatestMempoolTxns THEN Len(l) - 1 ELSE Len(l)),
                  S \cup {tx}, times)
<1>. DEFINE T == S \cup {tx}
            k == IF Len(l) >= NumLatestMempoolTxns THEN Len(l) - 1 ELSE Len(l)
            m == <<tx>> \o SubSeq(l, 1, k)
            n == Cardinality(S)
<1>1. tx \notin S /\ n \in Nat /\ IsFiniteSet(T) /\ Cardinality(T) = n + 1
  BY FS_AddElement, FS_CardinalityType
<1>2. l \in Seq(S) /\ Len(l) = Kept(n) /\ Len(l) \in Nat
  BY DEF Ranked
<1>3. k \in 0 .. Len(l) /\ k + 1 = Kept(n + 1)
  BY <1>1, <1>2, MempoolAssumption DEF Kept
<1>4. m \in Seq(T) /\ Len(m) = k + 1 /\ m[1] = tx /\ \A i \in 2 .. k + 1 : m[i] = l[i - 1]
  <2>1. SubSeq(l, 1, k) \in Seq(S) /\ Len(SubSeq(l, 1, k)) = k
        /\ \A i \in 1 .. k : SubSeq(l, 1, k)[i] = l[i]
    BY <1>2, <1>3
  <2>2. SubSeq(l, 1, k) \in Seq(T) /\ <<tx>> \in Seq(T) /\ Len(<<tx>>) = 1
    BY <2>1
  <2>. QED BY <1>3, <2>1, <2>2
<1>5. Rank(T, times, tx) = 0
  <2>1. Newer(T, times, tx) = {}
    BY DEF Newer
  <2>. QED BY <2>1, FS_EmptySet DEF Rank
<1>6. ASSUME NEW t \in S PROVE Rank(T, times, t) = Rank(S, times, t) + 1
  <2>1. Newer(T, times, t) = Newer(S, times, t) \cup {tx} /\ tx \notin Newer(S, times, t)
    BY <1>1 DEF Newer
  <2>2. IsFiniteSet(Newer(S, times, t))
    BY FS_Subset DEF Newer
  <2>. QED BY <2>1, <2>2, FS_AddElement DEF Rank
<1>7. ASSUME NEW i \in 1 .. Len(m) PROVE Rank(T, times, m[i]) = i - 1
  <2>1. CASE i = 1
    BY <1>4, <1>5, <2>1
  <2>2. CASE i # 1
    <3>1. i \in 2 .. k + 1 /\ i - 1 \in 1 .. Len(l)
      BY <1>3, <1>4, <2>2
    <3>2. m[i] = l[i - 1] /\ l[i - 1] \in S /\ Rank(S, times, l[i - 1]) = (i - 1) - 1
      BY <1>2, <1>4, <3>1 DEF Ranked
    <3>3. Rank(T, times, l[i - 1]) = Rank(S, times, l[i - 1]) + 1
      BY <1>6, <3>2
    <3>4. ((i - 1) - 1) + 1 = i - 1
      BY <3>1
    <3>. HIDE DEF m, T
    <3>. QED BY <3>2, <3>3, <3>4
  <2>. QED BY <2>1, <2>2
<1>. QED BY <1>1, <1>3, <1>4, <1>7 DEF Ranked

-----------------------------------------------------------------------------
(* The inventory. *)

Votes(S) == {tx \in S : tx.kind = "vote"}
Others(S) == {tx \in S : tx.kind # "vote"}
VotedOn(S, height) == {tx.ticket : tx \in {t \in S : ForBlock(t, height)}}
TicketsOf == {tx.ticket : tx \in Txs}

Inventory == [ident : Nat, txs : SUBSET Txs, latest : Seq(Txs), numAll : Nat, numVotes : Nat,
              voted : SUBSET TicketsOf, ticketsVoted : Nat, likely : Nat]

\* The counts are those of the transactions.
Tallied(inv, height) ==
    /\ inv.numAll = Cardinality(inv.txs)
    /\ inv.numVotes = Cardinality(Votes(inv.txs))
    /\ inv.voted = VotedOn(inv.txs, height)
    /\ inv.ticketsVoted = Cardinality(inv.voted)
    /\ inv.likely = Cardinality(Others(inv.txs)) + Cardinality(inv.voted)

\* The sets that are counted are finite.
LEMMA CountsFinite ==
    ASSUME NEW S \in SUBSET Txs, IsFiniteSet(S), NEW height
    PROVE  /\ IsFiniteSet(Votes(S)) /\ IsFiniteSet(Others(S)) /\ IsFiniteSet(VotedOn(S, height))
           /\ Cardinality(S) \in Nat /\ Cardinality(Votes(S)) \in Nat
           /\ Cardinality(Others(S)) \in Nat /\ Cardinality(VotedOn(S, height)) \in Nat
           /\ VotedOn(S, height) \in SUBSET TicketsOf
<1>1. IsFiniteSet(Votes(S)) /\ IsFiniteSet(Others(S))
  BY FS_Subset DEF Votes, Others
<1>. DEFINE O == {t \in S : ForBlock(t, height)}
            f == [tx \in O |-> tx.ticket]
<1>2. IsFiniteSet(O)
  BY FS_Subset
<1>3. f \in Surjection(O, VotedOn(S, height))
  BY DEF Surjection, VotedOn
<1>4. IsFiniteSet(VotedOn(S, height))
  BY <1>2, <1>3, FS_Surjection
<1>5. VotedOn(S, height) \in SUBSET TicketsOf
  BY DEF VotedOn, TicketsOf
<1>. QED BY <1>1, <1>4, <1>5, FS_CardinalityType

\* What ParseTxns makes of a collection.
LEMMA Parsed ==
    ASSUME NEW S \in SUBSET Txs, IsFiniteSet(S), NEW times \in [Txs -> Nat], Distinct(S, times),
           NEW height, NEW ident \in Nat
    PROVE  LET inv == ParseTxns(S, times, height, ident)
           IN /\ inv \in Inventory /\ Tallied(inv, height) /\ inv.txs = S
              /\ Ranked(inv.latest, S, times)
<1>. DEFINE s == ByTime(S, times)
            inv == ParseTxns(S, times, height, ident)
<1>1. s \in Seq(S) /\ Len(s) = Cardinality(S) /\ Ranked(SubSeq(s, 1, Kept(Len(s))), S, times)
  BY ByTimeRanked
<1>2. inv = [ident |-> ident, txs |-> S, latest |-> SubSeq(s, 1, Kept(Len(s))),
             numAll |-> Cardinality(S), numVotes |-> Cardinality(Votes(S)),
             voted |-> VotedOn(S, height), ticketsVoted |-> Cardinality(VotedOn(S, height)),
             likely |-> Cardinality(Others(S)) + Cardinality(VotedOn(S, height))]
  BY DEF ParseTxns, Kept, Votes, Others, VotedOn
<1>3. SubSeq(s, 1, Kept(Len(s))) \in Seq(Txs)
  <2>1. SubSeq(s, 1, Kept(Len(s))) \in Seq(S)
    BY <1>1 DEF Ranked
  <2>. QED BY <2>1
<1>. HIDE DEF inv, s
<1>4. inv \in Inventory
  BY <1>2, <1>3, CountsFinite DEF Inventory
<1>5. Tallied(inv, height)
  BY <1>2 DEF Tallied
<1>. QED BY <1>1, <1>2, <1>4, <1>5 DEF inv

\* The front of a list.
LEMMA FrontOf ==
    ASSUME NEW S, NEW l \in Seq(S), NEW k \in 0 .. Len(l)
    PROVE  SubSeq(l, 1, k) \in Seq(S)
OBVIOUS

\* What TxHandler makes of one more transaction.
LEMMA CountedOnce ==
    ASSUME NEW inv \in Inventory, IsFiniteSet(inv.txs), lastBlock.height \in Nat,
           Tallied(inv, lastBlock.height), NEW tx \in Txs, tx \notin inv.txs,
           \A i \in DOMAIN inv.latest : inv.latest[i] \in inv.txs
    PROVE  LET new == Counted(inv, tx)
           IN /\ new \in Inventory /\ Tallied(new, lastBlock.height)
              /\ new.txs = inv.txs \cup {tx} /\ IsFiniteSet(new.txs)
              /\ new.latest = <<tx>> \o SubSeq(inv.latest, 1,
                   IF Len(inv.latest) >= NumLatestMempoolTxns THEN Len(inv.latest) - 1 ELSE Len(inv.latest))
              /\ \A i \in DOMAIN new.latest : new.latest[i] \in new.txs
<1>. DEFINE h == lastBlock.height
            S == inv.txs
            T == S \cup {tx}
            V == inv.voted
            counts == ForBlock(tx, h) /\ tx.ticket \notin V
            k == IF Len(inv.latest) >= NumLatestMempoolTxns THEN Len(inv.latest) - 1 ELSE Len(inv.latest)
            front == <<tx>> \o SubSeq(inv.latest, 1, k)
            new == Counted(inv, tx)
<1>1. new = [ident |-> inv.ident + 1, txs |-> T, latest |-> front, numAll |-> inv.numAll + 1,
             numVotes |-> IF tx.kind = "vote" THEN inv.numVotes + 1 ELSE inv.numVotes,
             voted |-> IF counts THEN V \cup {tx.ticket} ELSE V,
             ticketsVoted |-> IF counts THEN inv.ticketsVoted + 1 ELSE inv.ticketsVoted,
             likely |-> IF tx.kind # "vote" \/ counts THEN inv.likely + 1 ELSE inv.likely]
  <2>1. inv = [ident |-> inv.ident, txs |-> inv.txs, latest |-> inv.latest, numAll |-> inv.numAll,
               numVotes |-> inv.numVotes, voted |-> inv.voted, ticketsVoted |-> inv.ticketsVoted,
               likely |-> inv.likely]
    BY DEF Inventory
  <2>2. new = [inv EXCEPT !.ident = @ + 1, !.txs = @ \cup {tx}, !.latest = front, !.numAll = @ + 1,
                 !.numVotes = IF tx.kind = "vote" THEN @ + 1 ELSE @,
                 !.voted = IF counts THEN @ \cup {tx.ticket} ELSE @,
                 !.ticketsVoted = IF counts THEN @ + 1 ELSE @,
                 !.likely = IF tx.kind # "vote" \/ counts THEN @ + 1 ELSE @]
    BY DEF Counted
  <2>. HIDE DEF new, front, counts
  <2>. QED BY <2>1, <2>2
<1>2. S \in SUBSET Txs /\ inv.latest \in Seq(Txs) /\ inv.latest \in Seq(S)
  BY DEF Inventory
<1>3. IsFiniteSet(T) /\ Cardinality(T) = Cardinality(S) + 1 /\ T \in SUBSET Txs
  BY <1>2, FS_AddElement
<1>4. Cardinality(Votes(T)) = IF tx.kind = "vote" THEN Cardinality(Votes(S)) + 1 ELSE Cardinality(Votes(S))
  <2>1. CASE tx.kind = "vote"
    <3>1. Votes(T) = Votes(S) \cup {tx} /\ tx \notin Votes(S)
      BY <2>1 DEF Votes
    <3>. QED BY <1>2, <2>1, <3>1, FS_AddElement, CountsFinite
  <2>2. CASE tx.kind # "vote"
    <3>1. Votes(T) = Votes(S)
      BY <2>2 DEF Votes
    <3>. QED BY <2>2, <3>1
  <2>. QED BY <2>1, <2>2
<1>5. Cardinality(Others(T)) = IF tx.kind # "vote" THEN Cardinality(Others(S)) + 1 ELSE Cardinality(Others(S))
  <2>1. CASE tx.kind # "vote"
    <3>1. Others(T) = Others(S) \cup {tx} /\ tx \notin Others(S)
      BY <2>1 DEF Others
    <3>. QED BY <1>2, <2>1, <3>1, FS_AddElement, CountsFinite
  <2>2. CASE tx.kind = "vote"
    <3>1. Others(T) = Others(S)
      BY <2>2 DEF Others
    <3>. QED BY <2>2, <3>1
  <2>. QED BY <2>1, <2>2
<1>6. V = VotedOn(S, h) /\ IsFiniteSet(V)
  BY <1>2, CountsFinite DEF Tallied
<1>7. VotedOn(T, h) = IF counts THEN V \cup {tx.ticket} ELSE V
  <2>1. CASE ForBlock(tx, h)
    <3>1. VotedOn(T, h) = V \cup {tx.ticket}
      BY <1>6, <2>1 DEF VotedOn
    <3>. QED BY <2>1, <3>1
  <2>2. CASE ~ForBlock(tx, h)
    BY <1>6, <2>2 DEF VotedOn
  <2>. QED BY <2>1, <2>2
<1>8. Cardinality(VotedOn(T, h)) = IF counts THEN Cardinality(V) + 1 ELSE Cardinality(V)
  BY <1>6, <1>7, FS_AddElement
<1>9. counts => tx.kind = "vote"
  BY DEF ForBlock
<1>10. k \in 0 .. Len(inv.latest)
  BY <1>2, MempoolAssumption
<1>11. front \in Seq(T) /\ front \in Seq(Txs)
  <2>1. SubSeq(inv.latest, 1, k) \in Seq(S)
    BY <1>2, <1>10, FrontOf
  <2>. QED BY <1>2, <2>1
<1>. HIDE DEF new, front, counts, T
<1>12. new \in Inventory
  <2>1. V \in SUBSET TicketsOf /\ tx.ticket \in TicketsOf
    BY DEF Inventory, TicketsOf
  <2>2. inv.ident \in Nat /\ inv.numAll \in Nat /\ inv.numVotes \in Nat /\ inv.ticketsVoted \in Nat
        /\ inv.likely \in Nat
    BY DEF Inventory
  <2>. QED BY <1>1, <1>3, <1>11, <2>1, <2>2 DEF Inventory
<1>13. Tallied(new, h)
  <2>1. inv.numAll = Cardinality(S) /\ inv.numVotes = Cardinality(Votes(S))
        /\ inv.ticketsVoted = Cardinality(V) /\ inv.likely = Cardinality(Others(S)) + Cardinality(V)
    BY DEF Tallied
  <2>2. Cardinality(Others(S)) \in Nat /\ Cardinality(V) \in Nat
    BY <1>2, <1>6, CountsFinite
  <2>3. new.txs = T /\ new.numAll = Cardinality(T) /\ new.numVotes = Cardinality(Votes(T))
    BY <1>1, <1>3, <1>4, <2>1
  <2>4. new.voted = VotedOn(T, h) /\ new.ticketsVoted = Cardinality(VotedOn(T, h))
    BY <1>1, <1>7, <1>8, <2>1
  <2>5. new.likely = Cardinality(Others(T)) + Cardinality(VotedOn(T, h))
    BY <1>1, <1>5, <1>8, <1>9, <2>1, <2>2
  <2>. QED BY <2>3, <2>4, <2>5 DEF Tallied
<1>14. \A i \in DOMAIN front : front[i] \in T
  BY <1>11
<1>15. new.txs = T /\ new.latest = front
  BY <1>1
<1>16. /\ new \in Inventory /\ Tallied(new, lastBlock.height)
       /\ new.txs = inv.txs \cup {tx} /\ IsFiniteSet(new.txs) /\ new.latest = front
       /\ \A i \in DOMAIN new.latest : new.latest[i] \in new.txs
  BY <1>3, <1>12, <1>13, <1>14, <1>15 DEF T
<1>. QED BY <1>16 DEF new, front

-----------------------------------------------------------------------------
(* The invariant. *)

Block == [height : Nat, time : Nat]
Notifications == [kind : {"tx"}, tx : Txs] \cup [kind : {"block"}]
IsTx(m) == m.kind = "tx"

\* The node gives every transaction it accepts a time of its own, and accepts
\* votes on blocks that it has.
NodeOK ==
    /\ node \in [pool : SUBSET Txs, height : Nat, blockTime : Nat, clock : Nat, time : [Txs -> Nat]]
    /\ IsFiniteSet(node.pool)
    /\ node.clock > 0 /\ node.blockTime <= node.clock
    /\ \A tx \in Txs : node.time[tx] < node.clock
    /\ \A tx \in node.pool : node.time[tx] # NoTime
    /\ \A t, u \in Txs : node.time[t] = node.time[u] /\ node.time[t] # NoTime => t = u
    /\ \A tx \in Txs : node.time[tx] # NoTime /\ tx.kind = "vote" => tx.votesOn <= node.height

\* Notifications are in the order of their times; what was accepted after the
\* last block is still in the pool.
QueueOK ==
    /\ queue \in Seq(Notifications)
    /\ \A i \in DOMAIN queue : IsTx(queue[i]) => node.time[queue[i].tx] # NoTime
    /\ \A i, j \in DOMAIN queue :
         i < j /\ IsTx(queue[i]) /\ IsTx(queue[j]) => node.time[queue[i].tx] < node.time[queue[j].tx]
    /\ \A i \in DOMAIN queue :
         IsTx(queue[i]) /\ (\A j \in DOMAIN queue : j > i => IsTx(queue[j])) =>
           queue[i].tx \in node.pool /\ node.time[queue[i].tx] >= node.blockTime

PCs == {"idle", "failed", "collect", "mempoolTxns", "swap", "addrMap"}

\* A set of transactions that the node has accepted.
Seen(S) == S \in SUBSET Txs /\ IsFiniteSet(S) /\ \A tx \in S : node.time[tx] # NoTime

\* What the monitor has is consistent, wherever it is.
MonitorOK ==
    /\ pc \in PCs /\ lastBlock \in Block
    /\ fetched \in [tickets : SUBSET Txs, block : Block, pool : SUBSET Txs] /\ Seen(fetched.pool)
    /\ inventory \in Inventory /\ Seen(inventory.txs)
    /\ Tallied(inventory, lastBlock.height)
    /\ \A i \in DOMAIN inventory.latest : inventory.latest[i] \in inventory.txs
    /\ inventory.txs \subseteq txnsStore
    /\ pc # "addrMap" => inventory.txs \subseteq addrMap
    /\ pc = "addrMap" => inventory.txs = fetched.pool

NoBlock == \A i \in DOMAIN queue : IsTx(queue[i])
BestBlock == [height |-> node.height, time |-> node.blockTime]

\* A set lacks of the pool only transactions that are newer than all of it and
\* whose notification is still to come.
Tracks(S) ==
    /\ S \subseteq node.pool
    /\ \A tx \in node.pool \ S :
         /\ \E i \in DOMAIN queue : IsTx(queue[i]) /\ queue[i].tx = tx
         /\ \A t \in S : node.time[t] < node.time[tx]

\* What the monitor has is the node's, as far as no block is still to be handled.
TrackOK ==
    NoBlock =>
      /\ pc \in {"mempoolTxns", "swap"} => fetched.block = BestBlock
      /\ pc = "swap" => Tracks(fetched.pool)
      /\ pc \in {"addrMap", "idle"} =>
           /\ lastBlock = BestBlock /\ Tracks(inventory.txs)
           /\ Ranked(inventory.latest, inventory.txs, node.time)

IInv == NodeOK /\ QueueOK /\ MonitorOK /\ TrackOK

LEMMA InitOK == MempoolInit => IInv
<1>. SUFFICES ASSUME MempoolInit PROVE IInv
  OBVIOUS
<1>1. IsFiniteSet({})
  BY FS_EmptySet
<1>2. NodeOK
  BY <1>1 DEF MempoolInit, NodeOK, NoTime
<1>3. QueueOK
  BY DEF MempoolInit, QueueOK
<1>4. node.time \in [Txs -> Nat] /\ Distinct({}, node.time) /\ {} \in SUBSET Txs
  BY <1>2 DEF NodeOK, Distinct
<1>5. /\ inventory \in Inventory /\ Tallied(inventory, 1) /\ inventory.txs = {}
      /\ Ranked(inventory.latest, {}, node.time)
  BY <1>1, <1>4, Parsed DEF MempoolInit
<1>6. Seen({})
  BY <1>1 DEF Seen
<1>7. MonitorOK
  <2>1. \A i \in DOMAIN inventory.latest : inventory.latest[i] \in inventory.txs
    BY <1>5 DEF Ranked
  <2>. QED BY <1>5, <1>6, <2>1 DEF MempoolInit, MonitorOK, PCs, Block
<1>8. TrackOK
  BY <1>5 DEF MempoolInit, TrackOK, Tracks, BestBlock
<1>. QED BY <1>2, <1>3, <1>7, <1>8 DEF IInv

-----------------------------------------------------------------------------
(* The node. *)

\* Sets of accepted transactions stay such.
LEMMA SeenStays ==
    ASSUME NEW S, Seen(S), node'.time \in [Txs -> Nat],
           \A t \in S : node'.time[t] = node.time[t]
    PROVE  Seen(S)'
BY DEF Seen

LEMMA AcceptOK == IInv /\ Accept => IInv'
<1>. SUFFICES ASSUME IInv, NEW tx \in Txs,
              node.time[tx] = NoTime,
              tx.kind = "vote" => tx.votesOn <= node.height,
              node' = [node EXCEPT !.pool = @ \cup {tx}, !.clock = @ + 1,
                                   !.time = [@ EXCEPT ![tx] = node.clock]],
              queue' = Append(queue, [kind |-> "tx", tx |-> tx]),
              UNCHANGED <<pc, fetched, lastBlock, inventory, txnsStore, addrMap, saving, dataCache>>
       PROVE  IInv'
  BY DEF Accept
<1>1. /\ node'.pool = node.pool \cup {tx} /\ node'.height = node.height
      /\ node'.blockTime = node.blockTime /\ node'.clock = node.clock + 1
      /\ node'.time = [node.time EXCEPT ![tx] = node.clock]
      /\ node' \in [pool : SUBSET Txs, height : Nat, blockTime : Nat, clock : Nat, time : [Txs -> Nat]]
  <2>1. node = [pool |-> node.pool, height |-> node.height, blockTime |-> node.blockTime,
                clock |-> node.clock, time |-> node.time]
        /\ node.pool \in SUBSET Txs /\ node.height \in Nat /\ node.blockTime \in Nat
        /\ node.clock \in Nat /\ node.time \in [Txs -> Nat]
    BY DEF IInv, NodeOK
  <2>2. node' = [pool |-> node.pool \cup {tx}, height |-> node.height, blockTime |-> node.blockTime,
                 clock |-> node.clock + 1, time |-> [node.time EXCEPT ![tx] = node.clock]]
    BY <2>1
  <2>3. [node.time EXCEPT ![tx] = node.clock] \in [Txs -> Nat] /\ node.clock + 1 \in Nat
        /\ node.pool \cup {tx} \in SUBSET Txs
    BY <2>1
  <2>4. /\ node'.pool = node.pool \cup {tx} /\ node'.height = node.height
        /\ node'.blockTime = node.blockTime /\ node'.clock = node.clock + 1
        /\ node'.time = [node.time EXCEPT ![tx] = node.clock]
    BY ONLY <2>2
  <2>5. node' \in [pool : SUBSET Txs, height : Nat, blockTime : Nat, clock : Nat, time : [Txs -> Nat]]
    BY ONLY <2>1, <2>2, <2>3
  <2>. QED BY <2>4, <2>5
<1>2. /\ node'.time \in [Txs -> Nat] /\ node'.time[tx] = node.clock
      /\ \A t \in Txs : t # tx => node'.time[t] = node.time[t]
      /\ \A t \in Txs : node.time[t] # NoTime => node'.time[t] = node.time[t]
  BY <1>1 DEF IInv, NodeOK
<1>3. NodeOK'
  <2>1. IsFiniteSet(node'.pool)
    BY <1>1, FS_AddElement DEF IInv, NodeOK
  <2>2. node'.clock > 0 /\ node'.blockTime <= node'.clock
    BY <1>1 DEF IInv, NodeOK
  <2>3. \A t \in Txs : node'.time[t] < node'.clock
    BY <1>1, <1>2 DEF IInv, NodeOK
  <2>4. \A t \in node'.pool : node'.time[t] # NoTime
    BY <1>1, <1>2 DEF IInv, NodeOK, NoTime
  <2>5. \A t, u \in Txs : node'.time[t] = node'.time[u] /\ node'.time[t] # NoTime => t = u
    BY <1>2 DEF IInv, NodeOK
  <2>6. \A t \in Txs : node'.time[t] # NoTime /\ t.kind = "vote" => t.votesOn <= node'.height
    BY <1>1, <1>2 DEF IInv, NodeOK
  <2>. QED BY <1>1, <2>1, <2>2, <2>3, <2>4, <2>5, <2>6 DEF NodeOK
<1>. DEFINE n == Len(queue)
<1>4. /\ queue \in Seq(Notifications) /\ n \in Nat /\ DOMAIN queue = 1 .. n
      /\ queue' \in Seq(Notifications) /\ DOMAIN queue' = 1 .. n + 1
      /\ \A i \in 1 .. n : queue'[i] = queue[i]
      /\ queue'[n + 1] = [kind |-> "tx", tx |-> tx]
  BY DEF IInv, QueueOK, Notifications
<1>. HIDE DEF n
<1>5. \A i \in 1 .. n : IsTx(queue[i]) => queue[i].tx \in Txs
  BY <1>4 DEF Notifications, IsTx
<1>6. IsTx(queue'[n + 1]) /\ queue'[n + 1].tx = tx
  BY <1>4 DEF IsTx
<1>7. \A i \in 1 .. n : IsTx(queue[i]) =>
        node.time[queue[i].tx] # NoTime /\ node'.time[queue[i].tx] = node.time[queue[i].tx]
          /\ node.time[queue[i].tx] < node.clock /\ node.time[queue[i].tx] \in Nat
  BY <1>2, <1>4, <1>5 DEF IInv, QueueOK, NodeOK
<1>8. QueueOK'
  <2>1. \A i \in DOMAIN queue' : IsTx(queue'[i]) => node'.time[queue'[i].tx] # NoTime
    BY <1>2, <1>4, <1>6, <1>7 DEF IInv, NodeOK, NoTime
  <2>2. ASSUME NEW i \in DOMAIN queue', NEW j \in DOMAIN queue', i < j, IsTx(queue'[i]), IsTx(queue'[j])
        PROVE  node'.time[queue'[i].tx] < node'.time[queue'[j].tx]
    <3>1. i \in 1 .. n /\ queue'[i] = queue[i]
      BY <1>4, <2>2
    <3>2. CASE j = n + 1
      BY <1>2, <1>6, <1>7, <2>2, <3>1, <3>2
    <3>3. CASE j # n + 1
      <4>1. j \in 1 .. n /\ queue'[j] = queue[j]
        BY <1>4, <3>3
      <4>2. node.time[queue[i].tx] < node.time[queue[j].tx]
        BY <1>4, <2>2, <3>1, <4>1 DEF IInv, QueueOK
      <4>. QED BY <1>7, <2>2, <3>1, <4>1, <4>2
    <3>. QED BY <3>2, <3>3
  <2>3. ASSUME NEW i \in DOMAIN queue', IsTx(queue'[i]),
               \A j \in DOMAIN queue' : j > i => IsTx(queue'[j])
        PROVE  queue'[i].tx \in node'.pool /\ node'.time[queue'[i].tx] >= node'.blockTime
    <3>1. CASE i = n + 1
      BY <1>1, <1>2, <1>6, <3>1 DEF IInv, NodeOK
    <3>2. CASE i # n + 1
      <4>1. i \in 1 .. n /\ queue'[i] = queue[i]
        BY <1>4, <3>2
      <4>2. \A j \in DOMAIN queue : j > i => IsTx(queue[j])
        BY <1>4, <2>3
      <4>3. queue[i].tx \in node.pool /\ node.time[queue[i].tx] >= node.blockTime
        BY <1>4, <2>3, <4>1, <4>2 DEF IInv, QueueOK
      <4>. QED BY <1>1, <1>7, <2>3, <4>1, <4>3
    <3>. QED BY <3>1, <3>2
  <2>. QED BY <1>4, <2>1, <2>2, <2>3 DEF QueueOK
<1>9. \A S : Seen(S) => Seen(S)' /\ tx \notin S /\ \A t \in S : node'.time[t] = node.time[t]
                           /\ node.time[t] < node'.time[tx]
  <2>. SUFFICES ASSUME NEW S, Seen(S)
       PROVE  Seen(S)' /\ tx \notin S /\ \A t \in S : node'.time[t] = node.time[t]
                /\ node.time[t] < node'.time[tx]
    OBVIOUS
  <2>1. tx \notin S /\ \A t \in S : t \in Txs /\ node'.time[t] = node.time[t]
                                    /\ node.time[t] < node'.time[tx]
    BY <1>2 DEF Seen, IInv, NodeOK
  <2>. QED BY <1>2, <2>1, SeenStays
<1>10. MonitorOK'
  <2>1. Seen(fetched.pool)' /\ Seen(inventory.txs)'
    BY <1>9 DEF IInv, MonitorOK
  <2>. QED BY <2>1 DEF IInv, MonitorOK, PCs, Block
<1>11. TrackOK'
  <2>1. SUFFICES ASSUME NoBlock' PROVE TrackOK'
    BY DEF TrackOK
  <2>2. NoBlock
    BY <1>4, <2>1 DEF NoBlock
  <2>3. BestBlock' = BestBlock
    BY <1>1 DEF BestBlock
  <2>4. ASSUME NEW S, Seen(S), Tracks(S), S' = S PROVE Tracks(S)'
    <3>1. S \subseteq node'.pool
      BY <1>1, <2>4 DEF Tracks
    <3>2. ASSUME NEW u \in node'.pool \ S
          PROVE  /\ \E i \in DOMAIN queue' : IsTx(queue'[i]) /\ queue'[i].tx = u
                 /\ \A t \in S : node'.time[t] < node'.time[u]
      <4>1. CASE u = tx
        <5>1. n + 1 \in DOMAIN queue'
          BY <1>4
        <5>. QED BY <1>6, <1>9, <2>4, <4>1, <5>1
      <4>2. CASE u # tx
        <5>1. u \in node.pool \ S
          BY <1>1, <4>2
        <5>2. node'.time[u] = node.time[u]
          BY <1>2, <4>2, <5>1 DEF IInv, NodeOK
        <5>3. PICK i \in DOMAIN queue : IsTx(queue[i]) /\ queue[i].tx = u
          BY <2>4, <5>1 DEF Tracks
        <5>4. i \in DOMAIN queue' /\ queue'[i] = queue[i]
          BY <1>4
        <5>5. \A t \in S : node'.time[t] < node'.time[u]
          BY <1>9, <2>4, <5>1, <5>2 DEF Tracks
        <5>. QED BY <5>3, <5>4, <5>5
      <4>. QED BY <4>1, <4>2
    <3>. QED BY <2>4, <3>1, <3>2 DEF Tracks
  <2>5. pc = "swap" => Tracks(fetched.pool)'
    BY <2>2, <2>4 DEF IInv, TrackOK, MonitorOK
  <2>6. pc \in {"addrMap", "idle"} => Tracks(inventory.txs)' /\ Ranked(inventory.latest, inventory.txs, node.time)'
    <3>1. SUFFICES ASSUME pc \in {"addrMap", "idle"}
          PROVE  Tracks(inventory.txs)' /\ Ranked(inventory.latest, inventory.txs, node'.time)
      OBVIOUS
    <3>2. Seen(inventory.txs) /\ Tracks(inventory.txs) /\ Ranked(inventory.latest, inventory.txs, node.time)
      BY <2>2, <3>1 DEF IInv, TrackOK, MonitorOK
    <3>3. \A t \in inventory.txs : node'.time[t] = node.time[t]
      BY <1>9, <3>2
    <3>. QED BY <2>4, <3>2, <3>3, RankedSame
  <2>. QED BY <2>2, <2>3, <2>5, <2>6 DEF IInv, TrackOK
<1>. QED BY <1>3, <1>8, <1>10, <1>11 DEF IInv

LEMMA ConnectOK == IInv /\ Connect => IInv'
<1>. SUFFICES ASSUME IInv, NEW mined \in SUBSET node.pool, NEW t \in {node.clock - 1, node.clock},
              t >= node.blockTime,
              node' = [node EXCEPT !.pool = @ \ mined, !.height = @ + 1, !.blockTime = t, !.clock = @ + 1],
              queue' = Append(queue, [kind |-> "block"]),
              UNCHANGED <<pc, fetched, lastBlock, inventory, txnsStore, addrMap, saving, dataCache>>
       PROVE  IInv'
  BY DEF Connect
<1>1. /\ node'.pool = node.pool \ mined /\ node'.height = node.height + 1
      /\ node'.blockTime = t /\ node'.clock = node.clock + 1 /\ node'.time = node.time
      /\ node' \in [pool : SUBSET Txs, height : Nat, blockTime : Nat, clock : Nat, time : [Txs -> Nat]]
  <2>1. node = [pool |-> node.pool, height |-> node.height, blockTime |-> node.blockTime,
                clock |-> node.clock, time |-> node.time]
        /\ node.pool \in SUBSET Txs /\ node.height \in Nat /\ node.blockTime \in Nat
        /\ node.clock \in Nat /\ node.time \in [Txs -> Nat] /\ t \in Nat
    BY DEF IInv, NodeOK
  <2>2. node' = [pool |-> node.pool \ mined, height |-> node.height + 1, blockTime |-> t,
                 clock |-> node.clock + 1, time |-> node.time]
    BY <2>1
  <2>. QED BY <2>1, <2>2
<1>2. NodeOK'
  <2>1. IsFiniteSet(node'.pool)
    BY <1>1, FS_Subset DEF IInv, NodeOK
  <2>2. node'.clock > 0 /\ node'.blockTime <= node'.clock
    BY <1>1 DEF IInv, NodeOK
  <2>3. \A u \in Txs : node'.time[u] < node'.clock
    BY <1>1 DEF IInv, NodeOK
  <2>4. \A u \in Txs : node'.time[u] # NoTime /\ u.kind = "vote" => u.votesOn <= node'.height
    BY <1>1, MempoolAssumption DEF IInv, NodeOK
  <2>. QED BY <1>1, <2>1, <2>2, <2>3, <2>4 DEF IInv, NodeOK
<1>. DEFINE n == Len(queue)
<1>3. /\ queue \in Seq(Notifications) /\ n \in Nat /\ DOMAIN queue = 1 .. n
      /\ queue' \in Seq(Notifications) /\ DOMAIN queue' = 1 .. n + 1
      /\ \A i \in 1 .. n : queue'[i] = queue[i]
      /\ queue'[n + 1] = [kind |-> "block"]
  BY DEF IInv, QueueOK, Notifications
<1>. HIDE DEF n
<1>4. ~IsTx(queue'[n + 1]) /\ n + 1 \in DOMAIN queue' /\ \A i \in 1 .. n : n + 1 > i
  BY <1>3 DEF IsTx
<1>5. \A i \in DOMAIN queue' : IsTx(queue'[i]) => i \in 1 .. n /\ queue'[i] = queue[i]
  BY <1>3, <1>4
<1>6. QueueOK'
  <2>1. \A i \in DOMAIN queue' : IsTx(queue'[i]) => node'.time[queue'[i].tx] # NoTime
    BY <1>1, <1>3, <1>5 DEF IInv, QueueOK
  <2>2. \A i, j \in DOMAIN queue' :
          i < j /\ IsTx(queue'[i]) /\ IsTx(queue'[j]) => node'.time[queue'[i].tx] < node'.time[queue'[j].tx]
    BY <1>1, <1>3, <1>5 DEF IInv, QueueOK
  <2>3. \A i \in DOMAIN queue' : ~(IsTx(queue'[i]) /\ \A j \in DOMAIN queue' : j > i => IsTx(queue'[j]))
    BY <1>4, <1>5
  <2>. QED BY <1>3, <2>1, <2>2, <2>3 DEF QueueOK
<1>7. MonitorOK'
  <2>1. Seen(fetched.pool)' /\ Seen(inventory.txs)'
    BY <1>1 DEF IInv, MonitorOK, Seen
  <2>. QED BY <2>1 DEF IInv, MonitorOK, PCs, Block
<1>8. TrackOK'
  BY <1>4 DEF TrackOK, NoBlock
<1>. QED BY <1>2, <1>6, <1>7, <1>8 DEF IInv

-----------------------------------------------------------------------------
(* The monitor. *)

\* The queue without its head.
LEMMA Taken ==
    ASSUME QueueOK, queue # <<>>, queue' = Tail(queue), node' = node
    PROVE  /\ QueueOK' /\ 1 \in DOMAIN queue /\ queue[1] \in Notifications /\ Head(queue) = queue[1]
           /\ \A i \in DOMAIN queue : i # 1 => i - 1 \in DOMAIN queue' /\ queue'[i - 1] = queue[i]
           /\ \A i \in DOMAIN queue' : i + 1 \in DOMAIN queue /\ queue'[i] = queue[i + 1]
<1>. DEFINE n == Len(queue)
<1>1. queue \in Seq(Notifications) /\ n \in Nat /\ n # 0 /\ DOMAIN queue = 1 .. n
  BY DEF QueueOK
<1>2. /\ queue' \in Seq(Notifications) /\ DOMAIN queue' = 1 .. n - 1
      /\ \A i \in 1 .. n - 1 : queue'[i] = queue[i + 1]
  BY <1>1
<1>3. Head(queue) = queue[1] /\ 1 \in DOMAIN queue /\ queue[1] \in Notifications
  BY <1>1
<1>. HIDE DEF n
<1>4. \A i \in DOMAIN queue : i # 1 => i - 1 \in DOMAIN queue' /\ queue'[i - 1] = queue[i]
  BY <1>1, <1>2
<1>5. \A i \in DOMAIN queue' : i + 1 \in DOMAIN queue /\ queue'[i] = queue[i + 1]
  BY <1>1, <1>2
<1>6. QueueOK'
  <2>1. \A i \in DOMAIN queue' : IsTx(queue'[i]) => node'.time[queue'[i].tx] # NoTime
    BY <1>5 DEF QueueOK
  <2>2. ASSUME NEW i \in DOMAIN queue', NEW j \in DOMAIN queue', i < j, IsTx(queue'[i]), IsTx(queue'[j])
        PROVE  node'.time[queue'[i].tx] < node'.time[queue'[j].tx]
    <3>1. i + 1 < j + 1
      BY <1>1, <1>2, <2>2
    <3>. QED BY <1>5, <2>2, <3>1 DEF QueueOK
  <2>3. ASSUME NEW i \in DOMAIN queue', IsTx(queue'[i]),
               \A j \in DOMAIN queue' : j > i => IsTx(queue'[j])
        PROVE  queue'[i].tx \in node'.pool /\ node'.time[queue'[i].tx] >= node'.blockTime
    <3>1. ASSUME NEW j \in DOMAIN queue, j > i + 1 PROVE IsTx(queue[j])
      <4>1. j # 1 /\ j - 1 > i
        BY <1>1, <1>2, <3>1
      <4>. QED BY <1>4, <2>3, <4>1
    <3>. QED BY <1>5, <2>3, <3>1 DEF QueueOK
  <2>. QED BY <1>2, <2>1, <2>2, <2>3 DEF QueueOK
<1>. QED BY <1>3, <1>4, <1>5, <1>6

LEMMA BlockHandlerOK == IInv /\ BlockHandler => IInv'
<1>. SUFFICES ASSUME IInv, BlockHandler PROVE IInv'
  OBVIOUS
<1>1. NodeOK'
  BY DEF IInv, BlockHandler, NodeOK
<1>2. QueueOK'
  BY Taken DEF IInv, BlockHandler
<1>3. MonitorOK'
  <2>1. Seen(fetched.pool)' /\ Seen(inventory.txs)'
    BY DEF IInv, BlockHandler, MonitorOK, Seen, HandlerVars
  <2>. QED BY <2>1 DEF IInv, BlockHandler, MonitorOK, HandlerVars, PCs, Ready
<1>4. TrackOK'
  BY DEF BlockHandler, TrackOK
<1>. QED BY <1>1, <1>2, <1>3, <1>4 DEF IInv

LEMMA CollectBestBlockOK == IInv /\ CollectBestBlock => IInv'
<1>. SUFFICES ASSUME IInv, CollectBestBlock PROVE IInv'
  OBVIOUS
<1>1. NodeOK' /\ QueueOK'
  BY DEF IInv, CollectBestBlock, NodeOK, QueueOK
<1>2. fetched'.pool = {} /\ fetched'.block = BestBlock /\ fetched'.block \in Block
      /\ fetched' \in [tickets : SUBSET Txs, block : Block, pool : SUBSET Txs]
  BY DEF IInv, CollectBestBlock, BestBlock, NodeOK, Block
<1>3. MonitorOK'
  <2>1. Seen(fetched.pool)' /\ Seen(inventory.txs)'
    BY <1>2, FS_EmptySet DEF IInv, CollectBestBlock, MonitorOK, Seen, HandlerVars
  <2>. QED BY <1>2, <2>1 DEF IInv, CollectBestBlock, MonitorOK, HandlerVars, PCs
<1>4. TrackOK'
  BY <1>2 DEF CollectBestBlock, TrackOK, BestBlock
<1>. QED BY <1>1, <1>3, <1>4 DEF IInv

LEMMA MempoolTxnsOK == IInv /\ MempoolTxns => IInv'
<1>. SUFFICES ASSUME IInv, MempoolTxns PROVE IInv'
  OBVIOUS
<1>1. NodeOK' /\ QueueOK'
  BY DEF IInv, MempoolTxns, NodeOK, QueueOK
<1>2. fetched'.pool = node.pool /\ fetched'.block = fetched.block
      /\ fetched' \in [tickets : SUBSET Txs, block : Block, pool : SUBSET Txs]
  BY DEF IInv, MempoolTxns, NodeOK, MonitorOK
<1>3. MonitorOK'
  <2>1. Seen(fetched.pool)' /\ Seen(inventory.txs)'
    BY <1>2 DEF IInv, MempoolTxns, MonitorOK, NodeOK, Seen, HandlerVars
  <2>. QED BY <1>2, <2>1 DEF IInv, MempoolTxns, MonitorOK, HandlerVars, PCs
<1>4. TrackOK'
  BY <1>2 DEF IInv, MempoolTxns, TrackOK, BestBlock, Tracks, NoBlock
<1>. QED BY <1>1, <1>3, <1>4 DEF IInv

LEMMA CollectFailsOK == IInv /\ CollectFails => IInv'
<1>. SUFFICES ASSUME IInv, CollectFails PROVE IInv'
  OBVIOUS
<1>1. NodeOK' /\ QueueOK'
  BY DEF IInv, CollectFails, NodeOK, QueueOK
<1>2. MonitorOK'
  <2>1. Seen(fetched.pool)' /\ Seen(inventory.txs)'
    BY DEF IInv, CollectFails, MonitorOK, Seen, HandlerVars
  <2>. QED BY <2>1 DEF IInv, CollectFails, MonitorOK, HandlerVars, PCs
<1>3. TrackOK'
  BY DEF CollectFails, TrackOK
<1>. QED BY <1>1, <1>2, <1>3 DEF IInv

LEMMA RefreshOK == IInv /\ Refresh => IInv'
<1>. SUFFICES ASSUME IInv, Refresh PROVE IInv'
  OBVIOUS
<1>1. NodeOK' /\ QueueOK'
  BY DEF IInv, Refresh, NodeOK, QueueOK
<1>. DEFINE S == fetched.pool
            h == fetched.block.height
<1>2. /\ S \in SUBSET Txs /\ IsFiniteSet(S) /\ Distinct(S, node.time) /\ node.time \in [Txs -> Nat]
      /\ inventory.ident + 1 \in Nat
  BY DEF IInv, MonitorOK, Seen, NodeOK, Distinct, Inventory
<1>3. /\ inventory' \in Inventory /\ Tallied(inventory', h) /\ inventory'.txs = S
      /\ Ranked(inventory'.latest, S, node.time)
  BY <1>2, Parsed DEF Refresh
<1>4. MonitorOK'
  <2>1. Seen(fetched.pool)' /\ Seen(inventory.txs)'
    BY <1>3 DEF IInv, Refresh, MonitorOK, Seen
  <2>2. \A i \in DOMAIN inventory'.latest : inventory'.latest[i] \in inventory'.txs
    BY <1>3 DEF Ranked
  <2>3. lastBlock' = fetched.block /\ Tallied(inventory, lastBlock.height)'
    BY <1>3 DEF Refresh
  <2>. HIDE DEF S
  <2>. QED BY <1>3, <2>1, <2>2, <2>3 DEF IInv, Refresh, MonitorOK, PCs, S
<1>5. TrackOK'
  BY <1>3 DEF IInv, Refresh, TrackOK, Tracks, BestBlock, NoBlock
<1>. QED BY <1>1, <1>4, <1>5 DEF IInv

LEMMA CollectAndStoreOK == IInv /\ CollectAndStore => IInv'
<1>. SUFFICES ASSUME IInv, CollectAndStore PROVE IInv'
  OBVIOUS
<1>1. NodeOK' /\ QueueOK'
  BY DEF IInv, CollectAndStore, NodeOK, QueueOK
<1>2. MonitorOK'
  <2>1. Seen(fetched.pool)' /\ Seen(inventory.txs)'
    BY DEF IInv, CollectAndStore, MonitorOK, Seen
  <2>. QED BY <2>1 DEF IInv, CollectAndStore, MonitorOK, PCs
<1>3. TrackOK'
  BY DEF IInv, CollectAndStore, TrackOK, Tracks, BestBlock, NoBlock
<1>. QED BY <1>1, <1>2, <1>3 DEF IInv

LEMMA UnseenOK == IInv /\ (StoreMPData \/ UNCHANGED mempoolVars) => IInv'
BY DEF IInv, StoreMPData, mempoolVars, NodeOK, QueueOK, MonitorOK, TrackOK, Tracks, BestBlock, NoBlock, Seen

LEMMA TxHandlerOK == IInv /\ TxHandler => IInv'
<1>. SUFFICES ASSUME IInv, TxHandler PROVE IInv'
  OBVIOUS
<1>. DEFINE tx == queue[1].tx
<1>1. /\ QueueOK' /\ 1 \in DOMAIN queue /\ queue[1] \in Notifications /\ Head(queue) = queue[1]
      /\ \A i \in DOMAIN queue : i # 1 => i - 1 \in DOMAIN queue' /\ queue'[i - 1] = queue[i]
      /\ \A i \in DOMAIN queue' : i + 1 \in DOMAIN queue /\ queue'[i] = queue[i + 1]
  BY Taken DEF IInv, TxHandler
<1>2. IsTx(queue[1]) /\ tx \in Txs /\ node.time[tx] # NoTime
  BY <1>1 DEF TxHandler, IsTx, Notifications, IInv, QueueOK
<1>3. NodeOK'
  BY DEF IInv, TxHandler, NodeOK
<1>4. /\ pc \in {"idle", "failed"} /\ pc' = pc /\ node' = node /\ lastBlock' = lastBlock /\ fetched' = fetched
  BY DEF TxHandler, Ready
<1>5. NoBlock' => NoBlock
  <2>1. SUFFICES ASSUME NoBlock', NEW i \in DOMAIN queue PROVE IsTx(queue[i])
    BY DEF NoBlock
  <2>. QED BY <1>1, <1>2, <2>1 DEF NoBlock
<1>6. \A u : u # tx /\ (\E i \in DOMAIN queue : IsTx(queue[i]) /\ queue[i].tx = u) =>
               \E i \in DOMAIN queue' : IsTx(queue'[i]) /\ queue'[i].tx = u
  BY <1>1
<1>7. NoBlock => tx \in node.pool /\ node.time[tx] >= node.blockTime
  BY <1>1, <1>2 DEF IInv, QueueOK, NoBlock
<1>8. \A i \in DOMAIN queue : i # 1 /\ IsTx(queue[i]) => node.time[tx] < node.time[queue[i].tx]
  BY <1>1, <1>2 DEF IInv, QueueOK
<1>9. CASE Early(tx) \/ Known(tx)
  <2>1. inventory' = inventory /\ txnsStore' = txnsStore /\ addrMap' = addrMap
    BY <1>1, <1>9 DEF TxHandler
  <2>2. MonitorOK'
    <3>1. Seen(fetched.pool)' /\ Seen(inventory.txs)'
      BY <1>4, <2>1 DEF IInv, MonitorOK, Seen
    <3>. QED BY <1>4, <2>1, <3>1 DEF IInv, MonitorOK
  <2>3. TrackOK'
    <3>1. SUFFICES ASSUME NoBlock', pc = "idle" PROVE TrackOK'
      BY <1>4 DEF TrackOK
    <3>2. lastBlock = BestBlock /\ Tracks(inventory.txs) /\ Ranked(inventory.latest, inventory.txs, node.time)
      BY <1>5, <3>1 DEF IInv, TrackOK
    <3>3. ~Early(tx)
      BY <1>2, <1>5, <1>7, <3>1, <3>2 DEF Early, BestBlock, IInv, NodeOK
    <3>4. tx \in inventory.txs
      BY <1>9, <3>3 DEF Known
    <3>5. Tracks(inventory.txs)'
      BY <1>4, <1>6, <2>1, <3>2, <3>4 DEF Tracks
    <3>. QED BY <1>4, <2>1, <3>1, <3>2, <3>5 DEF TrackOK, BestBlock
  <2>. QED BY <1>1, <1>3, <2>2, <2>3 DEF IInv
<1>10. CASE ~(Early(tx) \/ Known(tx))
  <2>1. /\ addrMap' = addrMap \cup {tx} /\ txnsStore' = txnsStore \cup {tx}
        /\ inventory' = IF FutureVote(tx) THEN [inventory EXCEPT !.ident = @ + 1] ELSE Counted(inventory, tx)
    BY <1>1, <1>10 DEF TxHandler
  <2>2. CASE FutureVote(tx)
    <3>1. inventory' = [inventory EXCEPT !.ident = @ + 1]
      BY <2>1, <2>2
    <3>2. /\ inventory' \in Inventory /\ inventory'.txs = inventory.txs
          /\ inventory'.latest = inventory.latest /\ inventory'.numAll = inventory.numAll
          /\ inventory'.numVotes = inventory.numVotes /\ inventory'.voted = inventory.voted
          /\ inventory'.ticketsVoted = inventory.ticketsVoted /\ inventory'.likely = inventory.likely
      <4>1. inventory = [ident |-> inventory.ident, txs |-> inventory.txs, latest |-> inventory.latest,
                         numAll |-> inventory.numAll, numVotes |-> inventory.numVotes,
                         voted |-> inventory.voted, ticketsVoted |-> inventory.ticketsVoted,
                         likely |-> inventory.likely]
            /\ inventory.ident + 1 \in Nat /\ inventory \in Inventory
        BY DEF IInv, MonitorOK, Inventory
      <4>2. inventory' = [ident |-> inventory.ident + 1, txs |-> inventory.txs, latest |-> inventory.latest,
                          numAll |-> inventory.numAll, numVotes |-> inventory.numVotes,
                          voted |-> inventory.voted, ticketsVoted |-> inventory.ticketsVoted,
                          likely |-> inventory.likely]
        BY <3>1, <4>1
      <4>3. inventory' \in Inventory
        BY ONLY <4>1, <4>2 DEF Inventory
      <4>. QED BY <4>2, <4>3
    <3>3. Tallied(inventory, lastBlock.height)'
      BY <1>4, <3>2 DEF IInv, MonitorOK, Tallied
    <3>4. MonitorOK'
      <4>1. Seen(fetched.pool)' /\ Seen(inventory.txs)'
        BY <1>4, <3>2 DEF IInv, MonitorOK, Seen
      <4>. QED BY <1>4, <2>1, <3>2, <3>3, <4>1 DEF IInv, MonitorOK
    <3>5. TrackOK'
      <4>1. SUFFICES ASSUME NoBlock', pc = "idle" PROVE FALSE
        BY <1>4 DEF TrackOK
      <4>2. lastBlock.height = node.height
        BY <1>5, <4>1 DEF IInv, TrackOK, BestBlock
      <4>3. tx.votesOn <= node.height /\ node.height \in Nat /\ tx.votesOn \in Nat
        BY <1>2, <2>2, MempoolAssumption DEF IInv, NodeOK, FutureVote
      <4>. QED BY <2>2, <4>2, <4>3 DEF FutureVote
    <3>. QED BY <1>1, <1>3, <3>4, <3>5 DEF IInv
  <2>3. CASE ~FutureVote(tx)
    <3>1. inventory' = Counted(inventory, tx)
      BY <2>1, <2>3
    <3>2. tx \notin inventory.txs
      BY <1>10 DEF Known
    <3>. DEFINE l == inventory.latest
                front == <<tx>> \o SubSeq(l, 1, IF Len(l) >= NumLatestMempoolTxns THEN Len(l) - 1 ELSE Len(l))
    <3>3. /\ inventory' \in Inventory /\ Tallied(inventory', lastBlock.height)
          /\ inventory'.txs = inventory.txs \cup {tx} /\ IsFiniteSet(inventory'.txs)
          /\ inventory'.latest = front
          /\ \A i \in DOMAIN inventory'.latest : inventory'.latest[i] \in inventory'.txs
      <4>1. /\ inventory \in Inventory /\ IsFiniteSet(inventory.txs) /\ lastBlock.height \in Nat
            /\ Tallied(inventory, lastBlock.height)
            /\ \A i \in DOMAIN inventory.latest : inventory.latest[i] \in inventory.txs
        BY DEF IInv, MonitorOK, Seen, Block
      <4>. HIDE DEF tx
      <4>. QED BY <1>2, <3>1, <3>2, <4>1, CountedOnce
    <3>. HIDE DEF front, tx
    <3>4. MonitorOK'
      <4>1. Seen(fetched.pool)' /\ Seen(inventory.txs)'
        BY <1>2, <1>4, <3>3 DEF IInv, MonitorOK, Seen
      <4>2. inventory'.txs \subseteq txnsStore' /\ inventory'.txs \subseteq addrMap'
        BY <1>4, <2>1, <3>3 DEF IInv, MonitorOK
      <4>. QED BY <1>4, <3>3, <4>1, <4>2 DEF IInv, MonitorOK
    <3>5. TrackOK'
      <4>1. SUFFICES ASSUME NoBlock', pc = "idle" PROVE TrackOK'
        BY <1>4 DEF TrackOK
      <4>. DEFINE S == inventory.txs
      <4>2. lastBlock = BestBlock /\ Tracks(S) /\ Ranked(l, S, node.time)
        BY <1>5, <4>1 DEF IInv, TrackOK
      <4>3. tx \in node.pool /\ \A t \in S : node.time[t] < node.time[tx]
        BY <1>5, <1>7, <3>2, <4>1, <4>2 DEF Tracks
      <4>4. Ranked(front, S \cup {tx}, node.time)
        <5>1. S \in SUBSET Txs /\ IsFiniteSet(S) /\ node.time \in [Txs -> Nat]
          BY DEF IInv, MonitorOK, Seen, NodeOK
        <5>. QED BY <1>2, <4>2, <4>3, <5>1, RankedAdd DEF front
      <4>5. Tracks(inventory.txs)'
        <5>1. inventory'.txs \subseteq node'.pool
          BY <1>4, <3>3, <4>2, <4>3 DEF Tracks
        <5>2. ASSUME NEW u \in node'.pool \ inventory'.txs
              PROVE  /\ \E i \in DOMAIN queue' : IsTx(queue'[i]) /\ queue'[i].tx = u
                     /\ \A t \in inventory'.txs : node'.time[t] < node'.time[u]
          <6>1. u \in node.pool \ S /\ u # tx
            BY <1>4, <3>3
          <6>2. PICK i \in DOMAIN queue : IsTx(queue[i]) /\ queue[i].tx = u
            BY <4>2, <6>1 DEF Tracks
          <6>3. \E j \in DOMAIN queue' : IsTx(queue'[j]) /\ queue'[j].tx = u
            BY <1>6, <6>1, <6>2
          <6>4. i # 1
            BY <6>1, <6>2 DEF tx
          <6>5. node.time[tx] < node.time[u]
            BY <1>8, <6>2, <6>4
          <6>6. \A t \in S : node.time[t] < node.time[u]
            BY <4>2, <6>1 DEF Tracks
          <6>. QED BY <1>4, <3>3, <6>3, <6>5, <6>6
        <5>. QED BY <5>1, <5>2 DEF Tracks
      <4>6. (lastBlock = BestBlock)'
        BY <1>4, <4>2 DEF BestBlock
      <4>7. Ranked(inventory.latest, inventory.txs, node.time)'
        BY <1>4, <3>3, <4>4
      <4>. QED BY <1>4, <4>1, <4>5, <4>6, <4>7 DEF TrackOK
    <3>. QED BY <1>1, <1>3, <3>4, <3>5 DEF IInv
  <2>. QED BY <2>2, <2>3
<1>. QED BY <1>9, <1>10

-----------------------------------------------------------------------------
\* The invariant says that the mempool is tracked.
LEMMA IInvTracks == IInv => MempoolIsTracked
<1>. SUFFICES ASSUME IInv PROVE MempoolIsTracked
  OBVIOUS
<1>. DEFINE S == inventory.txs
            fresh == ParseTxns(S, node.time, lastBlock.height, inventory.ident)
<1>1. S \in SUBSET Txs /\ IsFiniteSet(S) /\ Distinct(S, node.time) /\ node.time \in [Txs -> Nat]
      /\ inventory.ident \in Nat
  BY DEF IInv, MonitorOK, Seen, NodeOK, Distinct, Inventory
<1>2. InventoryAddsUp
  <2>1. [inventory EXCEPT !.latest = <<>>] = [fresh EXCEPT !.latest = <<>>]
    <3>1. fresh = [ident |-> inventory.ident, txs |-> S, latest |-> fresh.latest,
                   numAll |-> Cardinality(S), numVotes |-> Cardinality(Votes(S)),
                   voted |-> VotedOn(S, lastBlock.height),
                   ticketsVoted |-> Cardinality(VotedOn(S, lastBlock.height)),
                   likely |-> Cardinality(Others(S)) + Cardinality(VotedOn(S, lastBlock.height))]
      BY DEF ParseTxns, Votes, Others, VotedOn
    <3>2. inventory = [ident |-> inventory.ident, txs |-> S, latest |-> inventory.latest,
                   numAll |-> Cardinality(S), numVotes |-> Cardinality(Votes(S)),
                   voted |-> VotedOn(S, lastBlock.height),
                   ticketsVoted |-> Cardinality(VotedOn(S, lastBlock.height)),
                   likely |-> Cardinality(Others(S)) + Cardinality(VotedOn(S, lastBlock.height))]
      BY DEF IInv, MonitorOK, Inventory, Tallied
    <3>. HIDE DEF fresh, S
    <3>. QED BY <3>1, <3>2
  <2>2. ToSet(inventory.latest) \subseteq inventory.txs
    BY DEF IInv, MonitorOK, ToSet
  <2>3. inventory.txs \subseteq txnsStore /\ (pc # "addrMap" => inventory.txs \subseteq UnconfirmedTxnsForAddress)
    BY DEF IInv, MonitorOK, UnconfirmedTxnsForAddress
  <2>. QED BY <2>1, <2>2, <2>3 DEF InventoryAddsUp
<1>3. CaughtUp
  <2>1. SUFFICES ASSUME pc = "idle", queue = <<>>
        PROVE  /\ lastBlock.height = node.height /\ S = node.pool
               /\ inventory.latest = ParseTxns(node.pool, node.time, node.height, 0).latest
    BY DEF CaughtUp
  <2>2. lastBlock = BestBlock /\ Tracks(S) /\ Ranked(inventory.latest, S, node.time)
    BY <2>1 DEF IInv, TrackOK, NoBlock
  <2>3. lastBlock.height = node.height /\ S = node.pool
    <3>1. DOMAIN queue = {}
      BY <2>1
    <3>. QED BY <2>2, <3>1 DEF BestBlock, Tracks
  <2>4. Ranked(ParseTxns(node.pool, node.time, node.height, 0).latest, S, node.time)
    BY <1>1, <2>3, Parsed
  <2>5. inventory.latest = ParseTxns(node.pool, node.time, node.height, 0).latest
    <3>. HIDE DEF S
    <3>. QED BY <1>1, <2>2, <2>4, RankedUnique
  <2>. QED BY <2>3, <2>5
<1>. QED BY <1>2, <1>3 DEF MempoolIsTracked

\* The monitor's counts, added up one by one, are those of its transactions, and
\* when every notification is handled it has the node's mempool and the latest
\* transactions of it, for every interleaving of the node with TxHandler and the
\* steps of Refresh.
THEOREM MempoolTracked == MempoolSpec => []MempoolIsTracked
<1>1. IInv /\ [MempoolNext]_mempoolVars => IInv'
  BY AcceptOK, ConnectOK, BlockHandlerOK, CollectBestBlockOK, MempoolTxnsOK, CollectFailsOK,
     RefreshOK, CollectAndStoreOK, UnseenOK, TxHandlerOK DEF MempoolNext
<1>. QED BY InitOK, <1>1, IInvTracks, PTL DEF MempoolSpec
=============================================================================
