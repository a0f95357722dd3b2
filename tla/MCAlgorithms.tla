---------------------------- MODULE MCAlgorithms ----------------------------
(***************************************************************************)
(* The computations that everything else rests on, against references and  *)
(* laws, on small instances: the ledger, the searches for a fork point,    *)
(* the agendas and their tracker, the difficulties, the formats of the     *)
(* databases, stake transactions, merkle proofs, the tickets' treap and    *)
(* lottery, and the pages of an address.                                   *)
(* One part runs in a behaviour; the others stay in their initial states.  *)
(***************************************************************************)
EXTENDS Ledger, TLC

CONSTANT InPlay   \* Which of the ledger's blocks below.

VARIABLES part,
          parent, hashA, hashB, found, orphaned,
          tip, cache, versionCache, forks,
          headers,
          sample,
          stx,
          versions, blocks, stored, tracker, refresh, disturbed,
          treap, contents, intact,
          table, mempool, clock

searchVars == <<parent, hashA, hashB, found, orphaned>>
agendaVars == <<tip, cache, versionCache, forks>>
trackerVars == <<versions, blocks, stored, tracker, refresh, disturbed>>
treapVars == <<treap, contents, intact>>
addressVars == <<table, mempool, clock>>

-----------------------------------------------------------------------------
(***************************************************************************)
(* Blocks for the ledger.  Block one pays eight outputs, block three buys  *)
(* four tickets, two and four are empty; from block five on each has       *)
(* one vote, for or against its parent, and one of a few stake and regular *)
(* trees around a payment R that splits an old output, payments that spend *)
(* R or compete with it, and a ticket bought with an output of R.  No      *)
(* stake transaction names an output of the regular tree of its own block. *)
(***************************************************************************)
In(id, idx, tree, value, height, index) ==
    [tx |-> id, idx |-> idx, tree |-> tree, value |-> value, height |-> height,
     index |-> index]

Out(value, class, payee) ==
    [value |-> value, class |-> class, payee |-> payee, commit |-> 0, feeLimit |-> 0]

Commitment(amount, payee, limit) ==
    [value |-> 0, class |-> "nulldata", payee |-> payee, commit |-> amount,
     feeLimit |-> limit]

Tx(id, kind, base, ins, outs) ==
    [id |-> id, kind |-> kind, version |-> 1, expiry |-> 0, base |-> base,
     ins |-> ins, outs |-> outs, approves |-> TRUE, votedOn |-> <<>>,
     votedHeight |-> 0]

\* Coinbases: the treasury's output, then the miner's.
CoinbaseId(blockId) == <<"coinbase", blockId>>
Coinbase(blockId, h, voters, fees) ==
    LET t == CalcTreasurySubsidy(h, voters)
        w == CalcWorkSubsidy(h, voters)
    IN  Tx(CoinbaseId(blockId), "coinbase", t + w,
           <<>>, <<Out(t, "normal", "treasury"), Out(w + fees, "normal", "miner")>>)

FirstId == <<"coinbase", <<1>>>>
FirstBase == CalcTreasurySubsidy(1, 0) + CalcWorkSubsidy(1, 0) + TreasuryInitValue
FirstCoinbase ==
    Tx(FirstId, "coinbase", FirstBase, <<>>,
       [i \in 1..8 |-> Out(FirstBase \div 8, "normal", "holder")])
Coin == FirstBase \div 8
FirstOut(i) == In(FirstId, i, "regular", Coin, 1, 1)

\* Tickets cost all of a coin but one atom of change; two contributors' parts
\* are one commitment here, with a fee limit of two atoms.
TicketId(i) == <<"ticket", <<i>>>>
Purchase(i, in) ==
    Tx(TicketId(i), "ticket", 0, <<in>>,
       <<Out(in.value - 1, "submission", "voter"), Commitment(in.value - 1, "holder", 2),
         Out(1, "change", "holder")>>)
TicketIn(i, h, index) == In(TicketId(i), 1, "stake", Coin - 1, h, index)

BlockOf(id, h, approves, stxs, txs) ==
    [id |-> id, height |-> h, approves |-> approves,
     voters |-> OfKind(stxs, "vote"), stxs |-> stxs, txs |-> txs]

MCPrefix ==
    <<BlockOf(<<1>>, 1, TRUE, <<>>, <<FirstCoinbase>>),
      BlockOf(<<2>>, 2, TRUE, <<>>, <<Coinbase(<<2>>, 2, 0, 0)>>),
      BlockOf(<<3>>, 3, TRUE, [i \in 1..4 |-> Purchase(i, FirstOut(i))],
              <<Coinbase(<<3>>, 3, 0, 0)>>),
      BlockOf(<<4>>, 4, TRUE, <<>>, <<Coinbase(<<4>>, 4, 0, 0)>>)>>

\* Ticket i votes at height i + 4; ticket 4 was missed.
MCWinners(h) == {TicketId(h - 4)}
MCMissed(h) == {TicketId(4)}

VoteId(parentId, approves) == <<"vote", Append(parentId, IF approves THEN 1 ELSE 0)>>
VotePays(h) == Coin - 1 + CalcStakeVoteSubsidy(h - 1)
Vote(h, parentId, approves) ==
    [Tx(VoteId(parentId, approves), "vote", CalcStakeVoteSubsidy(h - 1),
        <<TicketIn(h - 4, 3, h - 4)>>,
        <<Commitment(0, "none", 0), Commitment(0, "none", 0),
          Out(VotePays(h), "gen", "holder")>>)
       EXCEPT !.approves = approves, !.votedOn = parentId, !.votedHeight = h - 1]

Revocation ==
    Tx(<<"revocation", <<4>>>>, "revocation", 0, <<TicketIn(4, 3, 4)>>,
       <<Out(Coin - 2, "revoke", "holder")>>)

\* Where R stands in a chain, and in a block about to be put on it.
PayId(k) == <<"pay", <<k>>>>
WhereIs(c, id) ==
    LET hits == {p \in (DOMAIN c) \X (1..MaxTxs(c)) :
                   p[2] <= Len(c[p[1]].txs) /\ c[p[1]].txs[p[2]].id = id}
    IN  IF hits = {} THEN <<0, 0>> ELSE CHOOSE p \in hits : \A q \in hits : q[1] <= p[1]

\* R splits a coin in two; S and V spend one half each, W both halves; D
\* spends the coin R spends; E has an expiry and F spends its output.
Pay(k, version, expiry, ins, values) ==
    [Tx(PayId(k), "regular", 0, ins, [i \in DOMAIN values |-> Out(values[i], "normal", "holder")])
       EXCEPT !.version = version, !.expiry = expiry]
FromR(i, at) == In(PayId(1), i, "regular", IF i = 1 THEN 3 ELSE Coin - 4, at[1], at[2])

R == Pay(1, 1, 0, <<FirstOut(5)>>, <<3, Coin - 4>>)
S(at) == Pay(2, 2, 0, <<FromR(1, at)>>, <<2>>)
V(at) == Pay(3, 1, 0, <<FromR(2, at)>>, <<Coin - 5>>)
W(at) == Pay(4, 2, 0, <<FromR(1, at), FromR(2, at)>>, <<Coin - 2>>)
D == Pay(5, 1, 0, <<FirstOut(5), FirstOut(6)>>, <<2 * Coin>>)
E == Pay(6, 1, 9, <<FirstOut(6)>>, <<Coin>>)
F(at) == Pay(7, 1, 0, <<In(PayId(6), 1, "regular", Coin, at[1], at[2])>>, <<Coin - 1>>)
G(c, h) ==
    Pay(8, 1, 0, <<In(CoinbaseId(c[h - 1].id), 2, "regular", c[h - 1].txs[1].outs[2].value,
                      h - 1, 1)>>, <<1>>)
Lie == Pay(9, 1, 0, <<In(FirstId, 6, "regular", 2 * Coin, 1, 1)>>, <<Coin>>)

RegularTree(c, h, name) ==
    LET at == WhereIs(c, PayId(1))
    IN  CASE name = "none" -> <<>>
          [] name = "R" -> <<R>>
          [] name = "RS" -> <<R, S(<<h, 2>>)>>
          [] name = "RW" -> <<R, W(<<h, 2>>)>>
          [] name = "S" -> <<S(at)>>
          [] name = "SV" -> <<S(at), V(at)>>
          [] name = "W" -> <<W(at)>>
          [] name = "D" -> <<D>>
          [] name = "EF" -> <<E, F(<<h, 2>>)>>
          [] name = "E" -> <<E>>
          [] name = "G" -> <<G(c, h)>>
          [] name = "lie" -> <<Lie>>

StakeTree(c, name) ==
    LET at == WhereIs(c, PayId(1))
    IN  CASE name = "none" -> <<>>
          [] name = "buy" -> <<Purchase(5, FirstOut(7))>>
          [] name = "buyR" -> <<Purchase(6, FromR(2, at))>>
          [] name = "revoke" -> <<Revocation>>

\* The blocks in play: the stake tree, the regular tree, and what the miner
\* takes of the fees (R pays one atom).
Templates ==
    <<<<"none", "none", 0>>, <<"none", "R", 1>>, <<"none", "R", 2>>, <<"none", "RS", 0>>,
      <<"none", "RW", 0>>, <<"buyR", "none", 0>>, <<"buyR", "S", 0>>, <<"none", "SV", 2>>,
      <<"none", "W", 0>>, <<"revoke", "D", 0>>, <<"buy", "EF", 0>>, <<"none", "G", 0>>,
      <<"none", "lie", 0>>>>

MCBlocks(c) ==
    LET h == Len(c) + 1
        last == Tip(c)
        block(yes, n) ==
          LET t  == Templates[n]
              id == last.id \o <<IF yes THEN 1 ELSE 0, n>>
          IN  BlockOf(id, h, yes, <<Vote(h, last.id, yes)>> \o StakeTree(c, t[1]),
                      <<Coinbase(id, h, 1, t[3])>> \o RegularTree(c, h, t[2]))
    IN  {block(yes, n) : yes \in BOOLEAN, n \in InPlay}

\* The blocks before the start are valid themselves.
ASSUME LedgerAssumption
ASSUME Replayed(MCPrefix).ok /\ \A h \in DOMAIN MCPrefix :
          Acceptable(MCPrefix[h], BlockAt(MCPrefix, h - 1))

-----------------------------------------------------------------------------
\* Every tree of up to six blocks and every pair of its blocks.  Blocks are
\* numbered so that a parent has a smaller number.
An == INSTANCE Ancestry WITH MaxAncestorChainLength <- 3

Trees == UNION {{p \in [0 .. n -> 0 .. n] : p[0] = 0 /\ \A b \in 1 .. n : p[b] < b} : n \in 0 .. 5}

Unknown == An!Failed("pending")

SearchInit ==
    /\ parent \in Trees
    /\ hashA \in DOMAIN parent /\ hashB \in DOMAIN parent
    /\ found = Unknown /\ orphaned = -2

Search ==
    /\ found = Unknown
    /\ found' = An!CommonAncestor(parent, hashA, hashB)
    /\ orphaned' = An!OrphanedTipLength(An!PathIn(parent)[hashA], An!PathIn(parent)[hashB])
    /\ UNCHANGED <<parent, hashA, hashB>>

\* Within a window of two blocks all votes are the same.
Ballot(v, choice) == [version |-> v, votes |-> <<[version |-> v, choice |-> choice]>>]
Ballots(p) ==
    LET ballots == {Ballot(3, "yes"), Ballot(4, "yes"), Ballot(4, "no")}
    IN  IF Len(p) % 2 = 0 THEN ballots ELSE {b \in ballots : b.votes = p[Len(p)].votes}

Ag == INSTANCE Agendas WITH
          VoteVersion <- 4, StakeValidationHeight <- 1, StakeVersionInterval <- 2,
          RuleChangeActivationInterval <- 2, RuleChangeActivationQuorum <- 1,
          ActivationMul <- 3, ActivationDiv <- 4, StakeMajorityMul <- 3, StakeMajorityDiv <- 4,
          BlockRejectNumRequired <- 2, BlockUpgradeNumToCheck <- 2, StartTime <- 2,
          ExpireTime <- 7, MedianTimeBlocks <- 3, Mined <- Ballots, MaxHeight <- 8,
          MaxForks <- 1, ForkPoints <- {4}

Vt == INSTANCE VoteTracker WITH
          Refreshes <- {1, 2}, BlockUpgradeNumToCheck <- 2, StartHeights <- {2}, VotingDone <- 3,
          RuleChangeActivationInterval <- 3, TicketsPerBlock <- 2, ThresholdMul <- 3,
          ThresholdDiv <- 4, MaxHeight <- 5, MaxDisturbances <- 1

NetParams ==
    [Digit |-> 4, Padding |-> 16, Hashes |-> 100000, PowLimit |-> 256, WorkDiffWindowSize |-> 2,
     WorkDiffWindows |-> 2, WorkDiffAlpha |-> 1, TargetTimespan |-> 4,
     RetargetAdjustmentFactor |-> 4, ReduceMinDifficulty |-> FALSE, MinDiffReductionTime |-> 6,
     CoinbaseMaturity |-> 1, StakeDiffWindowSize |-> 3, StakeDiffWindows |-> 2,
     StakeDiffAlpha |-> 1, TicketsPerBlock |-> 1, TicketPoolSize |-> 2,
     TicketPoolSizeWeight |-> 2, MinimumStakeDiff |-> 8, MaxFreshStakePerBlock |-> 3,
     TicketMaturity |-> 2, SubsidyReductionInterval |-> 6, BaseSubsidy |-> 40,
     MulSubsidy |-> 3, DivSubsidy |-> 4, BlockOneSubsidy |-> 100, StakeValidationHeight |-> 4,
     SDiffAgendaDefined |-> TRUE, SDiffAgendaActive |-> TRUE]

\* Tickets in a block and the time since the last one.
Di == INSTANCE Difficulty WITH Params <- NetParams, Arrivals <- {<<0, 9>>, <<1, 2>>, <<3, 1>>},
                               MaxHeight <- 8, chain <- headers

\* Scripts of each form, and the outputs of a ticket as putMinimalOutputs
\* writes them: 70 atoms of script version 0, 9 atoms of version 5.
Scripts ==
    {[form |-> "pubKeyHash", data |-> <<3>>], [form |-> "longKeyOdd", data |-> <<3, 5>>],
     [form |-> "raw", data |-> <<>>], [form |-> "raw", data |-> <<1, 0, 7>>]}
Output(a, v, s) == [amount |-> a, scriptVersion |-> v, script |-> s, compressed |-> FALSE]
MinimalOutputs == <<2, 14, 6, 0, 1, 1, 8, 9, 1, 5, 0>>
UtxoEntries ==
    {[txVersion |-> 1, height |-> h, index |-> 4, isCoinBase |-> c, hasExpiry |-> FALSE,
      txType |-> t, stakeExtra |-> IF t = 1 THEN MinimalOutputs ELSE <<>>,
      outputs |-> [i \in outs |->
                     [out |-> Output(100 * i + 7, i,
                                CHOOSE s \in Scripts :
                                   s.form = IF i % 2 = 0 THEN "raw" ELSE "longKeyOdd"),
                      spent |-> i \in spent]]] :
       h \in {3, 21}, c \in BOOLEAN, t \in {0, 1}, outs \in (SUBSET {0, 1, 2, 4, 6}) \ {{}},
       spent \in SUBSET {0, 1, 6}}
SpentOutputs ==
    {[out |-> Output(a, v, s), txFullySpent |-> f, isCoinBase |-> FALSE, hasExpiry |-> f,
      txType |-> IF f THEN 1 ELSE 0, txVersion |-> IF f THEN 6 ELSE 0,
      stakeExtra |-> IF f THEN MinimalOutputs ELSE <<>>] :
       a \in {0, 1230, 1000000000}, v \in {0, 5}, s \in Scripts, f \in BOOLEAN}
VoteRecords == {<<>>, <<[ticket |-> 4, version |-> 6, bits |-> 1],
                        [ticket |-> 5, version |-> 0, bits |-> 25]>>}
UndoRecord(h, missed, revoked, spent, expired) ==
    [hash |-> h, height |-> 7, missed |-> missed, revoked |-> revoked, spent |-> spent,
     expired |-> expired]

Cd == INSTANCE Codecs WITH
          Digit <- 8, BitmapBits <- 3, HashSize <- 1, KeySize <- 2, NumSpecialScripts <- 8,
          Entries <- UtxoEntries,
          Journals <- {<<a, b>> : a \in SpentOutputs,
                                  b \in {x \in SpentOutputs : x.out.amount = 1230}} \cup {<<>>},
          IndexEntries <- {[header |-> 9, status |-> 3, votes |-> v, revoked |-> r] :
                              v \in VoteRecords, r \in {<<>>, <<2>>, <<2, 3>>}},
          BestStates <- {[hash |-> 1, height |-> 2, totalTxns |-> 3, totalSubsidy |-> 4,
                          workSum |-> w] : w \in {<<>>, <<1>>, <<1, 0>>}},
          Undos <- {<<>>} \cup {<<UndoRecord(4, a, b, ~b, c), UndoRecord(5, FALSE, b, a, FALSE)>> :
                                   a \in BOOLEAN, b \in BOOLEAN, c \in BOOLEAN},
          StakeStates <- {[hash |-> 1, height |-> 2, live |-> 3, missed |-> 4, revoked |-> 5,
                           perBlock |-> 2, nextWinners |-> w] : w \in {<<>>, <<6>>, <<6, 7>>}}

Ar == INSTANCE AddressRows WITH Txs <- {1, 2, 3}, MaxInputs <- 2, MaxTime <- 2,
                                Outs <- {<<>>, (1 :> 3), (0 :> 1) @@ (1 :> 2)}

\* Scripts of each class, and pushes at and around the lengths that are allowed.
Script(version, class, op, length, data) ==
    [version |-> version, class |-> class, op |-> op, length |-> length, data |-> data, value |-> 5]
StakeScripts ==
    {Script(0, class, 118, 26, 0) : class \in {"submission", "change", "gen", "revocation"}}
      \cup {Script(0, "nulldata", op, op + 2, 11) : op \in {1, 2, 6, 29, 30, 36}}
      \cup {Script(0, "nulldata", 30, 32, 3), Script(0, "nulldata", 76, 38, 3),
            Script(1, "nulldata", 36, 38, 3)}
StakeIns ==
    {[null |-> TRUE, nullProof |-> TRUE, tree |-> "regular", index |-> 7],
     [null |-> TRUE, nullProof |-> FALSE, tree |-> "regular", index |-> 7]}
      \cup {[null |-> FALSE, nullProof |-> TRUE, tree |-> tree, index |-> i] :
               tree \in {"stake", "regular"}, i \in {0, 1}}

St == INSTANCE StakeTx WITH MaxInputsPerSStx <- 1, AmountBits <- 4, TxIns <- StakeIns,
                            Scripts <- StakeScripts, LogSteps <- 3

Tr == INSTANCE Treap WITH Keys <- {1, 2, 3, 4}, Heights <- {1, 2, 3}, WordSize <- 16

\* What the generator returns, each index of a small treap among it.
RandomNumbers == <<3, 3, 7, 1, 0, 2, 2, 9, 4, 5, 8>>

Contributions == {<<a, b>> : a \in {2, 5, 9}, b \in {0, 3, 7}}

\* Heights in the first intervals, around the one where nothing is left, beyond.
SubsidyHeights == {0, 7, 24, 49, 50, 55, 90}

-----------------------------------------------------------------------------
\* A part that does not run starts in one state only.
MCInit ==
    /\ part \in {"ledger", "searches", "agendas", "tracker", "difficulty", "codecs", "stake",
              "treap", "addresses"}
    /\ Init
    /\ SearchInit /\ (part = "searches" \/ parent = [b \in {0} |-> 0])
    /\ Vt!TrackerInit
    /\ part = "tracker" \/ (versions = 0 /\ stored = 0 /\ \A i \in DOMAIN blocks : blocks[i].yes = 1)
    /\ Ag!Init /\ Di!Init /\ Cd!Init /\ St!StakeTxInit /\ Tr!TreapInit /\ Ar!Init

MCNext ==
    \/ /\ part = "ledger" /\ Next
       /\ UNCHANGED <<part, searchVars, agendaVars, trackerVars, headers, sample, stx, treapVars, addressVars>>
    \/ /\ part = "searches" /\ Search
       /\ UNCHANGED <<part, vars, agendaVars, trackerVars, headers, sample, stx, treapVars, addressVars>>
    \/ /\ part = "agendas" /\ Ag!Next
       /\ UNCHANGED <<part, vars, searchVars, trackerVars, headers, sample, stx, treapVars, addressVars>>
    \/ /\ part = "tracker" /\ Vt!TrackerNext
       /\ UNCHANGED <<part, vars, searchVars, agendaVars, headers, sample, stx, treapVars, addressVars>>
    \/ /\ part = "difficulty" /\ Di!Next
       /\ UNCHANGED <<part, vars, searchVars, agendaVars, trackerVars, sample, stx, treapVars, addressVars>>
    \/ /\ part = "codecs" /\ Cd!Next
       /\ UNCHANGED <<part, vars, searchVars, agendaVars, trackerVars, headers, stx, treapVars, addressVars>>
    \/ /\ part = "stake" /\ St!StakeTxNext
       /\ UNCHANGED <<part, vars, searchVars, agendaVars, trackerVars, headers, sample, treapVars, addressVars>>
    \/ /\ part = "treap" /\ Tr!TreapNext
       /\ UNCHANGED <<part, vars, searchVars, agendaVars, trackerVars, headers, sample, stx, addressVars>>
    \/ /\ part = "addresses" /\ Ar!Next
       /\ UNCHANGED <<part, vars, searchVars, agendaVars, trackerVars, headers, sample, stx, treapVars>>

MCSpec ==
    MCInit /\ [][MCNext]_<<part, vars, searchVars, agendaVars, trackerVars, headers, sample, stx, treapVars, addressVars>>

-----------------------------------------------------------------------------
HeightOf == An!HeightIn(parent)
OnPathTo(b) == LET p == An!PathIn(parent)[b] IN {p[i] : i \in DOMAIN p}

\* The blocks that are below both tips.
BelowBoth == {b \in OnPathTo(hashA) \cap OnPathTo(hashB) : b /= hashA /\ b /= hashB}

Highest(blks) == CHOOSE b \in blks : \A c \in blks : HeightOf[c] <= HeightOf[b]

\* The branch from just above block a to block b, the lowest block first.
Branch(a, b) ==
    LET p == An!PathIn(parent)[b] IN SubSeq(p, HeightOf[a] + 2, HeightOf[b] + 1)

\* CommonAncestor finds the highest block below both tips with both branches
\* down to it, also when one tip is on the other's branch; it fails exactly
\* when there is no such block or the longer branch passes the bound.
CommonAncestorIsHighest ==
    found /= Unknown =>
      LET a == IF BelowBoth = {} THEN An!Genesis ELSE Highest(BelowBoth)
          far == {HeightOf[t] - HeightOf[a] : t \in {hashA, hashB}}
      IN IF \E n \in far : n > 3 THEN found = An!Failed("length")
         ELSE IF BelowBoth = {} THEN found.err = IF 3 \in far THEN "length" ELSE "genesis"
         ELSE found = [err |-> "none", ancestor |-> a,
                       chainA |-> Branch(a, hashA), chainB |-> Branch(a, hashB)]

\* OrphanedTipLength counts the blocks of the database (tip hashA) that are not
\* on dcrd's main chain (tip hashB), and fails only when that is shorter.
OrphansAreCounted ==
    orphaned /= -2 =>
      IF HeightOf[hashB] < HeightOf[hashA] THEN orphaned = -1
      ELSE orphaned = Cardinality(OnPathTo(hashA) \ OnPathTo(hashB))

\* Ledger: the unspent outputs, and what a reorganization's view holds of them,
\* are those that a replay of the main chain gives.
LedgerIsReplay == part = "ledger" => UtxoIsReplay /\ ViewIsDatabase

\* Ledger: nothing is paid that was not issued.  StakeTx: the shares of a ticket
\* add up.  Subsidy: the order of the calls does not matter to its cache.
ValueIsIssued ==
    /\ part = "ledger" => PaidWasIssued
    /\ part = "stake" /\ stx.ins = <<>> =>
         /\ \A amounts, change \in Contributions, price \in {1, 4, 9}, subsidy \in {0, 3} :
              St!RewardsAddUp(amounts, change, price, subsidy)
         /\ \A a, b, c, h \in SubsidyHeights : SubsidyIsOrderFree(<<a, b, c>>, h)

\* Ancestry: both searches find what their reference definitions name.  Treap:
\* whatever was put and deleted, a ticket is found by its key, its rank and its
\* height, and the lottery is as likely to draw one as another.
SearchesAreExact ==
    /\ part = "searches" => CommonAncestorIsHighest /\ OrphansAreCounted
    /\ part = "treap" =>
         Tr!TreapIsSound /\ (contents = <<>> => Tr!DrawIsFair(RandomNumbers))

\* Agendas: cached states are what a computation from genesis gives, and an
\* agenda moves forward only, window by window.  VoteTracker: the versions that
\* it counts are those of the last blocks, a count of votes is final, and so is
\* the lock that it announces.
AgendasAreSound ==
    /\ part = "agendas" => Ag!CachesAreFresh /\ Ag!AgendaMovesForward
    /\ part = "tracker" =>
         /\ Vt!RingIsWindow /\ Vt!CountsAreFinal
         /\ refresh = [r \in {1, 2} |-> Vt!Idle] /\ tracker = Vt!Tracker => Vt!LockIsFinal(64)

\* Difficulty: the estimated ticket price is the price that is then required,
\* and a retarget stays within its bounds.
DifficultyIsSound == part = "difficulty" => Di!EstimateIsThePrice /\ Di!DifficultyIsBounded

\* Codecs: what is read from the databases is what was written.  StakeTx: what is
\* read from a stake transaction is in it, and a Merkle proof verifies the leaf
\* that it was made for and no other.
RecordsRoundTrip ==
    /\ part = "codecs" => Cd!UtxoRoundTrip /\ Cd!JournalRoundTrip
    /\ part = "stake" => St!ReadsAreInside
    /\ part = "stake" /\ stx.ins = <<>> => \A n \in 0 .. 9 : St!ProofsAreExact(n)

\* AddressRows: pages add up to the rows, and an unconfirmed transaction counts
\* once.
AddressPagesAddUp == part = "addresses" => Ar!PagesAddUp /\ Ar!UnconfirmedCountedOnce
=============================================================================
