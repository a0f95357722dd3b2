---------------------------- MODULE VoteTracker -----------------------------
(***************************************************************************)
(* gov/agendas/tracker.go: the vote tracker.  Every block that the explorer*)
(* stores starts a Refresh of its own; it asks the node in three steps     *)
(* without a lock and then updates the tracker under the lock.  A block is *)
(* its version (its miner's) and the vote that it holds.  The chain        *)
(* database is behind the node while dcrdata synchronizes.                 *)
(***************************************************************************)
EXTENDS Integers, Sequences, FiniteSets, SequencesExt, FiniteSetsExt

CONSTANTS Refreshes,              \* goroutines that refresh at a time
          BlockUpgradeNumToCheck,
          StartHeights,           \* of the chain when the tracker is made
          VotingDone,             \* height of the last vote on the agenda
          RuleChangeActivationInterval, TicketsPerBlock, ThresholdMul, ThresholdDiv,
          MaxHeight, MaxDisturbances

VARIABLES versions,   \* the node has agendas of versions 0 .. versions - 1
          blocks,     \* the node's main chain
          stored,     \* height of the chain database
          tracker,
          refresh,    \* what each goroutine has fetched
          disturbed   \* reorganizations and overlapping refreshes so far

trackerVars == <<versions, blocks, stored, tracker, refresh, disturbed>>

MinedBlocks == {[version |-> 0, yes |-> 1], [version |-> 1, yes |-> 0]}
Idle == [at |-> "idle", info |-> <<>>, versions |-> <<>>, full |-> FALSE, gen |-> 0]

\* `counts' is the cached count of votes, -1 for none, and `countedAt' the
\* height of the database that it comes from; `gen' is how often the tracker
\* had been disturbed when the refresh began that fetched the whole ring.
Tracker ==
    [ready |-> FALSE, version |-> 0, ring |-> [i \in 0 .. BlockUpgradeNumToCheck - 1 |-> 0],
     ringIndex |-> -1, ringHeight |-> 0, gen |-> 0, counts |-> -1, countedAt |-> 0,
     summary |-> [height |-> 0, version |-> 0, newMiners |-> 0]]

\* What the chain database counts of the votes on the agenda.
AgendaVoteCounts(chain, height) ==
    Cardinality({i \in 1 .. Min({height, VotingDone}) : chain[i].yes = 1})

\* The votes that lock the agenda in, from counts in the current interval of
\* which `mined' blocks are there; unsigned numbers of Word values.
LockCount(mined, voteCount, abstain, Word) ==
    LET missedVotes == (mined * TicketsPerBlock - voteCount - abstain) % Word
        rciVotes == TicketsPerBlock * RuleChangeActivationInterval
    IN  (((rciVotes - missedVotes) % Word) * ThresholdMul) \div ThresholdDiv

newVoteSummary(t, height) ==
    [height |-> height, version |-> t.version,
     newMiners |-> Cardinality({i \in DOMAIN t.ring : t.ring[i] = t.version})]

\* The ring, oldest first.
RingSeq(t) ==
    [i \in 1 .. BlockUpgradeNumToCheck |-> t.ring[(t.ringIndex + i) % BlockUpgradeNumToCheck]]

Pushed(t, list) ==
    FoldLeft(LAMBDA x, v : LET n == (x.ringIndex + 1) % BlockUpgradeNumToCheck IN
               [x EXCEPT !.ringIndex = n, !.ring[n] = v], t, list)

-----------------------------------------------------------------------------
TrackerInit ==
    /\ versions \in 0 .. 2
    /\ \E n \in StartHeights : blocks \in [1 .. n -> MinedBlocks] /\ stored \in 0 .. n
    /\ tracker = Tracker
    /\ refresh = [r \in Refreshes |-> Idle]
    /\ disturbed = 0

Running == {r \in Refreshes : refresh[r].at # "idle"}
Starts(r) == refresh' = [refresh EXCEPT ![r] = [Idle EXCEPT !.at = "rci", !.gen = disturbed]]

\* The node extends its chain, or replaces its last block by two.
NodeConnects ==
    \E b \in MinedBlocks :
      /\ Len(blocks) < MaxHeight
      /\ blocks' = Append(blocks, b)
      /\ UNCHANGED <<versions, stored, tracker, refresh, disturbed>>

NodeReorganizes ==
    \E a, b \in MinedBlocks :
      /\ Len(blocks) < MaxHeight
      /\ disturbed < MaxDisturbances
      /\ blocks' = Front(blocks) \o <<a, b>>
      /\ stored' = Min({stored, Len(blocks) - 1})
      /\ disturbed' = disturbed + 1
      /\ UNCHANGED <<versions, tracker, refresh>>

\* The tracker is made when dcrdata starts, before the database is synchronized.
NewVoteTracker ==
    /\ ~tracker.ready /\ Running = {}
    /\ \E r \in Refreshes : Starts(r)
    /\ UNCHANGED <<versions, blocks, stored, tracker, disturbed>>

\* The explorer stores a block after the database and starts a refresh.
Store ==
    /\ tracker.ready /\ stored < Len(blocks)
    /\ stored' = stored + 1
    /\ \E r \in Refreshes \ Running : Starts(r)
    /\ Running # {} => disturbed < MaxDisturbances
    /\ disturbed' = IF Running = {} THEN disturbed ELSE disturbed + 1
    /\ UNCHANGED <<versions, blocks, tracker>>

\* Versions are tried upwards from the last known one until one fails; v is the
\* version that failed.  Without any the refresh ends, with nothing to do when
\* no version was known.
refreshRCI(r) ==
    LET v == Max({versions, tracker.version})
        found == tracker.version < versions
    IN /\ refresh[r].at = "rci"
       /\ refresh' = [refresh EXCEPT ![r] =
                        IF found THEN [@ EXCEPT !.at = "blocks", !.info = blocks]
                        ELSE Idle]
       /\ tracker' = [tracker EXCEPT
                        !.version = IF found /\ v > @ + 1 THEN v ELSE @,
                        !.ready = @ \/ (~found /\ tracker.version = 0)]
       /\ UNCHANGED <<versions, blocks, stored, disturbed>>

\* One block when the ring ends at the block before, otherwise a whole ring;
\* fewer blocks than that are an error.
fetchBlocks(r) ==
    LET height == Len(refresh[r].info)
        full == height # tracker.ringHeight + 1
        n == IF full THEN BlockUpgradeNumToCheck ELSE 1
        last == SubSeq(refresh[r].info, height - n + 1, height)
    IN /\ refresh[r].at = "blocks"
       /\ refresh' = [refresh EXCEPT ![r] =
                        IF n > height THEN Idle
                        ELSE [@ EXCEPT !.at = "svis", !.full = full,
                                       !.versions = [i \in 1 .. n |-> last[i].version]]]
       /\ UNCHANGED <<versions, blocks, stored, tracker, disturbed>>

refreshSVIs(r) ==
    /\ refresh[r].at = "svis"
    /\ refresh' = [refresh EXCEPT ![r].at = "update"]
    /\ UNCHANGED <<versions, blocks, stored, tracker, disturbed>>

\* A call of the node fails.
Fails(r) ==
    /\ refresh[r].at \in {"blocks", "svis"}
    /\ refresh' = [refresh EXCEPT ![r] = Idle]
    /\ UNCHANGED <<versions, blocks, stored, tracker, disturbed>>

\* The votes on an agenda that is decided are counted once.
update(r) ==
    LET f == refresh[r]
        height == Len(f.info)
        count == height > VotingDone /\ tracker.counts = -1
        pushed == Pushed(tracker, f.versions)
        set == [pushed EXCEPT
                  !.ready = TRUE, !.ringHeight = height,
                  !.gen = IF f.full THEN f.gen ELSE Min({@, f.gen}),
                  !.counts = IF count THEN AgendaVoteCounts(blocks, stored) ELSE @,
                  !.countedAt = IF count THEN stored ELSE @]
    IN /\ f.at = "update"
       /\ tracker' = [set EXCEPT !.summary = newVoteSummary(set, height)]
       /\ refresh' = [refresh EXCEPT ![r] = Idle]
       /\ UNCHANGED <<versions, blocks, stored, disturbed>>

TrackerNext ==
    \/ NodeConnects \/ NodeReorganizes \/ NewVoteTracker \/ Store
    \/ \E r \in Refreshes :
         refreshRCI(r) \/ fetchBlocks(r) \/ refreshSVIs(r) \/ Fails(r) \/ update(r)

-----------------------------------------------------------------------------
\* tracker.go, fetchBlocks and update: through failed refreshes and blocks that
\* no refresh saw, the ring holds the versions of the last blocks at the
\* summary's height, and the miners counted are theirs, unless a block was
\* replaced or refreshes overlapped since the whole ring was fetched.
RingIsWindow ==
    tracker.ringIndex # -1 /\ tracker.gen = disturbed =>
      LET h == tracker.ringHeight
          window == SubSeq(blocks, h - BlockUpgradeNumToCheck + 1, h)
      IN /\ RingSeq(tracker) = [i \in DOMAIN window |-> window[i].version]
         /\ tracker.summary.height = h
         /\ tracker.summary.newMiners
              = Cardinality({i \in DOMAIN window : window[i].version = tracker.summary.version})

\* tracker.go, countCache: a count that was taken when the database had all
\* votes stays the agenda's count, while these blocks are not replaced.
CountsAreFinal ==
    tracker.counts # -1 /\ tracker.countedAt >= VotingDone /\ disturbed = 0 =>
      tracker.counts = AgendaVoteCounts(blocks, VotingDone)

\* tracker.go, newVoteSummary: with more votes than LockCount no votes that may
\* still come can keep the agenda from its threshold, and the unsigned
\* arithmetic that wraps around for votes of earlier intervals comes out right.
LockIsFinal(Word) ==
    \A mined \in 0 .. RuleChangeActivationInterval :
      \A aye, nay, abstain \in 0 .. mined * TicketsPerBlock :
        LET votes == aye + nay + abstain
            left == (RuleChangeActivationInterval - mined) * TicketsPerBlock
            lock == LockCount(mined, aye + nay, abstain, Word)
        IN /\ lock = ((left + votes) * ThresholdMul) \div ThresholdDiv
           /\ votes <= mined * TicketsPerBlock /\ aye > lock =>
                aye * ThresholdDiv >= (aye + nay + left) * ThresholdMul
=============================================================================
