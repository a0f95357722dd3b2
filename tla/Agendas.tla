------------------------------ MODULE Agendas ------------------------------
(***************************************************************************)
(* Votes on consensus rule changes: stake versions                         *)
(* (blockchain/stakeversion.go), the tally of one agenda (votebits.go) and *)
(* its threshold state with the cache of it (thresholdstate.go).           *)
(*                                                                         *)
(* A block is the sequence of blocks from height one up to it, so that two *)
(* branches share nothing above their fork, and its length is its height;  *)
(* genesis is the empty sequence.  A block has a version, the stake        *)
(* version of its header, a time, and votes with a version and a choice.   *)
(***************************************************************************)
EXTENDS Integers, Sequences, SequencesExt, FiniteSets, TLC

CONSTANTS
    VoteVersion,                 \* The version of votes on the agenda.
    StakeValidationHeight, StakeVersionInterval, RuleChangeActivationInterval,
    RuleChangeActivationQuorum, ActivationMul, ActivationDiv,
    StakeMajorityMul, StakeMajorityDiv,
    BlockRejectNumRequired, BlockUpgradeNumToCheck,
    StartTime, ExpireTime, MedianTimeBlocks,
    Mined(_),                    \* The [version, votes] of blocks that may follow a chain.
    MaxHeight, MaxForks,         \* Bounds, and
    ForkPoints                   \* the heights branches may start at.

VARIABLES tip, cache, versionCache, forks

agendaVars == <<tip, cache, versionCache, forks>>

\* The choices of the agenda, in order; a vote may name none of them.
AgendaChoices == <<"abstain", "no", "yes">>
InvalidChoice == "none"

GenesisBlock == [version |-> 1, stakeVersion |-> 0, time |-> 0, votes |-> <<>>]
At(p, h) == IF h = 0 THEN GenesisBlock ELSE p[h]
Ancestor(p, h) == SubSeq(p, 1, h)
LastBlocks(p, n) == {h \in 0..Len(p) : h > Len(p) - n}

\* CalcPastMedianTime.
MedianTime(p) ==
    LET middle(s) == s[(Len(s) \div 2) + 1]
    IN  middle(SortSeq([i \in 1..Cardinality(LastBlocks(p, MedianTimeBlocks)) |->
                          At(p, Len(p) - i + 1).time], <))

(***************************************************************************)
(* Stake versions.                                                         *)
(***************************************************************************)
\* The last block of the interval before the one height h is in.
calcWantHeight(interval, h) ==
    LET offset   == StakeValidationHeight % interval
        adjusted == h - offset - 1
    IN  adjusted - ((adjusted + 1) % interval) + offset

isMajorityVersion(minVer, p) ==
    Cardinality({h \in LastBlocks(p, BlockUpgradeNumToCheck) : At(p, h).version >= minVer})
      >= BlockRejectNumRequired

\* The height of the block findStakeVersionPriorNode finds; -1 for none.
PriorHeight(p) ==
    IF Len(p) + 1 < StakeValidationHeight + StakeVersionInterval THEN -1
    ELSE calcWantHeight(StakeVersionInterval, Len(p) + 1)

NumRequired(n) == (n * StakeMajorityMul) \div StakeMajorityDiv

isStakeMajorityVersion(minVer, p) ==
    LET q == Ancestor(p, PriorHeight(p))
    IN  IF PriorHeight(p) < 0 THEN 0 >= minVer
        ELSE Cardinality({h \in LastBlocks(q, StakeVersionInterval) :
                            At(q, h).stakeVersion >= minVer})
               >= NumRequired(StakeVersionInterval)

\* The stake version most blocks of the prior interval have; zero when none
\* has the majority, for its caller then leaves the version alone.
calcPriorStakeVersion(p) ==
    LET of(q, v) == Cardinality({h \in LastBlocks(q, StakeVersionInterval) :
                                   At(q, h).stakeVersion = v})
        won(q) == {v \in {At(q, h).stakeVersion : h \in LastBlocks(q, StakeVersionInterval)} :
                     of(q, v) >= NumRequired(StakeVersionInterval)}
        one(versions) == IF versions = {} THEN 0 ELSE CHOOSE v \in versions : TRUE
    IN  IF PriorHeight(p) < 0 THEN 0 ELSE one(won(Ancestor(p, PriorHeight(p))))

VotesIn(p, hs) == {<<h, i>> \in hs \X (1..Len(AgendaChoices)) : i \in DOMAIN At(p, h).votes}

\* The version with the majority of the votes of the interval that ends with
\* p: the set of them, empty when there is none.
calcVoterVersionInterval(p) ==
    LET all   == VotesIn(p, LastBlocks(p, StakeVersionInterval))
        of(v) == {x \in all : At(p, x[1]).votes[x[2]].version = v}
    IN  {v \in {At(p, x[1]).votes[x[2]].version : x \in all} :
           Cardinality(of(v)) >= NumRequired(Cardinality(all))}

\* The heights, interval by interval backwards, at which it is asked for.
IntervalEnds(p) ==
    {h \in StakeValidationHeight..PriorHeight(p) :
       (PriorHeight(p) - h) % StakeVersionInterval = 0}

\* The latest interval with a majority decides.
calcVoterVersion(p) ==
    LET at(h) == [version |-> CHOOSE v \in calcVoterVersionInterval(Ancestor(p, h)) : TRUE,
                  height |-> h]
        latest(found) == IF found = {} THEN [version |-> 0, height |-> 0]
                         ELSE at(CHOOSE x \in found : \A y \in found : y <= x)
    IN  latest({h \in IntervalEnds(p) : calcVoterVersionInterval(Ancestor(p, h)) # {}})

\* The version without its cache: never below the one the blocks already have.
StakeVersionAt(node, voted) ==
    LET start == Ancestor(node, calcWantHeight(StakeVersionInterval, Len(node)) + 1)
        atLeast(prior) == IF isStakeMajorityVersion(voted, node) /\ prior > voted THEN prior
                          ELSE voted
    IN  IF ~isMajorityVersion(3, start) THEN 0 ELSE atLeast(calcPriorStakeVersion(node))

\* The mutation of Key that tells blocks apart by their height only.
KeyOfHeight(p) == [i \in DOMAIN p |-> p[1]]

\* What the caches are indexed by: the hash of the block.
Key(p) == p

Cached(c, k, value) == [x \in DOMAIN c \cup {k} |-> IF x = k THEN value ELSE c[x]]

calcStakeVersion(vc, p) ==
    LET cached(node, value) == [version |-> value, cache |-> Cached(vc, Key(node), value)]
        at(node, voted) == cached(node, IF Key(node) \in DOMAIN vc THEN vc[Key(node)]
                                        ELSE StakeVersionAt(node, voted))
        of(voter) == IF voter.version = 0 THEN [version |-> 0, cache |-> vc]
                     ELSE at(Ancestor(p, voter.height), voter.version)
    IN  of(calcVoterVersion(p))

(***************************************************************************)
(* Tallies.                                                                *)
(***************************************************************************)
\* Condition: the votes of the agenda's version with a known choice.
Condition(p, hs, choice) ==
    Cardinality({x \in VotesIn(p, hs) :
                   At(p, x[1]).votes[x[2]] = [version |-> VoteVersion, choice |-> choice]})

\* The votes of a version in the window p is in.
VotesOfVersion(p, v) ==
    LET from == calcWantHeight(RuleChangeActivationInterval, Len(p))
        hs   == IF Len(p) < StakeValidationHeight THEN {} ELSE (from + 1)..Len(p)
    IN  {x \in VotesIn(p, hs) : At(p, x[1]).votes[x[2]].version = v}

CountVoteVersion(p, v) == Cardinality(VotesOfVersion(p, v))

getVoteCounts(p) ==
    LET mine == VotesOfVersion(p, VoteVersion)
        for(S) == Cardinality({x \in mine : At(p, x[1]).votes[x[2]].choice \in S})
    IN  [total |-> Cardinality(mine),
         totalAbstain |-> Cardinality(mine) - for({"no", "yes"}),
         choices |-> [k \in DOMAIN AgendaChoices |-> for({AgendaChoices[k]})]]

(***************************************************************************)
(* The threshold state.                                                    *)
(***************************************************************************)
Tuple(state, choice) == [state |-> state, choice |-> choice]
Defined == Tuple("defined", InvalidChoice)

\* What the votes of the window that ends with p decide.  The choices are
\* looked at in order and the first with enough votes ends the search, unless
\* it abstains.
CountedState(p) ==
    LET hs       == LastBlocks(p, RuleChangeActivationInterval)
        decided  == Condition(p, hs, "no") + Condition(p, hs, "yes")
        enough(c) == Condition(p, hs, c) >= (decided * ActivationMul) \div ActivationDiv
    IN  IF decided < RuleChangeActivationQuorum THEN Tuple("started", InvalidChoice)
        ELSE IF enough("no") THEN Tuple("failed", "no")
        ELSE IF enough("yes") THEN Tuple("lockedin", "yes")
        ELSE Tuple("started", InvalidChoice)

\* One window further: the state before it, and the last block of it.
NextState(vc, before, p) ==
    CASE before.state = "defined" ->
           IF Len(p) < StakeValidationHeight THEN before
           ELSE IF MedianTime(p) >= ExpireTime THEN Tuple("failed", before.choice)
           ELSE IF calcStakeVersion(vc, p).version < VoteVersion THEN before
           ELSE IF ~isMajorityVersion(VoteVersion, p) THEN before
           ELSE IF MedianTime(p) >= StartTime THEN Tuple("started", before.choice)
           ELSE before
      [] before.state = "started" ->
           IF MedianTime(p) >= ExpireTime THEN Tuple("failed", before.choice)
           ELSE CountedState(p)
      [] before.state = "lockedin" -> Tuple("active", before.choice)
      [] before.state \in {"active", "failed"} -> before

\* The ends of the windows up to the one before the next block, the last
\* first, as the loop visits them until one is cached or before the start.
WindowEnds(p) ==
    LET want == calcWantHeight(RuleChangeActivationInterval, Len(p) + 1)
        n    == want \div RuleChangeActivationInterval
    IN  [i \in 1..(n + 1) |-> want - (i - 1) * RuleChangeActivationInterval]

nextThresholdState(c, vc, p) ==
    LET untouched == [state |-> Defined, cache |-> c, vc |-> vc]
        stopsAt(q) == Key(q) \in DOMAIN c \/ MedianTime(q) < StartTime
        begin(q) == IF Key(q) \in DOMAIN c THEN [untouched EXCEPT !.state = c[Key(q)]]
                    ELSE [untouched EXCEPT !.cache = Cached(c, Key(q), Defined)]
        moved(s, q, next) ==
          [state |-> next, cache |-> Cached(s.cache, Key(q), next),
           vc |-> IF s.state.state = "defined" THEN calcStakeVersion(s.vc, q).cache ELSE s.vc]
        step(s, h) == moved(s, Ancestor(p, h), NextState(s.vc, s.state, Ancestor(p, h)))
        from(ends, stop) ==
          FoldLeft(step, IF stop > Len(ends) THEN untouched ELSE begin(Ancestor(p, ends[stop])),
                   Reverse(SubSeq(ends, 1, stop - 1)))
        first(ends, stops) == from(ends, IF stops = {} THEN Len(ends) + 1
                                         ELSE CHOOSE i \in stops : \A j \in stops : i <= j)
        walk(ends) == first(ends, {i \in DOMAIN ends : stopsAt(Ancestor(p, ends[i]))})
    IN  IF Len(p) + 1 < StakeValidationHeight + RuleChangeActivationInterval THEN untouched
        ELSE walk(SelectSeq(WindowEnds(p), LAMBDA h : h >= 0))

Empty == [x \in {} |-> Defined]
NoVersions == [x \in {} |-> 0]
FreshState(p) == nextThresholdState(Empty, NoVersions, p).state

isAgendaActive(p) == FreshState(p).state = "active"

\* The height of the first block with the state of p; zero when the state
\* never changed.
stateLastChanged(p) ==
    LET first  == calcWantHeight(RuleChangeActivationInterval, Len(p)) + 1
        starts == {h \in 1..first : (first - h) % RuleChangeActivationInterval = 0}
        other(now) == {h \in starts : FreshState(Ancestor(p, h - 1)).state # now}
        after(hs) == IF hs = {} THEN 0
                     ELSE (CHOOSE h \in hs : \A x \in hs : x <= h) + RuleChangeActivationInterval
    IN  IF Len(p) < StakeValidationHeight + RuleChangeActivationInterval THEN 0
        ELSE after(other(FreshState(Ancestor(p, Len(p) - 1)).state))

(***************************************************************************)
(* The machine: blocks are mined or leave with a reorganization, and       *)
(* anyone may ask for the state at a block.                                *)
(***************************************************************************)
Init == tip = <<>> /\ cache = Empty /\ versionCache = NoVersions /\ forks = 0

\* The state at the parent is asked for when a block is checked.
Asked(p) ==
    \E r \in {nextThresholdState(cache, versionCache, p)} :
      cache' = r.cache /\ versionCache' = r.vc

\* A block carries the stake version that is expected of it, and blocks come
\* one unit of time after another.
Mine ==
    /\ Len(tip) < MaxHeight
    /\ \E b \in Mined(tip) :
          tip' = Append(tip, [version |-> b.version, votes |-> b.votes, time |-> Len(tip) + 1,
                              stakeVersion |-> calcStakeVersion(NoVersions, tip).version])
    /\ Asked(tip)
    /\ UNCHANGED forks

Fork(h) ==
    /\ h < Len(tip) /\ forks < MaxForks
    /\ tip' = Ancestor(tip, h) /\ forks' = forks + 1
    /\ UNCHANGED <<cache, versionCache>>

NextThresholdState ==
    /\ Asked(tip)
    /\ UNCHANGED <<tip, forks>>

Next == Mine \/ NextThresholdState \/ \E h \in ForkPoints : Fork(h)

Spec == Init /\ [][Next]_agendaVars

(***************************************************************************)
(* What must hold.                                                         *)
(***************************************************************************)
\* A cached state or version is what a computation from genesis gives for the
\* block it is cached for, whichever branches were asked about and in which
\* order.
CachesAreFresh ==
    /\ \A p \in DOMAIN cache : cache[p] = FreshState(p)
    /\ \A p \in DOMAIN versionCache :
         versionCache[p] = StakeVersionAt(p, CHOOSE v \in calcVoterVersionInterval(p) : TRUE)

Follows(a, b) ==
    \/ b = a /\ a # "lockedin"
    \/ a = "defined" /\ b \in {"started", "failed"}
    \/ a = "started" /\ b \in {"lockedin", "failed"}
    \/ a = "lockedin" /\ b = "active"

\* Along a chain the state changes only between windows, only forwards, stays
\* locked in for exactly one window, and the choice that was locked in had the
\* votes as getVoteCounts counts them; the block stateLastChanged names is the
\* first with the state.
AgendaMovesForward ==
    LET h == Len(tip)
        boundary == h = calcWantHeight(RuleChangeActivationInterval, h + 1)
    IN  tip # <<>> =>
          \E a \in {FreshState(Ancestor(tip, h - 1))}, b \in {FreshState(tip)},
             votes \in {getVoteCounts(tip)}, changed \in {stateLastChanged(tip)} :
            /\ isAgendaActive(Ancestor(tip, h - 1)) => isAgendaActive(tip)
            /\ votes.total <= CountVoteVersion(tip, VoteVersion)
            /\ IF boundary THEN Follows(a.state, b.state) ELSE a = b
            /\ a.state = "started" /\ b.state = "lockedin" =>
                 /\ ActivationDiv * votes.choices[3]
                      >= ActivationMul * (votes.choices[2] + votes.choices[3])
                 /\ votes.total - votes.totalAbstain >= RuleChangeActivationQuorum
            /\ changed # 0 =>
                 /\ FreshState(Ancestor(tip, changed - 1)).state = a.state
                 /\ FreshState(Ancestor(tip, changed - 2)).state # a.state
=============================================================================
