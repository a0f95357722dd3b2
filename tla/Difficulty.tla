----------------------------- MODULE Difficulty -----------------------------
(***************************************************************************)
(* Proof-of-work targets and ticket prices (blockchain/difficulty.go,      *)
(* blockchain/standalone/pow.go).  Params stands for chaincfg.Params.      *)
(*                                                                         *)
(* A chain is a sequence of blocks, genesis first: the block at height h   *)
(* is chain[h + 1].  A block has a timestamp, a compact target, a ticket   *)
(* price (sbits), the number of live tickets before it (poolSize) and the  *)
(* number of tickets bought in it (freshStake).  Big integers are          *)
(* integers; the 32 bits of padding of fixed-point divisions are Params.   *)
(* Padding, a power of two, and the digits of a compact number are to the  *)
(* base Params.Digit instead of 256.                                       *)
(***************************************************************************)
EXTENDS Integers, Sequences, SequencesExt, FiniteSetsExt

CONSTANTS Params,
          Arrivals,     \* Pairs: the tickets bought in a block, its delay.
          MaxHeight     \* Bound.

VARIABLE chain

SumOver(n, f(_)) == FoldFunction(LAMBDA x, y : x + y, 0, [i \in 1..n |-> f(i)])
AtMost(x, limit) == IF x > limit THEN limit ELSE x
AtLeast(x, limit) == IF x < limit THEN limit ELSE x

(***************************************************************************)
(* Compact numbers.                                                        *)
(***************************************************************************)
Digits(n) == CHOOSE e \in 0..31 : Params.Digit^e > n /\ (e = 0 \/ Params.Digit^(e - 1) <= n)

\* An integer with three digits of mantissa.  The highest bit of the mantissa
\* is the sign, so a mantissa that has it gives up a digit.
BigToCompact(n) ==
    LET e == Digits(n)
        m == IF e <= 3 THEN n * Params.Digit^(3 - e) ELSE n \div Params.Digit^(e - 3)
        signBit == 2 * m >= Params.Digit^3
    IN  IF n = 0 THEN [exponent |-> 0, mantissa |-> 0]
        ELSE IF signBit THEN [exponent |-> e + 1, mantissa |-> m \div Params.Digit]
        ELSE [exponent |-> e, mantissa |-> m]

CompactToBig(c) ==
    IF c.exponent <= 3 THEN c.mantissa \div Params.Digit^(3 - c.exponent)
    ELSE c.mantissa * Params.Digit^(c.exponent - 3)

\* The hashes there are divided by the hashes a target lets pass.
CalcWork(bits) ==
    IF CompactToBig(bits) <= 0 THEN 0 ELSE Params.Hashes \div (CompactToBig(bits) + 1)

CheckProofOfWork(hash, bits) ==
    /\ CompactToBig(bits) > 0 /\ CompactToBig(bits) <= Params.PowLimit
    /\ hash <= CompactToBig(bits)

(***************************************************************************)
(* Averages over windows of blocks.                                        *)
(***************************************************************************)
Height(p) == Len(p) - 1

\* The block i steps back from the tip; the walk stays at genesis.
Back(p, i) == p[AtLeast(Len(p) - i, 1)]

\* The last window weighs most: window w of n, counted from zero, weighs
\* 2^((n - w) * alpha).
WeightedAverage(change, n, alpha) ==
    LET weight(i) == 2^((n - (i - 1)) * alpha)
    IN  SumOver(n, LAMBDA i : change[i - 1] * weight(i)) \div SumOver(n, weight)

(***************************************************************************)
(* Proof of work.                                                          *)
(***************************************************************************)
\* The bits of the last block that is not at the easiest target, or at which
\* the search stops.
findPrevTestNetDifficulty(p) ==
    LET perRetarget == Params.WorkDiffWindowSize * Params.WorkDiffWindows
        limit == BigToCompact(Params.PowLimit)
        stops == {h \in 0..Height(p) : h % perRetarget = 0 \/ p[h + 1].bits # limit}
    IN  p[Max(stops) + 1].bits

\* Mutant: no limit on how far one retarget goes.
NextTargetUnclamped(p) ==
    LET size == Params.WorkDiffWindowSize
        change[w \in 0 .. Params.WorkDiffWindows - 1] ==
          ((Back(p, w * size).time - Back(p, (w + 1) * size).time) * Params.Padding)
            \div Params.TargetTimespan
    IN  AtMost((WeightedAverage(change, Params.WorkDiffWindows, Params.WorkDiffAlpha)
                  * CompactToBig(Last(p).bits)) \div Params.Padding, Params.PowLimit)

NextTarget(p) ==
    LET old  == CompactToBig(Last(p).bits)
        size == Params.WorkDiffWindowSize
        end(w) == Back(p, w * size)
        elapsed(w) ==
          IF Height(p) <= (w + 1) * size THEN Params.TargetTimespan
          ELSE end(w).time - end(w + 1).time
        change[w \in 0 .. Params.WorkDiffWindows - 1] ==
          (elapsed(w) * Params.Padding) \div Params.TargetTimespan
        next == (WeightedAverage(change, Params.WorkDiffWindows, Params.WorkDiffAlpha) * old)
                  \div Params.Padding
        easiest == old * Params.RetargetAdjustmentFactor
        hardest == old \div Params.RetargetAdjustmentFactor
        clamped == IF next = 0 THEN Params.PowLimit
                   ELSE IF next > easiest THEN easiest
                   ELSE AtLeast(next, hardest)
    IN  AtMost(clamped, Params.PowLimit)

calcNextRequiredDifficulty(p, newBlockTime) ==
    LET betweenRetargets == (Height(p) + 1) % Params.WorkDiffWindowSize # 0
    IN  CASE betweenRetargets /\ ~Params.ReduceMinDifficulty -> Last(p).bits
          [] betweenRetargets /\ Params.ReduceMinDifficulty ->
               IF newBlockTime > Last(p).time + Params.MinDiffReductionTime
               THEN BigToCompact(Params.PowLimit) ELSE findPrevTestNetDifficulty(p)
          [] OTHER -> BigToCompact(NextTarget(p))

\* The factor is applied once for every longest timespan begun.
calcEasiestDifficulty(bits, duration) ==
    LET span   == Params.TargetTimespan * Params.RetargetAdjustmentFactor
        begun  == (duration + span - 1) \div span
        grown(i) == CompactToBig(bits) * Params.RetargetAdjustmentFactor^i
        stops  == {i \in 0..begun : i = begun \/ grown(i) >= Params.PowLimit}
    IN  IF Params.ReduceMinDifficulty /\ duration > Params.MinDiffReductionTime
        THEN BigToCompact(Params.PowLimit)
        ELSE BigToCompact(AtMost(grown(Min(stops)), Params.PowLimit))

(***************************************************************************)
(* Ticket prices, first algorithm.                                         *)
(***************************************************************************)
StakeDiffStartHeight == Params.CoinbaseMaturity + 1

mergeDifficulty(old, new1, new2) ==
    LET change1 == (old * Params.Padding) \div new1
        change2 == (new2 * Params.Padding) \div old
    IN  (((change2 * Params.Padding) \div change1) * old) \div Params.Padding

\* One adjustment goes no further than the factor.
Retargeted(old, next) ==
    LET factor == Params.RetargetAdjustmentFactor
    IN  IF next = 0 THEN old \div factor
        ELSE IF next \div old > factor - 1 THEN old * factor
        ELSE IF old \div next > factor - 1 THEN old \div factor
        ELSE next

\* The old price times the average over the windows.
AveragePrice(change, old) ==
    (WeightedAverage(change, Params.StakeDiffWindows, Params.StakeDiffAlpha) * old)
      \div Params.Padding

\* What the sizes of the pool at the ends of the windows ask for.
PriceByPool(p, old) ==
    LET target  == Params.TicketsPerBlock * Params.TicketPoolSize
        skew(w) == (Back(p, (w + 1) * Params.StakeDiffWindowSize - 1).poolSize - target)
                     * Params.TicketPoolSizeWeight + target
        change[w \in 0 .. Params.StakeDiffWindows - 1] ==
          (AtLeast(skew(w), 1) * Params.Padding) \div target
    IN  Retargeted(old, AveragePrice(change, old))

\* What the tickets bought in the windows ask for.
PriceByTickets(p, old) ==
    LET size == Params.StakeDiffWindowSize
        bought(w) == SumOver(size, LAMBDA i : Back(p, w * size + i - 1).freshStake)
        change[w \in 0 .. Params.StakeDiffWindows - 1] ==
          (AtLeast(bought(w), 1) * Params.Padding) \div (size * Params.TicketsPerBlock)
    IN  Retargeted(old, AveragePrice(change, old))

AdjustedPrice(p, old) ==
    AtLeast(Retargeted(old, mergeDifficulty(old, PriceByPool(p, old), PriceByTickets(p, old))),
            Params.MinimumStakeDiff)

calcNextRequiredStakeDifficultyV1(p) ==
    IF Height(p) < StakeDiffStartHeight THEN Params.MinimumStakeDiff
    ELSE IF (Height(p) + 1) % Params.StakeDiffWindowSize # 0 THEN Last(p).sbits
    ELSE AdjustedPrice(p, Last(p).sbits)

\* The blocks up to the next adjustment, as full of tickets as they may be
\* until none are left; -1 when there are more tickets than the blocks hold.
estimateNextStakeDifficultyV1(p, tickets, useMax) ==
    LET size   == Params.StakeDiffWindowSize
        missing == IF (Height(p) + 1) % size = 0 THEN 0
                   ELSE (Height(p) \div size + 1) * size - Height(p)
        most   == missing * Params.MaxFreshStakePerBlock
        insert == IF useMax THEN most ELSE tickets
        block(i) == [Last(p) EXCEPT !.freshStake =
                       AtMost(AtLeast(insert - (i - 1) * Params.MaxFreshStakePerBlock, 0),
                              Params.MaxFreshStakePerBlock)]
        extended == p \o [i \in 1..(missing - 1) |-> block(i)]
    IN  IF Height(p) < StakeDiffStartHeight THEN Params.MinimumStakeDiff
        ELSE IF missing = 0 THEN AdjustedPrice(p, Last(p).sbits)
        ELSE IF insert > most THEN -1
        ELSE AdjustedPrice(extended, Last(p).sbits)

(***************************************************************************)
(* Ticket prices, second algorithm.                                        *)
(***************************************************************************)
estimateSupply(height) ==
    LET n == height \div Params.SubsidyReductionInterval
        subsidy[i \in 0..n] ==
          IF i = 0 THEN Params.BaseSubsidy
          ELSE (subsidy[i - 1] * Params.MulSubsidy) \div Params.DivSubsidy
    IN  IF height <= 0 THEN 0
        ELSE Params.BlockOneSubsidy
               + SumOver(n, LAMBDA i : Params.SubsidyReductionInterval * subsidy[i - 1])
               + (1 + (height % Params.SubsidyReductionInterval)) * subsidy[n]
               - 2 * Params.BaseSubsidy

\* The tickets bought in the n blocks that end at height h, or the fewer that
\* there are.
sumPurchasedTickets(p, h, n) ==
    SumOver(AtMost(AtLeast(n, 0), h + 1), LAMBDA i : p[h + 2 - i].freshStake)

calcNextStakeDiffV2(nextHeight, curDiff, prevPoolSizeAll, curPoolSizeAll) ==
    LET target  == Params.TicketsPerBlock * (Params.TicketPoolSize + Params.TicketMaturity)
        next    == ((curDiff * curPoolSizeAll * curPoolSizeAll) \div prevPoolSizeAll) \div target
        highest == estimateSupply(nextHeight) \div Params.TicketPoolSize
    IN  AtLeast(AtMost(next, highest), Params.MinimumStakeDiff)

\* Live and immature tickets at the block of height h; none below genesis.
PoolSizeAll(p, h) ==
    IF h < 0 THEN 0
    ELSE p[h + 1].poolSize + sumPurchasedTickets(p, h, Params.TicketMaturity)

calcNextRequiredStakeDifficultyV2(p) ==
    LET nextHeight == Height(p) + 1
        prevAll == PoolSizeAll(p, nextHeight - Params.StakeDiffWindowSize - 1)
    IN  IF nextHeight < StakeDiffStartHeight THEN Params.MinimumStakeDiff
        ELSE IF nextHeight % Params.StakeDiffWindowSize # 0 \/ prevAll = 0 THEN Last(p).sbits
        ELSE calcNextStakeDiffV2(nextHeight, Last(p).sbits, prevAll, PoolSizeAll(p, Height(p)))

\* The estimate of live and immature tickets before the block of height
\* `retarget' when n more are bought until then.
EstimatedPoolSizeAll(p, retarget, n) ==
    LET cur   == Height(p)
        floor == retarget - Params.TicketMaturity - 1
        final == AtMost(floor - 1, cur)
        immature == sumPurchasedTickets(p, cur, cur - floor)
                      + AtMost(n, Params.TicketMaturity * Params.MaxFreshStakePerBlock)
        maturing == IF final < 0 THEN 0
                    ELSE sumPurchasedTickets(p, final, final - (cur - Params.TicketMaturity) + 1)
        estimated == IF cur < floor
                     THEN AtMost(Params.MaxFreshStakePerBlock * (floor - cur - 1), n) ELSE 0
        voting == IF retarget <= Params.StakeValidationHeight THEN 0
                  ELSE IF cur < Params.StakeValidationHeight
                  THEN retarget - Params.StakeValidationHeight
                  ELSE retarget - cur - 1
    IN  Last(p).poolSize + maturing + estimated - voting * Params.TicketsPerBlock + immature

estimateNextStakeDifficultyV2(p, newTickets, useMax) ==
    LET size     == Params.StakeDiffWindowSize
        until    == size - (Height(p) % size)
        retarget == Height(p) + until
        most     == (until - 1) * Params.MaxFreshStakePerBlock
        n        == IF useMax THEN most ELSE newTickets
        prevAll  == PoolSizeAll(p, retarget - size - 1)
    IN  IF n > most THEN -1
        ELSE IF retarget < StakeDiffStartHeight THEN Params.MinimumStakeDiff
        ELSE IF prevAll = 0 THEN Last(p).sbits
        ELSE calcNextStakeDiffV2(retarget, Last(p).sbits, prevAll,
                                 EstimatedPoolSizeAll(p, retarget, n))

\* Which algorithm: the agenda may not be defined, else its state decides.
calcNextRequiredStakeDifficulty(p) ==
    IF ~Params.SDiffAgendaDefined \/ Params.SDiffAgendaActive
    THEN calcNextRequiredStakeDifficultyV2(p)
    ELSE calcNextRequiredStakeDifficultyV1(p)

estimateNextStakeDifficulty(p, newTickets, useMax) ==
    CASE ~Params.SDiffAgendaDefined -> calcNextRequiredStakeDifficultyV2(p)
      [] Params.SDiffAgendaDefined /\ Params.SDiffAgendaActive ->
           estimateNextStakeDifficultyV2(p, newTickets, useMax)
      [] OTHER -> estimateNextStakeDifficultyV1(p, newTickets, useMax)

(***************************************************************************)
(* The chain: blocks with the required target and price.  Tickets mature   *)
(* TicketMaturity blocks after they were bought, and from the stake        *)
(* validation height on every block has all its votes.                     *)
(***************************************************************************)
Genesis == [time |-> 0, bits |-> BigToCompact(Params.PowLimit \div 4),
            sbits |-> Params.MinimumStakeDiff, poolSize |-> 0, freshStake |-> 0]

Live(p) ==
    LET bought == Height(p) - Params.TicketMaturity
    IN  Last(p).poolSize
          + (IF bought >= 0 THEN p[bought + 1].freshStake ELSE 0)
          - (IF Height(p) >= Params.StakeValidationHeight THEN Params.TicketsPerBlock ELSE 0)

Extended(p, tickets, delay) ==
    Append(p, [time |-> Last(p).time + delay,
               bits |-> calcNextRequiredDifficulty(p, Last(p).time + delay),
               sbits |-> calcNextRequiredStakeDifficulty(p),
               poolSize |-> Live(p), freshStake |-> tickets])

Init == chain = <<Genesis>>

Extend ==
    /\ Height(chain) < MaxHeight
    /\ Live(chain) >= 0
    /\ \E a \in Arrivals : chain' = Extended(chain, a[1], a[2])

Next == Extend

Spec == Init /\ [][Next]_chain

(***************************************************************************)
(* What must hold.                                                         *)
(***************************************************************************)
\* However n tickets are spread over the blocks before the next retarget, the
\* price then required is the one estimateNextStakeDifficulty gives for n
\* tickets, as long as none of them matures before the retarget.
EstimateIsThePrice ==
    LET until == Params.StakeDiffWindowSize - (Height(chain) % Params.StakeDiffWindowSize)
        fresh == {a[1] : a \in Arrivals}
        after(plan) == FoldLeft(LAMBDA p, n : Extended(p, n, 1), chain, plan)
    IN  Height(chain) >= Params.StakeValidationHeight =>
          \A plan \in [1..(until - 1) -> fresh] :
            Live(after(plan)) >= 0 =>
              estimateNextStakeDifficulty(chain, SumOver(until - 1, LAMBDA i : plan[i]), FALSE)
                = calcNextRequiredStakeDifficulty(after(plan))

\* A block's target is valid and easy enough for some hash, its work counts,
\* and one retarget moves target and price by no more than the adjustment
\* factor, whatever the timestamps and however few tickets were bought.
DifficultyIsBounded ==
    Height(chain) > 0 =>
      LET new == CompactToBig(Last(chain).bits)
          old == CompactToBig(chain[Height(chain)].bits)
          factor == Params.RetargetAdjustmentFactor
          v1 == calcNextRequiredStakeDifficultyV1(chain)
          most == estimateNextStakeDifficultyV1(chain, 0, TRUE)
          none == estimateNextStakeDifficultyV1(chain, 0, FALSE)
          within(price) ==
            price = Params.MinimumStakeDiff
              \/ (price <= factor * Last(chain).sbits /\ factor * (price + 1) > Last(chain).sbits)
      IN  /\ CheckProofOfWork(0, Last(chain).bits) /\ CalcWork(Last(chain).bits) > 0
          /\ BigToCompact(new) = Last(chain).bits
          /\ ~Params.ReduceMinDifficulty => new <= factor * old
          /\ new <= CompactToBig(calcEasiestDifficulty(chain[Height(chain)].bits, 1))
          /\ within(v1) /\ within(most) /\ within(none) /\ none <= most
=============================================================================
