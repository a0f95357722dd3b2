-------------------------- MODULE TicketPoolProofs --------------------------
(***************************************************************************)
(* TicketPool is correct for every set of tickets and every chain height,  *)
(* as long as writes to disk succeed: the pool map is the live set at the  *)
(* cursor, no size error is ever met, the disk rebuilds the chain after a  *)
(* crash at any step, and the pool implements LiveTickets.                 *)
(***************************************************************************)
EXTENDS TicketPool, FiniteSetTheorems, SequenceTheorems, TLAPS

\* Diff d takes the live set from p to q.
Links(d, p, q) == d \in DiffsOn(p) /\ q = applyDiff(p, d.in, d.out)

\* The diffs in slice s lead through the connected chain, block by block.
Follows(s) == \A i \in 1 .. Len(live) - 1 :
                 i \in DOMAIN s /\ Links(s[i], live[i], live[i + 1])

\* The height of the chain against the number of diffs in memory.
Heights ==
    /\ live # <<>> /\ live[1] = {}
    /\ op = "load" => cursor = 0 /\ Len(live) <= Len(diffs) + 1
    /\ op # "load" => Len(live) = Len(diffs) + 1
    /\ Len(diffs) <= MaxTip

\* Beside the properties themselves the induction needs that the diffs follow
\* the chain, in memory and on disk, and that they are as many as its blocks.
IInv ==
    /\ TypeOK
    /\ Heights
    /\ CursorInRange
    /\ PoolIsLiveSet
    /\ Follows(diffs)
    /\ Contiguous(diffDB) /\ Follows(diffDB)
    /\ failed = FALSE /\ op # "panic"

-----------------------------------------------------------------------------
\* A block's diff applied to the live set it was made for gives a set of the
\* size that advance expects.
LEMMA Forwards ==
    ASSUME NEW p \in SUBSET Tickets, NEW d \in DiffsOn(p),
           NEW q, q = applyDiff(p, d.in, d.out)
    PROVE  q \in SUBSET Tickets /\ sizeOK(p, q, d.in, d.out)
<1>1. /\ d.in \in SUBSET Tickets /\ d.out \in SUBSET Tickets
      /\ d.in \cap p = {} /\ d.out \subseteq p
  BY DEF DiffsOn, PoolDiff
<1>2. IsFiniteSet(p) /\ IsFiniteSet(d.in) /\ IsFiniteSet(d.out)
  BY <1>1, TicketPoolAssumption, FS_Subset
<1>3. /\ IsFiniteSet(p \cup d.in)
      /\ Cardinality(p \cup d.in)
            = Cardinality(p) + Cardinality(d.in) - Cardinality(p \cap d.in)
  BY <1>2, FS_Union
<1>4. Cardinality(p \cap d.in) = 0
  <2>1. p \cap d.in = {}
    BY <1>1
  <2> QED
    BY <2>1, FS_EmptySet
<1>5. Cardinality(q) = Cardinality(p \cup d.in) - Cardinality(d.out)
  <2>1. (p \cup d.in) \cap d.out = d.out
    BY <1>1
  <2>2. Cardinality((p \cup d.in) \ d.out) = Cardinality(p \cup d.in)
                                    - Cardinality((p \cup d.in) \cap d.out)
    BY <1>3, FS_Difference
  <2> QED
    BY <2>1, <2>2 DEF applyDiff
<1>6. Cardinality(p) \in Nat /\ Cardinality(d.in) \in Nat /\ Cardinality(d.out) \in Nat
  BY <1>2, FS_CardinalityType
<1>7. sizeOK(p, q, d.in, d.out)
  BY <1>3, <1>4, <1>5, <1>6 DEF sizeOK
<1>8. q \in SUBSET Tickets
  BY <1>1 DEF applyDiff
<1> QED
  BY <1>7, <1>8

\* Undoing the diff gives the live set back, and the size that retreat expects.
LEMMA Backwards ==
    ASSUME NEW p \in SUBSET Tickets, NEW d \in DiffsOn(p),
           NEW q, q = applyDiff(p, d.in, d.out)
    PROVE  applyDiff(q, d.out, d.in) = p /\ sizeOK(q, p, d.out, d.in)
<1>1. /\ d.in \in SUBSET Tickets /\ d.out \in SUBSET Tickets
      /\ d.in \cap p = {} /\ d.out \subseteq p
  BY DEF DiffsOn, PoolDiff
<1>2. applyDiff(q, d.out, d.in) = p
  BY <1>1 DEF applyDiff
<1>3. q \in SUBSET Tickets /\ sizeOK(p, q, d.in, d.out)
  BY Forwards
<1>4. IsFiniteSet(p) /\ IsFiniteSet(q) /\ IsFiniteSet(d.in) /\ IsFiniteSet(d.out)
  BY <1>1, <1>3, TicketPoolAssumption, FS_Subset
<1>5. /\ Cardinality(p) \in Nat /\ Cardinality(q) \in Nat
      /\ Cardinality(d.in) \in Nat /\ Cardinality(d.out) \in Nat
  BY <1>4, FS_CardinalityType
<1> QED
  BY <1>2, <1>3, <1>5 DEF sizeOK

\* Dropping the last element of a slice.
LEMMA DropLast ==
    ASSUME NEW S, NEW s \in Seq(S), s # <<>>,
           NEW t, t = SubSeq(s, 1, Len(s) - 1)
    PROVE  /\ t \in Seq(S) /\ Len(t) = Len(s) - 1
           /\ DOMAIN t = 1 .. Len(s) - 1
           /\ \A i \in 1 .. Len(s) - 1 : t[i] = s[i]
<1>1. Len(s) \in Nat \ {0}
  BY EmptySeq
<1>2. \A i \in 1 .. Len(s) - 1 : s[i] \in S
  BY <1>1, ElementOfSeq
<1> DEFINE n == Len(s) - 1
<1>3. /\ t \in Seq(S)
      /\ Len(t) = IF 1 <= n THEN n - 1 + 1 ELSE 0
      /\ \A i \in 1 .. n - 1 + 1 : t[i] = s[1 + i - 1]
  BY <1>1, <1>2, SubSeqProperties
<1>4. Len(t) = n
  <2> n \in Nat
    BY <1>1
  <2> HIDE DEF n
  <2> QED
    BY <1>3
<1>5. DOMAIN t = 1 .. Len(t)
  BY <1>3, LenProperties
<1> QED
  BY <1>1, <1>3, <1>4, <1>5

-----------------------------------------------------------------------------
LEMMA InitIInv == Init => IInv
<1> SUFFICES ASSUME Init PROVE IInv
  OBVIOUS
<1>1. Len(live) = 1 /\ live[1] = {} /\ live \in Seq(SUBSET Tickets) /\ live # <<>>
  BY DEF Init
<1>2. Len(diffs) = 0 /\ diffs \in Seq(PoolDiff)
  BY DEF Init
<1>3. TypeOK
  <2>1. answer \in [height : Int, tickets : SUBSET Tickets]
    BY DEF Init, NoAnswer
  <2>3. DOMAIN diffDB \subseteq 1 .. MaxTip /\ diffDB \in [DOMAIN diffDB -> PoolDiff]
    BY DEF Init
  <2>4. op \in Ops /\ failed \in BOOLEAN
    BY Zenon DEF Init, Ops
  <2>5. target \in Int /\ tip \in Nat /\ cursor \in Nat /\ pool \in SUBSET Tickets
    BY DEF Init
  <2> QED
    BY <1>1, <1>2, <2>1, <2>3, <2>4, <2>5 DEF TypeOK
<1>4. Contiguous(diffDB)
  <2>1. DOMAIN diffDB = 1 .. 0
    BY DEF Init
  <2> QED
    BY <2>1, TicketPoolAssumption DEF Contiguous
<1>5. Heights /\ CursorInRange /\ PoolIsLiveSet
  BY <1>1, <1>2, TicketPoolAssumption DEF Init, Heights, CursorInRange, PoolIsLiveSet
<1>6. Follows(diffs) /\ Follows(diffDB)
  BY <1>1 DEF Follows
<1> QED
  BY <1>3, <1>4, <1>5, <1>6 DEF IInv, Init

-----------------------------------------------------------------------------
(* One step.  The lemmas follow the groups of actions.                     *)

\* The facts about the sequences that every step uses.
LEMMA Lengths ==
    ASSUME IInv
    PROVE  /\ Len(live) \in Nat \ {0} /\ DOMAIN live = 1 .. Len(live)
           /\ Len(diffs) \in Nat /\ DOMAIN diffs = 1 .. Len(diffs)
           /\ \A i \in 1 .. Len(live) : live[i] \in SUBSET Tickets
           /\ \A i \in 1 .. Len(diffs) : diffs[i] \in PoolDiff
<1>1. live \in Seq(SUBSET Tickets) /\ diffs \in Seq(PoolDiff) /\ live # <<>>
  BY DEF IInv, TypeOK, Heights
<1>2. /\ Len(live) \in Nat /\ DOMAIN live = 1 .. Len(live)
      /\ Len(diffs) \in Nat /\ DOMAIN diffs = 1 .. Len(diffs)
  BY <1>1, LenProperties
<1>3. Len(live) # 0
  BY <1>1, EmptySeq
<1>4. /\ \A i \in 1 .. Len(live) : live[i] \in SUBSET Tickets
      /\ \A i \in 1 .. Len(diffs) : diffs[i] \in PoolDiff
  BY <1>1, ElementOfSeq
<1> QED
  BY <1>2, <1>3, <1>4

\* The steps that move the cursor over diff number i: it takes live[i] to
\* live[i + 1] and back.
LEMMA CursorStep ==
    ASSUME IInv, NEW i \in 1 .. Len(live) - 1
    PROVE  LET d == diffs[i]
           IN /\ applyDiff(live[i], d.in, d.out) = live[i + 1]
              /\ sizeOK(live[i], live[i + 1], d.in, d.out)
              /\ applyDiff(live[i + 1], d.out, d.in) = live[i]
              /\ sizeOK(live[i + 1], live[i], d.out, d.in)
<1>1. Links(diffs[i], live[i], live[i + 1])
  BY DEF IInv, Follows
<1>2. live[i] \in SUBSET Tickets
  BY Lengths
<1> QED
  BY <1>1, <1>2, Forwards, Backwards DEF Links

LEMMA AdvanceStep == ASSUME IInv, advance PROVE IInv'
<1> DEFINE next == diffs[cursor + 1]
           p == applyDiff(pool, next.in, next.out)
<1>1. cursor \in Nat /\ cursor + 1 \in 1 .. Len(live) - 1
  BY Lengths DEF IInv, advance, CursorInRange, Heights, TypeOK
<1>2. pool = live[cursor + 1]
  BY DEF IInv, PoolIsLiveSet
<1>3. p = live[cursor + 2] /\ sizeOK(pool, p, next.in, next.out)
  BY <1>1, <1>2, CursorStep
<1>4. /\ pool' = live[cursor + 2] /\ cursor' = cursor + 1
      /\ failed' = FALSE /\ op' = op
      /\ UNCHANGED <<live, diffs, tip, diffDB, target, answer>>
  BY <1>3 DEF advance, IInv
<1>5. pool' \in SUBSET Tickets
  BY <1>1, <1>4, Lengths
<1>6. TypeOK'
  <2>1. cursor' \in Nat
    BY <1>1, <1>4
  <2>2. failed' \in BOOLEAN
    BY <1>4, Zenon
  <2> QED
    BY <1>4, <1>5, <2>1, <2>2, Zenon DEF IInv, TypeOK
<1>7. Heights' /\ CursorInRange' /\ PoolIsLiveSet'
  BY <1>1, <1>4, Lengths DEF IInv, Heights, CursorInRange, PoolIsLiveSet, advance
<1>8. Follows(diffs)' /\ Follows(diffDB)' /\ Contiguous(diffDB)'
  BY <1>4 DEF IInv, Follows, Contiguous
<1> QED
  BY <1>4, <1>6, <1>7, <1>8 DEF IInv

LEMMA RetreatStep == ASSUME IInv, retreat PROVE IInv'
<1> DEFINE prev == diffs[cursor]
           p == applyDiff(pool, prev.out, prev.in)
<1>1. cursor \in 1 .. Len(live) - 1
  BY Lengths DEF IInv, retreat, CursorInRange, Heights, TypeOK
<1>2. pool = live[cursor + 1]
  BY DEF IInv, PoolIsLiveSet
<1>3. p = live[cursor] /\ sizeOK(pool, p, prev.out, prev.in)
  BY <1>1, <1>2, CursorStep
<1>4. /\ pool' = live[cursor] /\ cursor' = cursor - 1
      /\ failed' = FALSE /\ op' = op /\ target' = target
      /\ UNCHANGED <<live, diffs, tip, diffDB, answer>>
  BY <1>3 DEF retreat, IInv
<1>5. pool' \in SUBSET Tickets
  BY <1>1, <1>4, Lengths
<1>6. TypeOK'
  <2>1. cursor' \in Nat
    BY <1>1, <1>4
  <2>2. failed' \in BOOLEAN
    BY <1>4, Zenon
  <2> QED
    BY <1>4, <1>5, <2>1, <2>2, Zenon DEF IInv, TypeOK
<1>7. Heights' /\ CursorInRange' /\ PoolIsLiveSet'
  BY <1>1, <1>4, Lengths DEF IInv, Heights, CursorInRange, PoolIsLiveSet, retreat
<1>8. Follows(diffs)' /\ Follows(diffDB)' /\ Contiguous(diffDB)'
  BY <1>4 DEF IInv, Follows, Contiguous
<1> QED
  BY <1>4, <1>6, <1>7, <1>8 DEF IInv

\* Steps that leave chain, memory and disk alone only have to give the call in
\* progress a target within the diffs.
LEMMA QuietStep ==
    ASSUME IInv, UNCHANGED <<live, mem, diffDB, failed>>,
           op # "load" \/ tip = Len(live) - 1,
           op # "trim", op' \in {"idle", "pool", "tip"},
           target' \in Int, op' # "idle" => target' <= tip,
           answer' \in [height : Int, tickets : SUBSET Tickets]
    PROVE  IInv'
<1>1. TypeOK'
  <2>1. op' \in Ops
    BY DEF Ops
  <2> QED
    BY <2>1, Zenon DEF IInv, TypeOK, mem
<1>2. tip = Len(diffs)
  BY DEF IInv, CursorInRange
<1>3. Heights' /\ CursorInRange' /\ PoolIsLiveSet'
  BY <1>2, Lengths DEF IInv, Heights, CursorInRange, PoolIsLiveSet, mem
<1>4. Follows(diffs)' /\ Follows(diffDB)' /\ Contiguous(diffDB)'
  BY DEF IInv, Follows, Contiguous, mem
<1>5. failed' = FALSE /\ op' # "panic"
  BY DEF IInv
<1> QED
  BY <1>1, <1>3, <1>4, <1>5 DEF IInv

LEMMA CallStep ==
    ASSUME IInv, \/ \E h \in -1 .. MaxTip : PoolBegin(h)
                 \/ AdvanceToTip \/ retreatAtGenesis \/ MoveEnd \/ LoadAdvance
    PROVE  IInv'
<1>1. tip \in Nat /\ target \in Int /\ MaxTip \in Nat
      /\ answer \in [height : Int, tickets : SUBSET Tickets]
  BY TicketPoolAssumption DEF IInv, TypeOK
<1>2. ASSUME NEW h \in -1 .. MaxTip, PoolBegin(h) PROVE IInv'
  BY <1>1, <1>2, QuietStep DEF PoolBegin
<1>3. CASE AdvanceToTip
  BY <1>1, <1>3, QuietStep DEF AdvanceToTip
<1>4. CASE retreatAtGenesis
  BY <1>1, <1>4, QuietStep DEF retreatAtGenesis
<1>5. CASE MoveEnd
  <2>1. answer' \in [height : Int, tickets : SUBSET Tickets]
    <3>1. pool \in SUBSET Tickets
      BY DEF IInv, TypeOK
    <3> QED
      BY <1>1, <1>5, <3>1 DEF MoveEnd
  <2> QED
    BY <1>1, <1>5, <2>1, QuietStep DEF MoveEnd
<1>6. CASE LoadAdvance
  BY <1>1, <1>6, QuietStep DEF LoadAdvance
<1> QED
  BY <1>2, <1>3, <1>4, <1>5, <1>6

LEMMA TrimBeginStep == ASSUME IInv, TrimBegin PROVE IInv'
<1>1. /\ tip = Len(diffs) /\ tip # 0 /\ tip \in Nat
      /\ tip' = tip - 1 /\ op' = "trim" /\ op = "idle"
      /\ target' = maxCursor(tip - 1)
      /\ UNCHANGED <<live, diffs, cursor, pool, diffDB, answer, failed>>
  BY DEF IInv, CursorInRange, TypeOK, TrimBegin
<1>2. target' \in 0 .. tip - 1
  BY <1>1 DEF maxCursor
<1>3. TypeOK'
  <2>1. tip' \in Nat /\ target' \in Int
    BY <1>1, <1>2
  <2>2. op' \in Ops
    BY <1>1 DEF Ops
  <2> QED
    BY <1>1, <2>1, <2>2, Zenon DEF IInv, TypeOK
<1>4. Heights' /\ CursorInRange' /\ PoolIsLiveSet'
  <2>1. diffs # <<>>
    BY DEF TrimBegin
  <2> QED
    BY <1>1, <1>2, <2>1, Lengths DEF IInv, Heights, CursorInRange, PoolIsLiveSet
<1>5. Follows(diffs)' /\ Follows(diffDB)' /\ Contiguous(diffDB)'
  BY <1>1 DEF IInv, Follows, Contiguous
<1>6. failed' = FALSE /\ op' # "panic"
  BY <1>1 DEF IInv
<1> QED
  BY <1>3, <1>4, <1>5, <1>6 DEF IInv

LEMMA TrimEndStep == ASSUME IInv, TrimEnd PROVE IInv'
<1>1. /\ op = "trim" /\ op' = "idle" /\ cursor <= target
      /\ diffs' = SubSeq(diffs, 1, Len(diffs) - 1)
      /\ live' = SubSeq(live, 1, Len(live) - 1)
      /\ UNCHANGED <<tip, cursor, pool, diffDB, target, answer, failed>>
  BY DEF TrimEnd
<1>2. /\ live \in Seq(SUBSET Tickets) /\ live # <<>>
      /\ diffs \in Seq(PoolDiff) /\ diffs # <<>>
      /\ Len(live) = Len(diffs) + 1 /\ tip = Len(diffs) - 1
      /\ cursor \in 0 .. Len(diffs) - 1 /\ live[1] = {}
  BY <1>1, Lengths DEF IInv, TypeOK, Heights, CursorInRange
<1>3. /\ diffs' \in Seq(PoolDiff) /\ Len(diffs') = Len(diffs) - 1
      /\ DOMAIN diffs' = 1 .. Len(diffs) - 1
      /\ \A i \in 1 .. Len(diffs) - 1 : diffs'[i] = diffs[i]
  BY <1>1, <1>2, DropLast
<1>4. /\ live' \in Seq(SUBSET Tickets) /\ Len(live') = Len(live) - 1
      /\ DOMAIN live' = 1 .. Len(live) - 1
      /\ \A i \in 1 .. Len(live) - 1 : live'[i] = live[i]
  BY <1>1, <1>2, DropLast
<1>5. TypeOK'
  <2>1. op' \in Ops
    BY <1>1 DEF Ops
  <2> QED
    BY <1>1, <1>3, <1>4, <2>1, Zenon DEF IInv, TypeOK
<1>6. Len(diffs) \in Nat \ {0}
  BY <1>2, Lengths, EmptySeq
<1>7. Heights' /\ CursorInRange'
  <2>1. live'[1] = {}
    BY <1>2, <1>4, <1>6
  <2>2. live' # <<>>
    BY <1>2, <1>4, <1>6
  <2>3. Len(diffs) <= MaxTip /\ MaxTip \in Nat
    BY TicketPoolAssumption DEF IInv, Heights
  <2>4. Heights'
    BY <1>1, <1>2, <1>3, <1>4, <1>6, <2>1, <2>2, <2>3 DEF Heights
  <2>5. CursorInRange'
    BY <1>1, <1>2, <1>3, <1>6 DEF CursorInRange
  <2> QED
    BY <2>4, <2>5
<1>8. PoolIsLiveSet'
  BY <1>1, <1>2, <1>4, <1>6 DEF IInv, PoolIsLiveSet
<1>9. Follows(diffs)' /\ Follows(diffDB)'
  BY <1>1, <1>2, <1>3, <1>4, <1>6 DEF IInv, Follows
<1>10. Contiguous(diffDB)' /\ failed' = FALSE /\ op' # "panic"
  BY <1>1 DEF IInv, Contiguous
<1> QED
  BY <1>5, <1>7, <1>8, <1>9, <1>10 DEF IInv

\* Every diff that start-up reads follows the chain, as far as the chain goes.
LEMMA NewTicketPoolStep == ASSUME IInv, NewTicketPool PROVE IInv'
<1>1. PICK n \in 0 .. MaxTip : DOMAIN diffDB = 1 .. n
  BY DEF IInv, Contiguous
<1>2. /\ diffs' = diffDB /\ op' = "load" /\ tip' = Len(diffs')
      /\ cursor' = 0 /\ pool' = {} /\ answer' = NoAnswer
      /\ UNCHANGED <<live, diffDB, target, failed>>
  BY DEF NewTicketPool, IInv
<1>3. diffDB \in Seq(PoolDiff) /\ Len(diffDB) = n
  <2>1. n \in Nat
    BY <1>1, TicketPoolAssumption
  <2>2. diffDB \in [1 .. n -> PoolDiff]
    BY <1>1 DEF IInv, TypeOK
  <2> QED
    BY <2>1, <2>2
<1>4. TypeOK'
  <2>1. answer' \in [height : Int, tickets : SUBSET Tickets]
    BY <1>2 DEF NoAnswer
  <2>2. op' \in Ops
    BY <1>2 DEF Ops
  <2>3. tip' \in Nat /\ cursor' \in Nat /\ pool' \in SUBSET Tickets
    BY <1>1, <1>2, <1>3, TicketPoolAssumption
  <2>4. target' \in Int /\ failed' \in BOOLEAN
        /\ DOMAIN diffDB' \subseteq 1 .. MaxTip /\ diffDB' \in [DOMAIN diffDB' -> PoolDiff]
        /\ live' \in Seq(SUBSET Tickets) /\ diffs' \in Seq(PoolDiff)
    BY <1>2, <1>3, Zenon DEF IInv, TypeOK
  <2> QED
    BY <2>1, <2>2, <2>3, <2>4, Zenon DEF TypeOK
<1>5. Follows(diffs)' /\ Follows(diffDB)'
  BY <1>2 DEF IInv, Follows
<1>6. Len(live) <= n + 1
  BY <1>1, Lengths DEF IInv, Follows
<1>7. Heights'
  BY <1>1, <1>2, <1>3, <1>6 DEF IInv, Heights
<1>8. CursorInRange' /\ PoolIsLiveSet'
  <2>1. live[1] = {} /\ 1 \in DOMAIN live
    BY Lengths DEF IInv, Heights
  <2> QED
    BY <1>1, <1>2, <1>3, <2>1, TicketPoolAssumption DEF CursorInRange, PoolIsLiveSet
<1>9. Contiguous(diffDB)' /\ failed' = FALSE /\ op' # "panic"
  BY <1>2 DEF IInv, Contiguous
<1> QED
  BY <1>4, <1>5, <1>7, <1>8, <1>9 DEF IInv

LEMMA LoadTrimStep == ASSUME IInv, LoadTrim PROVE IInv'
<1>1. /\ op = "load" /\ tip > Len(live) - 1 /\ tip' = tip - 1
      /\ diffs' = SubSeq(diffs, 1, Len(diffs) - 1)
      /\ UNCHANGED <<live, cursor, pool, diffDB, op, target, answer, failed>>
  BY DEF LoadTrim
<1>2. /\ tip = Len(diffs) /\ cursor = 0
      /\ Len(live) \in Nat \ {0} /\ Len(diffs) \in Nat
      /\ diffs \in Seq(PoolDiff) /\ Len(diffs) <= MaxTip
  BY <1>1, Lengths DEF IInv, TypeOK, Heights, CursorInRange
<1>3. Len(diffs) >= Len(live) /\ diffs # <<>>
  BY <1>1, <1>2
<1>4. /\ diffs' \in Seq(PoolDiff) /\ Len(diffs') = Len(diffs) - 1
      /\ DOMAIN diffs' = 1 .. Len(diffs) - 1
      /\ \A i \in 1 .. Len(diffs) - 1 : diffs'[i] = diffs[i]
  BY <1>1, <1>2, <1>3, DropLast
<1>5. TypeOK'
  <2>1. tip' \in Nat
    BY <1>1, <1>2, <1>3
  <2> QED
    BY <1>1, <1>4, <2>1, Zenon DEF IInv, TypeOK
<1>6. Heights' /\ CursorInRange' /\ PoolIsLiveSet'
  <2>1. MaxTip \in Nat
    BY TicketPoolAssumption
  <2>2. Heights'
    BY <1>1, <1>2, <1>3, <1>4, <2>1 DEF IInv, Heights
  <2>3. CursorInRange'
    BY <1>1, <1>2, <1>3, <1>4 DEF CursorInRange
  <2> QED
    BY <1>1, <2>2, <2>3 DEF IInv, PoolIsLiveSet
<1>7. Follows(diffs)' /\ Follows(diffDB)'
  BY <1>1, <1>2, <1>3, <1>4 DEF IInv, Follows
<1>8. Contiguous(diffDB)' /\ failed' = FALSE /\ op' # "panic"
  BY <1>1 DEF IInv, Contiguous
<1> QED
  BY <1>5, <1>6, <1>7, <1>8 DEF IInv

\* With the disk in order the stake database is never ahead of the pool.
LEMMA NoRewind == ASSUME IInv PROVE ~RewindStakeDB
  BY Lengths DEF IInv, Heights, CursorInRange, RewindStakeDB

\* A new block: the chain, the diffs and the disk grow by the same link, and a
\* diff that an earlier chain left on disk at this height is replaced.
LEMMA Grow ==
    ASSUME IInv, NEW d \in DiffsOn(live[Len(live)]),
           appendDiff(d), storeDiff(tip + 1, d)
    PROVE  /\ live' \in Seq(SUBSET Tickets) /\ Len(live') = Len(live) + 1
           /\ \A i \in 1 .. Len(live) : live'[i] = live[i]
           /\ diffs' \in Seq(PoolDiff) /\ Len(diffs') = Len(diffs) + 1
           /\ tip' = tip + 1 /\ tip < MaxTip
           /\ Follows(diffs)' /\ Follows(diffDB)' /\ Contiguous(diffDB)'
           /\ DOMAIN diffDB' \subseteq 1 .. MaxTip /\ diffDB' \in [DOMAIN diffDB' -> PoolDiff]
<1> DEFINE n == Len(live)
           q == applyDiff(live[n], d.in, d.out)
<1>1. /\ op = "idle" /\ tip < MaxTip /\ tip' = tip + 1
      /\ live' = Append(live, q) /\ diffs' = Append(diffs, d)
  BY DEF appendDiff
<1>2. /\ n \in Nat \ {0} /\ Len(diffs) = n - 1 /\ tip = n - 1 /\ MaxTip \in Nat
      /\ live \in Seq(SUBSET Tickets) /\ diffs \in Seq(PoolDiff)
      /\ live[n] \in SUBSET Tickets
  BY <1>1, Lengths, TicketPoolAssumption DEF IInv, Heights, CursorInRange, TypeOK
<1>3. d \in PoolDiff /\ q \in SUBSET Tickets
  BY <1>2, Forwards DEF DiffsOn
<1>4. /\ live' \in Seq(SUBSET Tickets) /\ Len(live') = n + 1
      /\ \A i \in 1 .. n : live'[i] = live[i]
      /\ live'[n + 1] = q
  BY <1>1, <1>2, <1>3
<1>5. /\ diffs' \in Seq(PoolDiff) /\ Len(diffs') = n /\ DOMAIN diffs' = 1 .. n
      /\ \A i \in 1 .. n - 1 : diffs'[i] = diffs[i]
      /\ diffs'[n] = d
  BY <1>1, <1>2, <1>3
<1>6. Links(d, live'[n], live'[n + 1])
  BY <1>2, <1>4 DEF Links
<1>7. PICK m \in 0 .. MaxTip : DOMAIN diffDB = 1 .. m
  BY DEF IInv, Contiguous
<1>8. m >= n - 1
  BY <1>2, <1>7 DEF IInv, Follows
<1>9. diffDB' = [k \in DOMAIN diffDB \cup {n} |-> IF k = n THEN d ELSE diffDB[k]]
  BY <1>2 DEF storeDiff
<1>10. DOMAIN diffDB' = 1 .. (IF m >= n THEN m ELSE n)
  <2>1. (1 .. m) \cup {n} = 1 .. (IF m >= n THEN m ELSE n)
    BY <1>2, <1>7, <1>8
  <2>2. DOMAIN diffDB' = (1 .. m) \cup {n}
    BY <1>7, <1>9
  <2> QED
    BY <2>1, <2>2
<1>11. Contiguous(diffDB)'
  <2>1. (IF m >= n THEN m ELSE n) \in 0 .. MaxTip
    BY <1>1, <1>2, <1>7
  <2> QED
    BY <1>10, <2>1 DEF Contiguous
<1>12. DOMAIN diffDB' \subseteq 1 .. MaxTip /\ diffDB' \in [DOMAIN diffDB' -> PoolDiff]
  <2>1. diffDB \in [1 .. m -> PoolDiff]
    BY <1>7 DEF IInv, TypeOK
  <2>2. diffDB' \in [(1 .. m) \cup {n} -> PoolDiff]
    BY <1>3, <1>7, <1>9, <2>1
  <2>3. (1 .. m) \cup {n} \in SUBSET (1 .. MaxTip)
    BY <1>1, <1>2, <1>7
  <2>4. DOMAIN diffDB' = (1 .. m) \cup {n}
    BY <2>2
  <2> QED
    BY <2>2, <2>3, <2>4
<1>13. Follows(diffs)'
  <2> SUFFICES ASSUME NEW i \in 1 .. n
               PROVE  i \in DOMAIN diffs' /\ Links(diffs'[i], live'[i], live'[i + 1])
    BY <1>2, <1>4 DEF Follows
  <2>1. CASE i = n
    BY <1>5, <1>6, <2>1
  <2>2. CASE i # n
    <3>1. i \in 1 .. n - 1
      BY <1>2, <2>2
    <3>2. Links(diffs[i], live[i], live[i + 1])
      BY <3>1 DEF IInv, Follows
    <3> QED
      BY <1>2, <1>4, <1>5, <3>1, <3>2
  <2> QED
    BY <2>1, <2>2
<1>14. Follows(diffDB)'
  <2> SUFFICES ASSUME NEW i \in 1 .. n
               PROVE  i \in DOMAIN diffDB' /\ Links(diffDB'[i], live'[i], live'[i + 1])
    BY <1>2, <1>4 DEF Follows
  <2>1. CASE i = n
    BY <1>6, <1>9, <2>1
  <2>2. CASE i # n
    <3>1. i \in 1 .. n - 1
      BY <1>2, <2>2
    <3>2. i \in DOMAIN diffDB /\ Links(diffDB[i], live[i], live[i + 1])
      BY <3>1 DEF IInv, Follows
    <3>3. i \in DOMAIN diffDB' /\ diffDB'[i] = diffDB[i]
      BY <1>9, <2>2, <3>2
    <3> QED
      BY <1>2, <1>4, <3>1, <3>2, <3>3
  <2> QED
    BY <2>1, <2>2
<1> QED
  BY <1>1, <1>2, <1>4, <1>5, <1>11, <1>12, <1>13, <1>14

LEMMA AppendStep ==
    ASSUME IInv, ~DiskFaults, NEW d \in DiffsOn(live[Len(live)]), AppendBlock(d)
    PROVE  IInv'
<1>1. /\ appendDiff(d) /\ storeDiff(tip + 1, d) /\ op = "idle"
      /\ UNCHANGED <<cursor, pool, op, target, answer, failed>>
  BY DEF AppendBlock, storeDiffFails, appendDiff
<1>2. /\ live' \in Seq(SUBSET Tickets) /\ Len(live') = Len(live) + 1
      /\ \A i \in 1 .. Len(live) : live'[i] = live[i]
      /\ diffs' \in Seq(PoolDiff) /\ Len(diffs') = Len(diffs) + 1
      /\ tip' = tip + 1 /\ tip < MaxTip
      /\ Follows(diffs)' /\ Follows(diffDB)' /\ Contiguous(diffDB)'
      /\ DOMAIN diffDB' \subseteq 1 .. MaxTip /\ diffDB' \in [DOMAIN diffDB' -> PoolDiff]
  BY <1>1, Grow
<1>3. /\ Len(live) \in Nat \ {0} /\ Len(diffs) \in Nat /\ DOMAIN live = 1 .. Len(live)
      /\ Len(live) = Len(diffs) + 1 /\ tip = Len(diffs) /\ live[1] = {}
      /\ cursor \in 0 .. Len(diffs) /\ pool = live[cursor + 1] /\ MaxTip \in Nat
  BY <1>1, Lengths, TicketPoolAssumption DEF IInv, Heights, CursorInRange, PoolIsLiveSet
<1>4. TypeOK'
  <2>1. tip' \in Nat
    BY <1>2, <1>3
  <2> QED
    BY <1>1, <1>2, <2>1, Zenon DEF IInv, TypeOK
<1>5. Heights'
  BY <1>1, <1>2, <1>3 DEF Heights
<1>6. CursorInRange'
  BY <1>1, <1>2, <1>3 DEF CursorInRange
<1>7. PoolIsLiveSet'
  <2>1. DOMAIN live' = 1 .. Len(live) + 1
    BY <1>2, LenProperties
  <2> QED
    BY <1>1, <1>2, <1>3, <2>1 DEF PoolIsLiveSet
<1>8. failed' = FALSE /\ op' # "panic"
  BY <1>1 DEF IInv
<1> QED
  BY <1>2, <1>4, <1>5, <1>6, <1>7, <1>8 DEF IInv

LEMMA AppendAndAdvanceStep ==
    ASSUME IInv, ~DiskFaults, NEW d \in DiffsOn(live[Len(live)]),
           AppendAndAdvancePool(d)
    PROVE  IInv'
<1> DEFINE next == diffs'[cursor + 1]
           p == applyDiff(pool, next.in, next.out)
<1>1. /\ appendDiff(d) /\ storeDiff(tip + 1, d) /\ op = "idle"
      /\ pool' = p /\ cursor' = cursor + 1
      /\ failed' = (failed \/ ~sizeOK(pool, p, next.in, next.out))
      /\ UNCHANGED <<op, target, answer>>
  BY DEF AppendAndAdvancePool, storeDiffFails, appendDiff
<1>2. /\ live' \in Seq(SUBSET Tickets) /\ Len(live') = Len(live) + 1
      /\ \A i \in 1 .. Len(live) : live'[i] = live[i]
      /\ diffs' \in Seq(PoolDiff) /\ Len(diffs') = Len(diffs) + 1
      /\ tip' = tip + 1 /\ tip < MaxTip
      /\ Follows(diffs)' /\ Follows(diffDB)' /\ Contiguous(diffDB)'
      /\ DOMAIN diffDB' \subseteq 1 .. MaxTip /\ diffDB' \in [DOMAIN diffDB' -> PoolDiff]
  BY <1>1, Grow
<1>3. /\ Len(live) \in Nat \ {0} /\ Len(diffs) \in Nat /\ DOMAIN live = 1 .. Len(live)
      /\ Len(live) = Len(diffs) + 1 /\ tip = Len(diffs) /\ live[1] = {}
      /\ cursor \in 0 .. Len(diffs) /\ pool = live[cursor + 1] /\ MaxTip \in Nat
      /\ pool \in SUBSET Tickets
  BY <1>1, Lengths, TicketPoolAssumption
     DEF IInv, Heights, CursorInRange, PoolIsLiveSet, TypeOK
<1>4. p = live'[cursor + 2] /\ sizeOK(pool, p, next.in, next.out) /\ p \in SUBSET Tickets
  <2>1. Links(next, live'[cursor + 1], live'[cursor + 2])
    BY <1>2, <1>3 DEF Follows
  <2>2. live'[cursor + 1] = pool
    BY <1>2, <1>3
  <2> QED
    BY <1>3, <2>1, <2>2, Forwards DEF Links
<1>5. failed' = FALSE /\ failed' \in BOOLEAN
  BY <1>1, <1>4, Zenon DEF IInv
<1>6. TypeOK'
  <2>1. tip' \in Nat /\ cursor' \in Nat
    BY <1>1, <1>2, <1>3
  <2> QED
    BY <1>1, <1>2, <1>4, <1>5, <2>1, Zenon DEF IInv, TypeOK
<1>7. Heights'
  BY <1>1, <1>2, <1>3 DEF Heights
<1>8. CursorInRange'
  BY <1>1, <1>2, <1>3 DEF CursorInRange
<1>9. PoolIsLiveSet'
  <2>1. DOMAIN live' = 1 .. Len(live) + 1
    BY <1>2, LenProperties
  <2> HIDE DEF p
  <2> QED
    BY <1>1, <1>2, <1>3, <1>4, <2>1 DEF PoolIsLiveSet
<1>10. op' # "panic"
  BY <1>1 DEF IInv
<1> QED
  BY <1>2, <1>5, <1>6, <1>7, <1>8, <1>9, <1>10 DEF IInv

LEMMA NextIInv == ASSUME IInv, ~DiskFaults, [Next]_vars PROVE IInv'
<1>1. ASSUME NEW d \in DiffsOn(live[Len(live)]), AppendBlock(d) PROVE IInv'
  BY <1>1, AppendStep
<1>2. ASSUME NEW d \in DiffsOn(live[Len(live)]), AppendAndAdvancePool(d) PROVE IInv'
  BY <1>2, AppendAndAdvanceStep
<1>3. CASE \/ \E h \in -1 .. MaxTip : PoolBegin(h)
           \/ AdvanceToTip \/ retreatAtGenesis \/ MoveEnd \/ LoadAdvance
  BY <1>3, CallStep
<1>4. CASE advance
  BY <1>4, AdvanceStep
<1>5. CASE retreat
  BY <1>5, RetreatStep
<1>6. CASE TrimBegin
  BY <1>6, TrimBeginStep
<1>7. CASE TrimEnd
  BY <1>7, TrimEndStep
<1>8. CASE NewTicketPool
  BY <1>8, NewTicketPoolStep
<1>9. CASE LoadTrim
  BY <1>9, LoadTrimStep
<1>10. CASE RewindStakeDB
  BY <1>10, NoRewind
<1>11. CASE UNCHANGED vars
  BY <1>11 DEF vars, mem, IInv, TypeOK, Heights, CursorInRange, PoolIsLiveSet,
               Follows, Contiguous
<1> QED
  BY <1>1, <1>2, <1>3, <1>4, <1>5, <1>6, <1>7, <1>8, <1>9, <1>10, <1>11
     DEF Next, Move, Load

-----------------------------------------------------------------------------
\* IInv holds in every reachable state, whatever mix of Append, Pool, Trim,
\* crash and start-up led there.
THEOREM Inductive == ASSUME ~DiskFaults PROVE Spec => []IInv
<1>1. IInv /\ [Next]_vars => IInv'
  BY NextIInv
<1> QED
  BY <1>1, InitIInv, PTL DEF Spec

\* Type correctness (TypeOK).
THEOREM TypeCorrect == ASSUME ~DiskFaults PROVE Spec => []TypeOK
<1>1. IInv => TypeOK
  BY DEF IInv
<1> QED
  BY <1>1, Inductive, PTL

\* The pool map is the live set of the block at the cursor (tp.pool, tp.cursor),
\* and advance and retreat never report a pool of the wrong size.
THEOREM PoolCorrect == ASSUME ~DiskFaults PROVE Spec => [](PoolIsLiveSet /\ NoSizeError)
<1>1. IInv => PoolIsLiveSet /\ NoSizeError
  BY DEF IInv, NoSizeError
<1> QED
  BY <1>1, Inductive, PTL

\* What Append wrote rebuilds the connected chain after a crash at any step, and
\* LoadAllPoolDiffs does not panic.
THEOREM DiskCorrect == ASSUME ~DiskFaults PROVE Spec => [](DiskRebuildsChain /\ NoLoadPanic)
<1>1. IInv => DiskRebuildsChain /\ NoLoadPanic
  BY DEF IInv, DiskRebuildsChain, NoLoadPanic, Follows, Links
<1> QED
  BY <1>1, Inductive, PTL

\* One step of the pool is a step of what it promises, or is not seen at all.
LEMMA StepImplements ==
    ASSUME IInv, ~DiskFaults, [Next]_vars
    PROVE  [Promise!Next]_<<live, answer>>
<1>1. ASSUME NEW d \in DiffsOn(live[Len(live)]),
             AppendBlock(d) \/ AppendAndAdvancePool(d)
      PROVE  Promise!Connect
  <2>1. live' = Append(live, applyDiff(live[Len(live)], d.in, d.out))
        /\ UNCHANGED answer
    BY <1>1 DEF AppendBlock, AppendAndAdvancePool, appendDiff
  <2>2. live[Len(live)] \in SUBSET Tickets
    BY Lengths
  <2>3. applyDiff(live[Len(live)], d.in, d.out) \in SUBSET Tickets
    BY <2>2, Forwards
  <2> QED
    BY <2>1, <2>3 DEF Promise!Connect
<1>2. CASE MoveEnd
  <2>1. CASE op = "pool"
    <3>1. target = cursor /\ pool = live[cursor + 1] /\ UNCHANGED live
          /\ answer' = [height |-> target, tickets |-> pool]
      BY <1>2, <2>1 DEF MoveEnd, IInv, PoolIsLiveSet
    <3>2. target \in 0 .. Len(live) - 1
      BY <2>1, <3>1, Lengths DEF IInv, CursorInRange, Heights
    <3>3. Promise!Ask
      BY <3>1, <3>2 DEF Promise!Ask
    <3> QED
      BY <3>3 DEF Promise!Next
  <2>2. CASE op # "pool"
    BY <1>2, <2>2 DEF MoveEnd
  <2> QED
    BY <2>1, <2>2
<1>3. CASE TrimEnd
  <2>1. Len(live) > 1
    BY <1>3, Lengths, EmptySeq DEF TrimEnd, IInv, TypeOK, CursorInRange, Heights
  <2>2. Promise!Disconnect
    BY <1>3, <2>1 DEF TrimEnd, Promise!Disconnect
  <2> QED
    BY <2>2 DEF Promise!Next
<1>4. CASE NewTicketPool
  <2>1. Promise!Restart
    BY <1>4 DEF NewTicketPool, Promise!Restart, NoAnswer, Promise!NoAnswer
  <2> QED
    BY <2>1 DEF Promise!Next
<1>5. CASE \/ \E h \in -1 .. MaxTip : PoolBegin(h)
           \/ AdvanceToTip \/ advance \/ retreat \/ retreatAtGenesis
           \/ TrimBegin \/ LoadTrim \/ LoadAdvance \/ UNCHANGED vars
  BY <1>5 DEF PoolBegin, AdvanceToTip, advance, retreat, retreatAtGenesis,
              TrimBegin, LoadTrim, LoadAdvance, vars, mem
<1>6. CASE RewindStakeDB
  BY <1>6, NoRewind
<1>7. Promise!Connect => Promise!Next
  BY DEF Promise!Next
<1> QED
  BY <1>1, <1>2, <1>3, <1>4, <1>5, <1>6, <1>7 DEF Next, Move, Load

\* The pool implements LiveTickets (AnswersAreExact): every answer of Pool is
\* the live set at the asked height of the chain connected at that moment.
THEOREM Implements == ASSUME ~DiskFaults PROVE Spec => AnswersAreExact
<1>1. Init => Promise!Init
  BY DEF Init, Promise!Init, NoAnswer, Promise!NoAnswer
<1>2. IInv /\ [Next]_vars => [Promise!Next]_<<live, answer>>
  BY StepImplements
<1> QED
  BY <1>1, <1>2, Inductive, PTL DEF Spec, AnswersAreExact, Promise!Spec
=============================================================================
