----------------------------- MODULE TicketPool -----------------------------
(***************************************************************************)
(* The ticket pool of package stakedb (stakedb/ticketpool.go): the live    *)
(* ticket set at any height of the main chain, kept as one diff per block. *)
(* A cursor says how many diffs have been applied to the pool map; Pool(h) *)
(* moves the cursor back and forth to answer for height h; Trim drops the  *)
(* last diff when a block is disconnected.  Every diff is also written to  *)
(* an on-disk database (badger), from which nothing is ever deleted.       *)
(*                                                                         *)
(* All methods run under tp.mtx, so one call is in progress at a time; its *)
(* loop is modelled one advance/retreat at a time, and the process may     *)
(* stop between any two of these steps.                                    *)
(*                                                                         *)
(* The caller is the StakeDatabase.  All that is kept of it here is the    *)
(* live set after each block it has connected (variable live, persisted in *)
(* the caller's own database); connecting or disconnecting a block in both *)
(* databases is one step in this module, and module StakeDatabase splits   *)
(* it.                                                                     *)
(***************************************************************************)
EXTENDS Integers, Sequences, FiniteSets

CONSTANTS Tickets,     \* ticket hashes
          MaxTip,      \* bound on the chain height
          DiskFaults   \* may the write of a diff to disk fail?

ASSUME TicketPoolAssumption ==
    /\ MaxTip \in Nat
    /\ DiskFaults \in BOOLEAN
    /\ IsFiniteSet(Tickets)

VARIABLES
    live,     \* caller: live[h+1] is the live ticket set at height h
    diffs,    \* tp.diffs: the diff of block h is diffs[h]
    tip,      \* tp.tip
    cursor,   \* tp.cursor: how many diffs are applied in pool
    pool,     \* tp.pool
    diffDB,   \* on-disk diffs, by height
    op,       \* the call holding tp.mtx ("idle" when none)
    target,   \* the cursor position the call in progress moves to
    answer,   \* last successful result of Pool(height)
    failed    \* some advance or retreat reported an error

mem  == <<diffs, tip, cursor, pool>>
vars == <<live, mem, diffDB, op, target, answer, failed>>

PoolDiff == [in : SUBSET Tickets, out : SUBSET Tickets]
Ops == {"idle", "pool", "tip", "trim", "load", "panic"}

\* Undoing a diff swaps in and out.
applyDiff(p, in, out) == (p \cup in) \ out

\* The size check of advance and retreat: q is what p became when in was added
\* and out was removed.
sizeOK(p, q, in, out) ==
    Cardinality(q) = Cardinality(p) + Cardinality(in) - Cardinality(out)

\* The diffs a block can have on top of live set p: maturing tickets were not
\* live, and the winners and expired tickets that leave were.
DiffsOn(p) == {d \in PoolDiff : d.in \cap p = {} /\ d.out \subseteq p}

maxCursor(t) == IF t = 0 THEN 0 ELSE t - 1

NoAnswer == [height |-> -1, tickets |-> {}]

TypeOK ==
    /\ live \in Seq(SUBSET Tickets)
    /\ diffs \in Seq(PoolDiff)
    /\ tip \in Nat /\ cursor \in Nat
    /\ pool \in SUBSET Tickets
    /\ DOMAIN diffDB \subseteq 1 .. MaxTip /\ diffDB \in [DOMAIN diffDB -> PoolDiff]
    /\ op \in Ops
    /\ target \in Int
    /\ answer \in [height : Int, tickets : SUBSET Tickets]
    /\ failed \in BOOLEAN

Init ==
    /\ live = << {} >>
    /\ diffs = <<>> /\ tip = 0 /\ cursor = 0 /\ pool = {}
    /\ diffDB = [h \in {} |-> [in |-> {}, out |-> {}]]
    /\ op = "idle" /\ target = 0
    /\ answer = NoAnswer
    /\ failed = FALSE

-----------------------------------------------------------------------------
(* Growing the pool: the caller connected a block whose diff is d.         *)

\* Mutant: a diff left on disk by an earlier chain is not replaced.
storeDiffOnce(h, d) == diffDB' = [k \in DOMAIN diffDB \cup {h} |->
                                     IF k \in DOMAIN diffDB THEN diffDB[k] ELSE d]

storeDiff(h, d) == diffDB' = [k \in DOMAIN diffDB \cup {h} |->
                                 IF k = h THEN d ELSE diffDB[k]]

\* The database transaction fails: the error is returned to the caller, who
\* logs it and goes on; the diff stays in memory.
storeDiffFails == DiskFaults /\ UNCHANGED diffDB

\* live is the caller's: it has connected the block before it calls Append.
appendDiff(d) ==
    /\ op = "idle" /\ tip < MaxTip
    /\ live' = Append(live, applyDiff(live[Len(live)], d.in, d.out))
    /\ diffs' = Append(diffs, d)
    /\ tip' = tip + 1

AppendBlock(d) ==
    /\ appendDiff(d)
    /\ storeDiff(tip + 1, d) \/ storeDiffFails
    /\ UNCHANGED <<cursor, pool, op, target, answer, failed>>

\* AppendAndAdvancePool applies the diff at the cursor, which is the new one
\* only if the cursor was at the tip.
AppendAndAdvancePool(d) ==
    /\ appendDiff(d)
    /\ \/ /\ storeDiff(tip + 1, d)
          /\ LET next == diffs'[cursor + 1]
                 p == applyDiff(pool, next.in, next.out)
             IN /\ pool' = p
                /\ cursor' = cursor + 1
                /\ failed' = (failed \/ ~sizeOK(pool, p, next.in, next.out))
       \/ /\ storeDiffFails
          /\ UNCHANGED <<cursor, pool, failed>>
    /\ UNCHANGED <<op, target, answer>>

-----------------------------------------------------------------------------
(* Moving the cursor.                                                      *)

\* Pool(height) refuses a height that is not connected yet.
PoolBegin(h) ==
    /\ op = "idle" /\ h <= tip
    /\ op' = "pool" /\ target' = h
    /\ UNCHANGED <<live, mem, diffDB, answer, failed>>

AdvanceToTip ==
    /\ op = "idle"
    /\ op' = "tip" /\ target' = tip
    /\ UNCHANGED <<live, mem, diffDB, answer, failed>>

\* A size mismatch ends the call with an error, the cursor already moved.
advance ==
    /\ op \in {"pool", "tip"} /\ target > cursor
    /\ LET next == diffs[cursor + 1]
           p == applyDiff(pool, next.in, next.out)
           ok == sizeOK(pool, p, next.in, next.out)
       IN /\ pool' = p
          /\ cursor' = cursor + 1
          /\ failed' = (failed \/ ~ok)
          /\ op' = IF ok THEN op ELSE "idle"
    /\ UNCHANGED <<live, diffs, tip, diffDB, target, answer>>

\* trim only logs an error of retreatTo: it goes on to drop the diff.
retreat ==
    /\ op \in {"pool", "trim"} /\ cursor > target /\ cursor > 0
    /\ LET prev == diffs[cursor]
           p == applyDiff(pool, prev.out, prev.in)
           ok == sizeOK(pool, p, prev.out, prev.in)
       IN /\ pool' = p
          /\ cursor' = cursor - 1
          /\ failed' = (failed \/ ~ok)
          /\ op' = IF ok \/ op = "trim" THEN op ELSE "idle"
          /\ target' = IF ok \/ op = "pool" THEN target ELSE cursor'
    /\ UNCHANGED <<live, diffs, tip, diffDB, answer>>

\* Mutant: the error at genesis is ignored.
retreatAtGenesisIgnored ==
    /\ op = "pool" /\ cursor > target /\ cursor = 0
    /\ UNCHANGED vars

\* A negative height: the loop ends with an error at genesis.
retreatAtGenesis ==
    /\ op = "pool" /\ cursor > target /\ cursor = 0
    /\ op' = "idle"
    /\ UNCHANGED <<live, mem, diffDB, target, answer, failed>>

\* Mutant: Pool only advances, it does not retreat.
MoveEndAbove ==
    /\ op \in {"pool", "tip"} /\ cursor >= target
    /\ op' = "idle"
    /\ answer' = IF op = "pool" THEN [height |-> target, tickets |-> pool] ELSE answer
    /\ UNCHANGED <<live, mem, diffDB, target, failed>>

MoveEnd ==
    /\ op \in {"pool", "tip"} /\ cursor = target
    /\ op' = "idle"
    /\ answer' = IF op = "pool" THEN [height |-> target, tickets |-> pool] ELSE answer
    /\ UNCHANGED <<live, mem, diffDB, target, failed>>

-----------------------------------------------------------------------------
(* Trim, called when the caller disconnects its best block.  With an empty *)
(* slice it does nothing.  The diff stays on disk.                         *)

\* Mutant: the cursor is left where it is.
TrimBeginNoRetreat ==
    /\ op = "idle" /\ tip # 0 /\ diffs # <<>>
    /\ tip' = tip - 1
    /\ op' = "trim"
    /\ target' = cursor
    /\ UNCHANGED <<live, diffs, cursor, pool, diffDB, answer, failed>>

TrimBegin ==
    /\ op = "idle" /\ tip # 0 /\ diffs # <<>>
    /\ tip' = tip - 1
    /\ op' = "trim"
    /\ target' = maxCursor(tip - 1)
    /\ UNCHANGED <<live, diffs, cursor, pool, diffDB, answer, failed>>

TrimEnd ==
    /\ op = "trim" /\ cursor <= target
    /\ diffs' = SubSeq(diffs, 1, Len(diffs) - 1)
    /\ live' = SubSeq(live, 1, Len(live) - 1)
    /\ op' = "idle"
    /\ UNCHANGED <<tip, cursor, pool, diffDB, target, answer, failed>>

-----------------------------------------------------------------------------
(* The process stops at any point and is started again.                    *)

\* LoadAllPoolDiffs wants the keys 1, 2, 3, ... and panics otherwise.
Contiguous(db) == \E n \in 0 .. MaxTip : DOMAIN db = 1 .. n

\* A function on 1 .. n is the slice that is read.
NewTicketPool ==
    /\ IF Contiguous(diffDB)
         THEN diffs' = diffDB /\ op' = "load"
         ELSE diffs' = <<>> /\ op' = "panic"
    /\ tip' = Len(diffs')
    /\ cursor' = 0 /\ pool' = {}
    /\ answer' = NoAnswer
    /\ UNCHANGED <<live, diffDB, target, failed>>

\* The caller brings both databases to the same height: its own blocks are
\* disconnected while it is ahead, and the pool is trimmed while it is ahead
\* (the cursor is 0, so nothing is undone); then the pool advances to the tip.
RewindStakeDB ==
    /\ op = "load" /\ Len(live) - 1 > tip
    /\ live' = SubSeq(live, 1, Len(live) - 1)
    /\ UNCHANGED <<mem, diffDB, op, target, answer, failed>>

LoadTrim ==
    /\ op = "load" /\ tip > Len(live) - 1
    /\ tip' = tip - 1
    /\ diffs' = SubSeq(diffs, 1, Len(diffs) - 1)
    /\ UNCHANGED <<live, cursor, pool, diffDB, op, target, answer, failed>>

LoadAdvance ==
    /\ op = "load" /\ tip = Len(live) - 1
    /\ op' = "tip" /\ target' = tip
    /\ UNCHANGED <<live, mem, diffDB, answer, failed>>

-----------------------------------------------------------------------------
Move == advance \/ retreat \/ retreatAtGenesis \/ MoveEnd
Load == RewindStakeDB \/ LoadTrim \/ LoadAdvance

Next ==
    \/ \E d \in DiffsOn(live[Len(live)]) : AppendBlock(d) \/ AppendAndAdvancePool(d)
    \/ \E h \in -1 .. MaxTip : PoolBegin(h)
    \/ AdvanceToTip
    \/ Move
    \/ TrimBegin \/ TrimEnd
    \/ NewTicketPool
    \/ Load

\* A goroutine inside a locked call keeps running; the process is not obliged
\* to call anything, nor to crash.
Fairness == WF_vars(Move) /\ WF_vars(TrimEnd) /\ WF_vars(Load)

Spec == Init /\ [][Next]_vars /\ Fairness

-----------------------------------------------------------------------------
(* What the pool promises.                                                 *)

\* The pool map is the live ticket set of the block the cursor stands on, at
\* every step of every advance, retreat, trim and start: whatever mix of Pool,
\* Append and Trim calls moved the cursor there (tp.pool and tp.cursor).
PoolIsLiveSet == cursor + 1 \in DOMAIN live /\ pool = live[cursor + 1]

\* No advance or retreat ever finds a pool of another size than the diff
\* accounts for ("pool size is %d, expected %d").
NoSizeError == ~failed

\* The pool implements LiveTickets: every answer of Pool(height) is the live set
\* at that height of the chain connected at that moment, also right after a
\* reorganisation or a restart.
Promise == INSTANCE LiveTickets WITH Tickets <- Tickets, live <- live, answer <- answer
AnswersAreExact == Promise!Spec

\* What is on disk rebuilds the connected chain: diffs that Trim left behind
\* are only ever found above the tip, where start-up trims them again.
DiskRebuildsChain ==
    /\ Contiguous(diffDB)
    /\ \A h \in 1 .. Len(live) - 1 :
          /\ h \in DOMAIN diffDB
          /\ live[h + 1] = applyDiff(live[h], diffDB[h].in, diffDB[h].out)

\* The indexes that advance, retreat and trim use are in range, also when disk
\* writes fail: the cursor never points behind the diffs, the target of a move
\* neither, so the "cursor at tip" error of advance is never returned.
CursorInRange ==
    /\ cursor \in 0 .. Len(diffs)
    /\ op \in {"pool", "tip"} => target <= Len(diffs)
    /\ op = "trim" => diffs # <<>> /\ target \in 0 .. Len(diffs) - 1
    /\ tip = IF op = "trim" THEN Len(diffs) - 1 ELSE Len(diffs)

\* Pool and Trim return: the lock is not held forever, with any height (the
\* negative ones too) and any size error met on the way.
CallsEnd ==
    /\ op = "pool" ~> op # "pool"
    /\ op = "trim" ~> op # "trim"

\* If the process stays up, start-up gets through: the two databases are
\* brought to one height and the pool reaches its tip.
StartupEnds == <>[][~NewTicketPool]_vars => (op = "load" ~> op = "idle")

\* LoadAllPoolDiffs never finds a gap in the heights on disk: its checks of
\* lastheight and of the number of diffs do not panic.
NoLoadPanic == op # "panic"
=============================================================================
