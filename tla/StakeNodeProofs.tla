-------------------------- MODULE StakeNodeProofs --------------------------
(***************************************************************************)
(* Proofs about module StakeNode, for any tickets, winners and heights.    *)
(***************************************************************************)
EXTENDS StakeNode, TLAPS

LiveValue == {v \in Value : ~v.missed /\ ~v.revoked /\ ~v.spent /\ ~v.expired}
MissedValue == {v \in Value : v.missed /\ ~v.revoked /\ ~v.spent}
RevokedValue == {v \in Value : v.missed /\ v.revoked /\ ~v.spent}

\* A node as the program can have it: each ticket in one treap, with the flags
\* that go with it, and no winners before the lottery starts.
IsNode(n) ==
    /\ n = [height |-> n.height, live |-> n.live, missed |-> n.missed,
            revoked |-> n.revoked, undo |-> n.undo, new |-> n.new, winners |-> n.winners]
    /\ n.height \in 0 .. MaxHeight
    /\ IsTreap(n.live, LiveValue)
    /\ IsTreap(n.missed, MissedValue)
    /\ IsTreap(n.revoked, RevokedValue)
    /\ IsTreap(n.undo, Value)
    /\ n.new \subseteq NodeTickets /\ n.winners \subseteq DOMAIN n.live
    /\ DOMAIN n.live \cap DOMAIN n.missed = {}
    /\ DOMAIN n.live \cap DOMAIN n.revoked = {}
    /\ DOMAIN n.missed \cap DOMAIN n.revoked = {}
    /\ n.height < StakeValidationHeight - 1 => n.winners = {}

Known(n) == DOMAIN n.live \cup DOMAIN n.missed \cup DOMAIN n.revoked

\* What a block may do on top of node p.
IsBlockOn(p, voted, revs, news) ==
    /\ voted \subseteq p.winners
    /\ revs \subseteq DOMAIN p.missed
    /\ news \subseteq NodeTickets /\ news \cap Known(p) = {}

On(p) == p.height + 1 >= StakeEnableHeight
Out(p) == IF On(p) THEN p.winners ELSE {}
Old(p) == IF On(p) THEN Expiring(p) ELSE {}
Rev(p, revs) == IF On(p) THEN revs ELSE {}

\* The undo data of a block tells its tickets apart, and what they were before.
UndoFacts(p, voted, revs, news, u) ==
    /\ DOMAIN u = Out(p) \cup Old(p) \cup Rev(p, revs) \cup news
    /\ IsTreap(u, Value)
    /\ New(u) = news
    /\ Revoked(u) = Rev(p, revs)
    /\ Missed(u) = Old(p) \cup (Out(p) \ voted)
    /\ Spent(u) = Out(p) \cap voted
    /\ Won(u) = Out(p)
    /\ Out(p) = p.winners
    /\ \A t \in news : u[t] \in LiveValue
    /\ \A t \in Rev(p, revs) : u[t] \in RevokedValue /\ Unrevoked(u[t]) = p.missed[t]
    /\ \A t \in Missed(u) : u[t] \in MissedValue /\ Unmissed(u[t]) = p.live[t]
    /\ \A t \in Spent(u) : Unspent(u[t]) = p.live[t]
    /\ Missed(u) \cup Spent(u) \subseteq DOMAIN p.live

LEMMA UndoKinds ==
    ASSUME NEW p, IsNode(p), p.height < MaxHeight,
           NEW voted, NEW revs, NEW news, IsBlockOn(p, voted, revs, news)
    PROVE  UndoFacts(p, voted, revs, news, BlockUndo(p, voted, revs, news))
<1>. DEFINE u == BlockUndo(p, voted, revs, news)
<1>. USE StakeNodeAssumption
<1>1. DOMAIN u = Out(p) \cup Old(p) \cup Rev(p, revs) \cup news
  BY DEF u, BlockUndo, On, Out, Old, Rev
<1>2. /\ Out(p) \subseteq DOMAIN p.live /\ Old(p) \subseteq DOMAIN p.live
      /\ Out(p) \cap Old(p) = {}
      /\ Rev(p, revs) \subseteq DOMAIN p.missed
      /\ news \cap (DOMAIN p.live \cup DOMAIN p.missed) = {}
      /\ DOMAIN p.live \cap DOMAIN p.missed = {}
  BY DEF IsNode, IsBlockOn, Known, Out, Old, Rev, Expiring
<1>3. Out(p) = p.winners
  BY DEF IsNode, Out, On
<1>a. /\ \A t \in DOMAIN p.live : p.live[t] \in LiveValue
      /\ \A t \in DOMAIN p.missed : p.missed[t] \in MissedValue
  BY DEF IsNode, IsTreap
<1>b. p.height \in Nat /\ p.height + 1 \in 0 .. MaxHeight
  BY DEF IsNode
<1>4. \A t \in news : u[t] = [height |-> p.height + 1, missed |-> FALSE, revoked |-> FALSE,
                              spent |-> FALSE, expired |-> FALSE]
  BY <1>1 DEF u, BlockUndo, On, Out, Old, Rev
<1>5. \A t \in Rev(p, revs) : u[t] = [p.missed[t] EXCEPT !.revoked = TRUE]
  BY <1>1, <1>2 DEF u, BlockUndo, On, Out, Old, Rev
<1>6. \A t \in Old(p) : u[t] = [p.live[t] EXCEPT !.missed = TRUE, !.expired = TRUE]
  BY <1>1, <1>2 DEF u, BlockUndo, On, Out, Old, Rev
<1>7. \A t \in Out(p) : u[t] = IF t \in voted
                               THEN [p.live[t] EXCEPT !.spent = TRUE, !.missed = FALSE]
                               ELSE [p.live[t] EXCEPT !.spent = FALSE, !.missed = TRUE]
  BY <1>1, <1>2 DEF u, BlockUndo, On, Out, Old, Rev
<1>. HIDE DEF u
<1>8. \A t \in news : u[t] \in LiveValue
  <2>. DEFINE fresh == [height |-> p.height + 1, missed |-> FALSE, revoked |-> FALSE,
                        spent |-> FALSE, expired |-> FALSE]
  <2>1. fresh \in Value BY <1>b DEF Value
  <2>2. fresh \in LiveValue BY <2>1 DEF LiveValue
  <2>. QED BY <1>4, <2>2
<1>9. \A t \in Rev(p, revs) : /\ u[t] \in RevokedValue
                              /\ Unrevoked(u[t]) = p.missed[t]
  <2>. TAKE t \in Rev(p, revs)
  <2>1. p.missed[t] \in MissedValue BY <1>a, <1>2
  <2>2. u[t] = [p.missed[t] EXCEPT !.revoked = TRUE] BY <1>5
  <2>. QED BY <2>1, <2>2 DEF MissedValue, RevokedValue, Value, Unrevoked
<1>10. \A t \in Old(p) : /\ u[t] \in MissedValue /\ u[t].expired
                         /\ Unmissed(u[t]) = p.live[t]
  <2>. TAKE t \in Old(p)
  <2>1. p.live[t] \in LiveValue BY <1>a, <1>2
  <2>2. u[t] = [p.live[t] EXCEPT !.missed = TRUE, !.expired = TRUE] BY <1>6
  <2>. QED BY <2>1, <2>2 DEF MissedValue, LiveValue, Value, Unmissed
<1>11. \A t \in Out(p) \ voted : /\ u[t] \in MissedValue /\ ~u[t].expired
                                 /\ Unmissed(u[t]) = p.live[t]
  <2>. TAKE t \in Out(p) \ voted
  <2>1. p.live[t] \in LiveValue BY <1>a, <1>2
  <2>2. u[t] = [p.live[t] EXCEPT !.spent = FALSE, !.missed = TRUE] BY <1>7
  <2>. QED BY <2>1, <2>2 DEF MissedValue, LiveValue, Value, Unmissed
<1>12. \A t \in Out(p) \cap voted : /\ u[t] \in Value /\ ~u[t].missed /\ u[t].spent
                                    /\ ~u[t].revoked
                                    /\ Unspent(u[t]) = p.live[t]
  <2>. TAKE t \in Out(p) \cap voted
  <2>1. p.live[t] \in LiveValue BY <1>a, <1>2
  <2>2. u[t] = [p.live[t] EXCEPT !.spent = TRUE, !.missed = FALSE] BY <1>7
  <2>. QED BY <2>1, <2>2 DEF LiveValue, Value, Unspent
<1>13. \A t \in DOMAIN u : u[t] \in Value
  BY <1>1, <1>8, <1>9, <1>10, <1>11, <1>12 DEF LiveValue, MissedValue, RevokedValue
<1>14. u = [t \in DOMAIN u |-> u[t]]
  BY DEF u, BlockUndo
<1>15. DOMAIN u \subseteq NodeTickets
  BY <1>1, <1>2 DEF IsNode, IsTreap, IsBlockOn
<1>16. IsTreap(u, Value)
  BY <1>13, <1>14, <1>15 DEF IsTreap
<1>17. New(u) = news
  BY <1>1, <1>8, <1>9, <1>10, <1>11, <1>12 DEF New, LiveValue, MissedValue, RevokedValue
<1>18. Revoked(u) = Rev(p, revs)
  BY <1>1, <1>8, <1>9, <1>10, <1>11, <1>12 DEF Revoked, LiveValue, MissedValue, RevokedValue
<1>19. Missed(u) = Old(p) \cup (Out(p) \ voted)
  BY <1>1, <1>8, <1>9, <1>10, <1>11, <1>12 DEF Missed, LiveValue, MissedValue, RevokedValue
<1>20. Spent(u) = Out(p) \cap voted
  BY <1>1, <1>8, <1>9, <1>10, <1>11, <1>12 DEF Spent, LiveValue, MissedValue, RevokedValue
<1>21. Won(u) = Out(p)
  BY <1>19, <1>20, <1>10, <1>11 DEF Won
<1>. QED
  BY <1>1, <1>2, <1>3, <1>8, <1>9, <1>10, <1>11, <1>12, <1>16, <1>17, <1>18, <1>19, <1>20, <1>21
     DEF UndoFacts, u

-----------------------------------------------------------------------------
\* Node n is node p with one block connected.
Linked(p, n) ==
    /\ IsNode(p) /\ IsNode(n) /\ p.height < MaxHeight
    /\ \E voted, revs, news :
          IsBlockOn(p, voted, revs, news) /\ n = connectNode(p, voted, revs, news, n.winners)

\* Connecting a block gives a node again, one higher, with the tickets that the
\* parent knew and the new ones.
LEMMA ConnectGivesNode ==
    ASSUME NEW p, IsNode(p), p.height < MaxHeight,
           NEW voted, NEW revs, NEW news, IsBlockOn(p, voted, revs, news),
           NEW w, NEW n, n = connectNode(p, voted, revs, news, w),
           w \subseteq DOMAIN n.live,
           n.height < StakeValidationHeight - 1 => w = {}
    PROVE  /\ Linked(p, n)
           /\ n.height = p.height + 1
           /\ Known(n) \subseteq Known(p) \cup DOMAIN n.undo
           /\ DOMAIN n.missed \cup DOMAIN n.revoked
                \subseteq DOMAIN p.missed \cup DOMAIN p.revoked \cup Missed(n.undo)
<1>. USE StakeNodeAssumption
<1>. DEFINE u == BlockUndo(p, voted, revs, news)
<1>0. PICK v : v = u OBVIOUS
<1>1. /\ n = [height |-> p.height + 1,
              live |-> With(Without(p.live, Missed(v) \cup Spent(v)), Without(v, DOMAIN v \ New(v))),
              missed |-> With(Without(p.missed, Revoked(v)), Without(v, DOMAIN v \ Missed(v))),
              revoked |-> With(p.revoked, Without(v, DOMAIN v \ Revoked(v))),
              undo |-> v, new |-> news, winners |-> w]
  BY <1>0 DEF connectNode
<1>. HIDE DEF u
<1>f. /\ n.live = With(Without(p.live, Missed(v) \cup Spent(v)), Without(v, DOMAIN v \ New(v)))
      /\ n.missed = With(Without(p.missed, Revoked(v)), Without(v, DOMAIN v \ Missed(v)))
      /\ n.revoked = With(p.revoked, Without(v, DOMAIN v \ Revoked(v)))
      /\ n.undo = v /\ n.new = news /\ n.winners = w /\ n.height = p.height + 1
  BY <1>1
<1>a. UndoFacts(p, voted, revs, news, v)
  BY <1>0, UndoKinds DEF u
<1>2. /\ DOMAIN v = Out(p) \cup Old(p) \cup Rev(p, revs) \cup news
      /\ IsTreap(v, Value)
      /\ New(v) = news /\ Revoked(v) = Rev(p, revs)
      /\ Missed(v) \cap news = {} /\ Missed(v) \subseteq DOMAIN v
      /\ \A t \in news : v[t] \in LiveValue
      /\ \A t \in Rev(p, revs) : v[t] \in RevokedValue
      /\ \A t \in Missed(v) : v[t] \in MissedValue
      /\ Missed(v) \cup Spent(v) \subseteq DOMAIN p.live
  BY <1>a DEF UndoFacts, IsBlockOn, Known
<1>3. /\ DOMAIN n.live = (DOMAIN p.live \ (Missed(v) \cup Spent(v))) \cup news
      /\ DOMAIN n.missed = (DOMAIN p.missed \ Rev(p, revs)) \cup Missed(v)
      /\ DOMAIN n.revoked = DOMAIN p.revoked \cup Rev(p, revs)
  <2>1. /\ DOMAIN Without(p.live, Missed(v) \cup Spent(v)) = DOMAIN p.live \ (Missed(v) \cup Spent(v))
        /\ DOMAIN Without(p.missed, Revoked(v)) = DOMAIN p.missed \ Revoked(v)
        /\ DOMAIN Without(v, DOMAIN v \ New(v)) = news
        /\ DOMAIN Without(v, DOMAIN v \ Missed(v)) = Missed(v)
        /\ DOMAIN Without(v, DOMAIN v \ Revoked(v)) = Rev(p, revs)
    BY <1>2 DEF Without
  <2>. QED BY <1>f, <1>2, <2>1 DEF With
<1>4. Rev(p, revs) \subseteq DOMAIN p.missed /\ news \cap Known(p) = {} /\ news \subseteq NodeTickets
  BY DEF Rev, IsBlockOn
<1>5. IsTreap(n.live, LiveValue)
  <2>1. DOMAIN n.live \subseteq NodeTickets BY <1>3, <1>4 DEF IsNode, IsTreap
  <2>2. \A t \in DOMAIN n.live : n.live[t] = IF t \in news THEN v[t] ELSE p.live[t]
    BY <1>f, <1>2, <1>3 DEF With, Without
  <2>3. \A t \in DOMAIN p.live : p.live[t] \in LiveValue BY DEF IsNode, IsTreap
  <2>4. n.live = [t \in DOMAIN n.live |-> n.live[t]] BY <1>f DEF With
  <2>5. \A t \in DOMAIN n.live : n.live[t] \in LiveValue BY <2>2, <2>3, <1>2, <1>3
  <2>. QED BY <2>1, <2>4, <2>5 DEF IsTreap
<1>6. IsTreap(n.missed, MissedValue)
  <2>1. DOMAIN n.missed \subseteq NodeTickets BY <1>2, <1>3, <1>4 DEF IsNode, IsTreap
  <2>2. \A t \in DOMAIN n.missed : n.missed[t] = IF t \in Missed(v) THEN v[t] ELSE p.missed[t]
    BY <1>f, <1>2, <1>3 DEF With, Without, Missed
  <2>3. \A t \in DOMAIN p.missed : p.missed[t] \in MissedValue BY DEF IsNode, IsTreap
  <2>4. n.missed = [t \in DOMAIN n.missed |-> n.missed[t]] BY <1>f DEF With
  <2>5. \A t \in DOMAIN n.missed : n.missed[t] \in MissedValue BY <2>2, <2>3, <1>2, <1>3
  <2>. QED BY <2>1, <2>4, <2>5 DEF IsTreap
<1>7. IsTreap(n.revoked, RevokedValue)
  <2>1. DOMAIN n.revoked \subseteq NodeTickets BY <1>2, <1>3, <1>4 DEF IsNode, IsTreap
  <2>2. \A t \in DOMAIN n.revoked : n.revoked[t] = IF t \in Rev(p, revs) THEN v[t] ELSE p.revoked[t]
    BY <1>f, <1>2, <1>3 DEF With, Without, Revoked
  <2>3. \A t \in DOMAIN p.revoked : p.revoked[t] \in RevokedValue BY DEF IsNode, IsTreap
  <2>4. n.revoked = [t \in DOMAIN n.revoked |-> n.revoked[t]] BY <1>f DEF With
  <2>5. \A t \in DOMAIN n.revoked : n.revoked[t] \in RevokedValue BY <2>2, <2>3, <1>2, <1>3
  <2>. QED BY <2>1, <2>4, <2>5 DEF IsTreap
<1>8. /\ DOMAIN n.live \cap DOMAIN n.missed = {}
      /\ DOMAIN n.live \cap DOMAIN n.revoked = {}
      /\ DOMAIN n.missed \cap DOMAIN n.revoked = {}
  BY <1>2, <1>3, <1>4 DEF IsNode, Known
<1>9. p.height \in Nat /\ n.height = p.height + 1 /\ n.height \in 0 .. MaxHeight
  BY <1>f DEF IsNode
<1>10. IsNode(n)
  BY <1>1, <1>f, <1>2, <1>4, <1>5, <1>6, <1>7, <1>8, <1>9 DEF IsNode
<1>11. Linked(p, n)
  BY <1>10, <1>f DEF Linked
<1>12. Known(n) \subseteq Known(p) \cup DOMAIN n.undo
  BY <1>f, <1>2, <1>3, <1>4 DEF Known
<1>13. DOMAIN n.missed \cup DOMAIN n.revoked
          \subseteq DOMAIN p.missed \cup DOMAIN p.revoked \cup Missed(n.undo)
  BY <1>f, <1>3, <1>4
<1>. QED BY <1>9, <1>11, <1>12, <1>13

\* The fields of a node with one block connected.
Step(p, n, voted, revs, news) ==
    /\ UndoFacts(p, voted, revs, news, n.undo)
    /\ news \cap Known(p) = {}
    /\ Rev(p, revs) \subseteq DOMAIN p.missed
    /\ n.height = p.height + 1
    /\ n.live = With(Without(p.live, Missed(n.undo) \cup Spent(n.undo)),
                     Without(n.undo, DOMAIN n.undo \ New(n.undo)))
    /\ n.missed = With(Without(p.missed, Revoked(n.undo)),
                       Without(n.undo, DOMAIN n.undo \ Missed(n.undo)))
    /\ n.revoked = With(p.revoked, Without(n.undo, DOMAIN n.undo \ Revoked(n.undo)))

LEMMA LinkedStep ==
    ASSUME NEW p, NEW n, Linked(p, n)
    PROVE  \E voted, revs, news : Step(p, n, voted, revs, news)
<1>1. PICK voted, revs, news : /\ IsBlockOn(p, voted, revs, news)
                               /\ n = connectNode(p, voted, revs, news, n.winners)
  BY DEF Linked
<1>2. UndoFacts(p, voted, revs, news, BlockUndo(p, voted, revs, news))
  BY <1>1, UndoKinds DEF Linked
<1>3. n.undo = BlockUndo(p, voted, revs, news)
  BY <1>1 DEF connectNode
<1>4. Rev(p, revs) \subseteq DOMAIN p.missed /\ news \cap Known(p) = {}
  BY <1>1 DEF IsBlockOn, Rev
<1>. DEFINE u == BlockUndo(p, voted, revs, news)
<1>5. /\ n.height = p.height + 1
      /\ n.live = With(Without(p.live, Missed(u) \cup Spent(u)), Without(u, DOMAIN u \ New(u)))
      /\ n.missed = With(Without(p.missed, Revoked(u)), Without(u, DOMAIN u \ Missed(u)))
      /\ n.revoked = With(p.revoked, Without(u, DOMAIN u \ Revoked(u)))
  BY <1>1 DEF connectNode
<1>6. Step(p, n, voted, revs, news)
  BY <1>2, <1>3, <1>4, <1>5 DEF Step
<1>. QED BY <1>6

\* What disconnectNode and WriteDisconnectedBestNode make of the three treaps.
LEMMA TreapsRestored ==
    ASSUME NEW p, NEW n, Linked(p, n), NEW u, u = n.undo
    PROVE  /\ With(Without(n.live, New(u)),
                   [t \in Missed(u) \cup Spent(u) |->
                       IF t \in Missed(u) THEN Unmissed(u[t]) ELSE Unspent(u[t])]) = p.live
           /\ With(Without(n.missed, Missed(u)), [t \in Revoked(u) |-> Unrevoked(u[t])]) = p.missed
           /\ Without(n.revoked, Revoked(u)) = p.revoked
           /\ Won(u) = p.winners
           /\ n.height = p.height + 1
<1>1. PICK voted, revs, news : Step(p, n, voted, revs, news)
  BY LinkedStep
<1>2. /\ New(u) = news /\ Revoked(u) = Rev(p, revs) /\ Won(u) = p.winners
      /\ Missed(u) \cup Spent(u) \subseteq DOMAIN p.live
      /\ New(u) \subseteq DOMAIN u /\ Missed(u) \subseteq DOMAIN u /\ Revoked(u) \subseteq DOMAIN u
      /\ \A t \in Revoked(u) : Unrevoked(u[t]) = p.missed[t]
      /\ \A t \in Missed(u) : Unmissed(u[t]) = p.live[t]
      /\ \A t \in Spent(u) : Unspent(u[t]) = p.live[t]
  BY <1>1 DEF Step, UndoFacts, New, Missed, Revoked
<1>3. /\ news \cap DOMAIN p.live = {}
      /\ Revoked(u) \subseteq DOMAIN p.missed
      /\ DOMAIN p.live \cap DOMAIN p.missed = {}
      /\ DOMAIN p.missed \cap DOMAIN p.revoked = {}
      /\ Missed(u) \cap DOMAIN p.missed = {}
  BY <1>1, <1>2 DEF Step, Known, Linked, IsNode
<1>4. /\ p.live = [t \in DOMAIN p.live |-> p.live[t]]
      /\ p.missed = [t \in DOMAIN p.missed |-> p.missed[t]]
      /\ p.revoked = [t \in DOMAIN p.revoked |-> p.revoked[t]]
  BY DEF Linked, IsNode, IsTreap
<1>5. Without(n.live, New(u)) = [t \in DOMAIN p.live \ (Missed(u) \cup Spent(u)) |-> p.live[t]]
  <2>1. n.live = With(Without(p.live, Missed(u) \cup Spent(u)), Without(u, DOMAIN u \ New(u)))
    BY <1>1 DEF Step
  <2>2. n.live = [t \in (DOMAIN p.live \ (Missed(u) \cup Spent(u))) \cup New(u) |->
                     IF t \in New(u) THEN u[t] ELSE p.live[t]]
    BY <2>1, <1>2 DEF With, Without
  <2>. QED BY <2>2, <1>2, <1>3 DEF Without
<1>6. Without(n.missed, Missed(u)) = [t \in DOMAIN p.missed \ Revoked(u) |-> p.missed[t]]
  <2>1. n.missed = With(Without(p.missed, Revoked(u)), Without(u, DOMAIN u \ Missed(u)))
    BY <1>1 DEF Step
  <2>2. n.missed = [t \in (DOMAIN p.missed \ Revoked(u)) \cup Missed(u) |->
                     IF t \in Missed(u) THEN u[t] ELSE p.missed[t]]
    BY <2>1, <1>2 DEF With, Without
  <2>. QED BY <2>2, <1>2, <1>3 DEF Without
<1>7. Without(n.revoked, Revoked(u)) = p.revoked
  <2>1. n.revoked = With(p.revoked, Without(u, DOMAIN u \ Revoked(u)))
    BY <1>1 DEF Step
  <2>2. n.revoked = [t \in DOMAIN p.revoked \cup Revoked(u) |->
                     IF t \in Revoked(u) THEN u[t] ELSE p.revoked[t]]
    BY <2>1, <1>2 DEF With, Without
  <2>3. Without(n.revoked, Revoked(u)) = [t \in DOMAIN p.revoked |-> p.revoked[t]]
    BY <2>2, <1>2, <1>3 DEF Without
  <2>. QED BY <2>3, <1>4
<1>8. With(Without(n.live, New(u)),
           [t \in Missed(u) \cup Spent(u) |->
              IF t \in Missed(u) THEN Unmissed(u[t]) ELSE Unspent(u[t])])
        = [t \in DOMAIN p.live |-> p.live[t]]
  BY <1>5, <1>2 DEF With
<1>9. With(Without(n.missed, Missed(u)), [t \in Revoked(u) |-> Unrevoked(u[t])])
        = [t \in DOMAIN p.missed |-> p.missed[t]]
  BY <1>6, <1>2, <1>3 DEF With
<1>10. n.height = p.height + 1 BY <1>1 DEF Step
<1>. QED BY <1>2, <1>4, <1>7, <1>8, <1>9, <1>10

\* Disconnecting a block gives back the node its parent had.
LEMMA DisconnectRestores ==
    ASSUME NEW p, NEW n, Linked(p, n), n.height # 1
    PROVE  disconnectNode(n, p.undo, p.new) = p
<1>1. PICK u : u = n.undo OBVIOUS
<1>2. disconnectNode(n, p.undo, p.new) =
        [height |-> p.height, live |-> p.live, missed |-> p.missed, revoked |-> p.revoked,
         undo |-> p.undo, new |-> p.new, winners |-> p.winners]
  <2>0. n.height = p.height + 1 BY TreapsRestored
  <2>1. n.height - 1 = p.height BY <2>0 DEF Linked, IsNode
  <2>. QED BY <1>1, <2>1, TreapsRestored DEF disconnectNode
<1>. QED BY <1>2 DEF Linked, IsNode

-----------------------------------------------------------------------------
(***************************************************************************)
(* The inductive invariant.  The nodes on the path from genesis are linked *)
(* by blocks; the database is what the last of them says; the node in      *)
(* memory is that one, or the one above or below it.                       *)
(***************************************************************************)
Treaps == UNION {[S -> Value] : S \in SUBSET NodeTickets}
NodeRecords == [height : 0 .. MaxHeight, live : Treaps, missed : Treaps, revoked : Treaps,
                undo : Treaps, new : SUBSET NodeTickets, winners : SUBSET NodeTickets]

PathLinked ==
    /\ committed \in Seq(NodeRecords) /\ Len(committed) >= 1
    /\ committed[1] = genesisNode
    /\ \A i \in 1 .. Len(committed) : IsNode(committed[i]) /\ committed[i].height = i - 1
    /\ \A i \in 1 .. Len(committed) - 1 : Linked(committed[i], committed[i + 1])

\* Every ticket came in with a block of the path, and one that is missed or
\* revoked was missed in a block of the path.
TicketsTraced ==
    \A i \in 1 .. Len(committed) :
       /\ \A t \in Known(committed[i]) : \E j \in 1 .. i : t \in DOMAIN committed[j].undo
       /\ \A t \in DOMAIN committed[i].missed \cup DOMAIN committed[i].revoked :
             \E j \in 1 .. i : t \in Missed(committed[j].undo)

DiskOf(c) ==
    LET n == c[Len(c)]
    IN [live |-> n.live, missed |-> n.missed, revoked |-> n.revoked,
        undo |-> [h \in 0 .. Len(c) - 1 |-> c[h + 1].undo],
        new  |-> [h \in 0 .. Len(c) - 1 |-> c[h + 1].new],
        best |-> bestState(n)]

InMemory ==
    \/ pending = "none" /\ node = Best
    \/ /\ pending = "connect" /\ Linked(Best, node)
       /\ Known(node) \subseteq Known(Best) \cup DOMAIN node.undo
       /\ DOMAIN node.missed \cup DOMAIN node.revoked
             \subseteq DOMAIN Best.missed \cup DOMAIN Best.revoked \cup Missed(node.undo)
    \/ /\ pending = "disconnect" /\ Len(committed) > 1
       /\ node = committed[Len(committed) - 1] /\ childUndo = Best.undo

IInv == PathLinked /\ TicketsTraced /\ db = DiskOf(committed) /\ InMemory

LEMMA GenesisIsNode == IsNode(genesisNode) /\ Known(genesisNode) = {}
<1>. USE StakeNodeAssumption
<1>1. DOMAIN Empty = {} /\ \A V : Empty \in [DOMAIN Empty -> V]
  BY DEF Empty
<1>2. \A V : IsTreap(Empty, V)
  BY <1>1 DEF IsTreap
<1>. QED
  BY <1>1, <1>2 DEF IsNode, genesisNode, Known

LEMMA NodesAreRecords == ASSUME NEW n, IsNode(n) PROVE n \in NodeRecords
<1>1. \A f : IsTreap(f, Value) => f \in Treaps
  BY DEF IsTreap, Treaps
<1>2. /\ IsTreap(n.live, Value) /\ IsTreap(n.missed, Value)
      /\ IsTreap(n.revoked, Value) /\ IsTreap(n.undo, Value)
  BY DEF IsNode, IsTreap, LiveValue, MissedValue, RevokedValue
<1>3. n.winners \subseteq NodeTickets
  BY DEF IsNode, IsTreap
<1>. QED
  BY <1>1, <1>2, <1>3 DEF IsNode, NodeRecords

LEMMA InitIInv == NodeInit => IInv
<1>. SUFFICES ASSUME NodeInit PROVE IInv
  OBVIOUS
<1>. USE StakeNodeAssumption
<1>1. Len(committed) = 1 /\ committed[1] = genesisNode /\ committed \in Seq(NodeRecords)
  BY GenesisIsNode, NodesAreRecords DEF NodeInit
<1>2. PathLinked
  <2>1. genesisNode.height = 0 BY DEF genesisNode
  <2>2. \A i \in 1 .. Len(committed) : i = 1 BY <1>1
  <2>. QED BY <1>1, <2>1, <2>2, GenesisIsNode DEF PathLinked
<1>3. TicketsTraced
  BY <1>1, GenesisIsNode DEF TicketsTraced, Known
<1>4. db = DiskOf(committed)
  <2>1. /\ [h \in 0 .. Len(committed) - 1 |-> committed[h + 1].undo] = [h \in {0} |-> Empty]
        /\ [h \in 0 .. Len(committed) - 1 |-> committed[h + 1].new] = [h \in {0} |-> {}]
    <3>1. 0 .. Len(committed) - 1 = {0} BY <1>1
    <3>2. genesisNode.undo = Empty /\ genesisNode.new = {} BY DEF genesisNode
    <3>. QED BY <1>1, <3>1, <3>2
  <2>2. genesisNode.live = Empty /\ genesisNode.missed = Empty /\ genesisNode.revoked = Empty
    BY DEF genesisNode
  <2>. QED BY <1>1, <2>1, <2>2 DEF NodeInit, DiskOf, InitDatabaseState
<1>5. InMemory
  BY <1>1 DEF NodeInit, InMemory, Best
<1>. QED BY <1>2, <1>3, <1>4, <1>5 DEF IInv

\* Best and its height, whatever is pending.
LEMMA BestFacts ==
    ASSUME IInv
    PROVE  /\ IsNode(Best) /\ Best.height = Len(committed) - 1 /\ Len(committed) \in Nat
           /\ Best = committed[Len(committed)]
           /\ \A t \in Known(Best) : \E j \in 1 .. Len(committed) : t \in DOMAIN committed[j].undo
BY DEF IInv, PathLinked, TicketsTraced, Best

LEMMA ConnectStep == ASSUME IInv, ConnectNode PROVE IInv'
<1>. USE StakeNodeAssumption
<1>0. IsNode(node) /\ node = Best /\ pending = "none" /\ node.height < MaxHeight
  BY BestFacts DEF IInv, InMemory, ConnectNode
<1>1. PICK voted \in SUBSET node.winners, revs \in SUBSET DOMAIN node.missed,
           news \in SUBSET Unused :
        \E w \in Draws(connectNode(node, voted, revs, news, {})) :
           node' = [connectNode(node, voted, revs, news, {}) EXCEPT !.winners = w]
  BY DEF ConnectNode
<1>2. PICK w \in Draws(connectNode(node, voted, revs, news, {})) :
        node' = [connectNode(node, voted, revs, news, {}) EXCEPT !.winners = w]
  BY <1>1
<1>3. node' = connectNode(node, voted, revs, news, w)
  BY <1>2 DEF connectNode
<1>4. IsBlockOn(node, voted, revs, news)
  <2>1. news \cap Known(node) = {}
    BY <1>0, BestFacts DEF Unused, IInv, PathLinked
  <2>. QED BY <2>1 DEF IsBlockOn, Unused
<1>5. /\ connectNode(node, voted, revs, news, {}).live = node'.live
      /\ connectNode(node, voted, revs, news, {}).height = node'.height
  BY <1>3 DEF connectNode
<1>6. w \subseteq DOMAIN node'.live /\ (node'.height < StakeValidationHeight - 1 => w = {})
  <2>1. node'.height \in Int
    BY <1>0, <1>3 DEF connectNode, IsNode
  <2>. QED BY <1>5, <2>1 DEF Draws
<1>7. /\ Linked(node, node')
      /\ Known(node') \subseteq Known(node) \cup DOMAIN node'.undo
      /\ DOMAIN node'.missed \cup DOMAIN node'.revoked
           \subseteq DOMAIN node.missed \cup DOMAIN node.revoked \cup Missed(node'.undo)
  BY <1>0, <1>3, <1>4, <1>6, ConnectGivesNode
<1>8. UNCHANGED <<db, childUndo, committed>> /\ pending' = "connect" /\ Best' = Best
  BY DEF ConnectNode, Best
<1>9. (PathLinked /\ TicketsTraced /\ db = DiskOf(committed))'
  BY <1>8 DEF IInv, PathLinked, TicketsTraced
<1>10. InMemory'
  BY <1>0, <1>7, <1>8 DEF InMemory
<1>. QED BY <1>9, <1>10 DEF IInv

LEMMA CommitConnectStep == ASSUME IInv, CommitConnect PROVE IInv'
<1>. USE StakeNodeAssumption
<1>. DEFINE k == Len(committed)
<1>0. /\ Linked(Best, node) /\ IsNode(node) /\ k \in Nat \ {0}
      /\ Known(node) \subseteq Known(Best) \cup DOMAIN node.undo
      /\ DOMAIN node.missed \cup DOMAIN node.revoked
            \subseteq DOMAIN Best.missed \cup DOMAIN Best.revoked \cup Missed(node.undo)
      /\ Best.height = k - 1 /\ Best = committed[k]
  BY BestFacts DEF IInv, InMemory, CommitConnect, Linked, PathLinked
<1>1. /\ committed' = Append(committed, node) /\ node' = node /\ pending' = "none"
      /\ db' = WriteConnectedBestNode(db, node)
  BY DEF CommitConnect
<1>2. /\ Len(committed') = k + 1 /\ committed' \in Seq(NodeRecords)
      /\ \A i \in 1 .. k : committed'[i] = committed[i]
      /\ committed'[k + 1] = node
  BY <1>0, <1>1, NodesAreRecords DEF IInv, PathLinked
<1>3. node.height = k
  <2>1. node.height = Best.height + 1 BY <1>0, TreapsRestored
  <2>. QED BY <2>1, <1>0
<1>4. PathLinked'
  <2>1. \A i \in 1 .. k + 1 : IsNode(committed'[i]) /\ committed'[i].height = i - 1
    BY <1>0, <1>2, <1>3 DEF IInv, PathLinked
  <2>2. \A i \in 1 .. k : Linked(committed'[i], committed'[i + 1])
    <3>. TAKE i \in 1 .. k
    <3>1. CASE i = k BY <3>1, <1>0, <1>2
    <3>2. CASE i # k
      <4>1. i \in 1 .. k - 1 /\ i + 1 \in 1 .. k BY <3>2, <1>0
      <4>. QED BY <4>1, <1>2 DEF IInv, PathLinked
    <3>. QED BY <3>1, <3>2
  <2>. QED BY <2>1, <2>2, <1>0, <1>2 DEF IInv, PathLinked
<1>5. TicketsTraced'
  <2>. SUFFICES ASSUME NEW i \in 1 .. k + 1
       PROVE /\ \A t \in Known(committed'[i]) : \E j \in 1 .. i : t \in DOMAIN committed'[j].undo
             /\ \A t \in DOMAIN committed'[i].missed \cup DOMAIN committed'[i].revoked :
                   \E j \in 1 .. i : t \in Missed(committed'[j].undo)
    BY <1>2 DEF TicketsTraced
  <2>1. CASE i \in 1 .. k
    <3>1. \A j \in 1 .. i : committed'[j] = committed[j] BY <2>1, <1>2
    <3>. QED BY <2>1, <1>2, <3>1 DEF IInv, TicketsTraced
  <2>2. CASE i = k + 1
    <3>1. /\ \A t \in Known(Best) : \E j \in 1 .. k : t \in DOMAIN committed'[j].undo
          /\ \A t \in DOMAIN Best.missed \cup DOMAIN Best.revoked :
                \E j \in 1 .. k : t \in Missed(committed'[j].undo)
      <4>1. k \in 1 .. k BY <1>0
      <4>2. /\ \A t \in Known(committed[k]) : \E j \in 1 .. k : t \in DOMAIN committed[j].undo
            /\ \A t \in DOMAIN committed[k].missed \cup DOMAIN committed[k].revoked :
                  \E j \in 1 .. k : t \in Missed(committed[j].undo)
        BY <4>1 DEF IInv, TicketsTraced
      <4>. QED BY <4>2, <1>0, <1>2
    <3>2. 1 .. k \subseteq 1 .. i /\ i \in 1 .. i BY <2>2, <1>0
    <3>. QED BY <2>2, <1>0, <1>2, <3>1, <3>2
  <2>. QED BY <2>1, <2>2, <1>0
<1>6. db' = DiskOf(committed')
  <2>. DEFINE u == node.undo
  <2>0. PICK voted, revs, news : Step(Best, node, voted, revs, news)
    BY <1>0, LinkedStep
  <2>1. /\ db.live = Best.live /\ db.missed = Best.missed /\ db.revoked = Best.revoked
        /\ db.undo = [h \in 0 .. k - 1 |-> committed[h + 1].undo]
        /\ db.new = [h \in 0 .. k - 1 |-> committed[h + 1].new]
    BY DEF IInv, DiskOf, Best
  <2>2. [t \in Missed(u) |-> [u[t] EXCEPT !.missed = TRUE]] = Without(u, DOMAIN u \ Missed(u))
    <3>1. \A t \in Missed(u) : u[t] \in MissedValue BY <2>0 DEF Step, UndoFacts
    <3>2. \A v \in MissedValue : [v EXCEPT !.missed = TRUE] = v BY DEF MissedValue, Value
    <3>3. Missed(u) = DOMAIN u \ (DOMAIN u \ Missed(u)) BY DEF Missed
    <3>. QED BY <3>1, <3>2, <3>3 DEF Without
  <2>3. /\ With(Without(db.live, Missed(u) \cup Spent(u)), Without(u, DOMAIN u \ New(u))) = node.live
        /\ With(Without(db.missed, Revoked(u)), Without(u, DOMAIN u \ Missed(u))) = node.missed
        /\ With(db.revoked, Without(u, DOMAIN u \ Revoked(u))) = node.revoked
    BY <2>0, <2>1 DEF Step
  <2>4. With(db.undo, [h \in {node.height} |-> u]) = [h \in 0 .. k |-> committed'[h + 1].undo]
    <3>1. 0 .. k = (0 .. k - 1) \cup {k} BY <1>0
    <3>2. \A h \in 0 .. k - 1 : h # k /\ committed'[h + 1] = committed[h + 1] BY <1>0, <1>2
    <3>. QED BY <2>1, <1>2, <1>3, <3>1, <3>2 DEF With
  <2>5. With(db.new, [h \in {node.height} |-> node.new]) = [h \in 0 .. k |-> committed'[h + 1].new]
    <3>1. 0 .. k = (0 .. k - 1) \cup {k} BY <1>0
    <3>2. \A h \in 0 .. k - 1 : h # k /\ committed'[h + 1] = committed[h + 1] BY <1>0, <1>2
    <3>. QED BY <2>1, <1>2, <1>3, <3>1, <3>2 DEF With
  <2>6. db' = [live |-> node.live, missed |-> node.missed, revoked |-> node.revoked,
               undo |-> [h \in 0 .. k |-> committed'[h + 1].undo],
               new |-> [h \in 0 .. k |-> committed'[h + 1].new], best |-> bestState(node)]
    BY <1>1, <2>2, <2>3, <2>4, <2>5 DEF WriteConnectedBestNode
  <2>7. Len(committed') - 1 = k BY <1>0, <1>2
  <2>. QED BY <2>6, <2>7, <1>2 DEF DiskOf
<1>7. InMemory'
  BY <1>1, <1>2 DEF InMemory, Best
<1>. QED BY <1>4, <1>5, <1>6, <1>7 DEF IInv

LEMMA DisconnectStep == ASSUME IInv, DisconnectNode PROVE IInv'
<1>. USE StakeNodeAssumption
<1>. DEFINE k == Len(committed)
            p == committed[k - 1]
<1>0. /\ node = Best /\ Best = committed[k] /\ Best.height = k - 1 /\ k \in Nat /\ k - 1 > 0
  BY BestFacts DEF IInv, InMemory, DisconnectNode
<1>1. k - 1 \in 1 .. k - 1 /\ k - 1 \in 1 .. k /\ (k - 1) + 1 = k BY <1>0
<1>2. Linked(p, node) /\ IsNode(p) /\ p.height = k - 2
  BY <1>0, <1>1 DEF IInv, PathLinked
<1>3. db.undo[node.height - 1] = p.undo /\ db.new[node.height - 1] = p.new
  <2>1. node.height - 1 \in 0 .. k - 1 /\ (node.height - 1) + 1 = k - 1 BY <1>0
  <2>2. /\ db.undo = [h \in 0 .. k - 1 |-> committed[h + 1].undo]
        /\ db.new = [h \in 0 .. k - 1 |-> committed[h + 1].new]
    BY DEF IInv, DiskOf
  <2>. QED BY <2>1, <2>2
<1>4. node' = p
  <2>1. CASE node.height = 1
    <3>1. k - 1 = 1 BY <2>1, <1>0
    <3>2. p = genesisNode BY <3>1 DEF IInv, PathLinked
    <3>. QED BY <2>1, <3>2 DEF DisconnectNode, disconnectNode
  <2>2. CASE node.height # 1
    BY <2>2, <1>2, <1>3, DisconnectRestores DEF DisconnectNode
  <2>. QED BY <2>1, <2>2
<1>5. /\ UNCHANGED <<db, committed>> /\ pending' = "disconnect" /\ childUndo' = node.undo
      /\ Best' = Best
  BY DEF DisconnectNode, Best
<1>6. (PathLinked /\ TicketsTraced /\ db = DiskOf(committed))'
  BY <1>5 DEF IInv, PathLinked, TicketsTraced
<1>7. InMemory'
  BY <1>0, <1>4, <1>5 DEF InMemory
<1>. QED BY <1>6, <1>7 DEF IInv

LEMMA CommitDisconnectStep == ASSUME IInv, CommitDisconnect PROVE IInv'
<1>. USE StakeNodeAssumption
<1>. DEFINE k == Len(committed)
            u == childUndo
<1>0. /\ k \in Nat /\ k > 1 /\ node = committed[k - 1] /\ childUndo = Best.undo
      /\ Best = committed[k] /\ Best.height = k - 1
  BY BestFacts DEF IInv, InMemory, CommitDisconnect
<1>1. /\ committed' = SubSeq(committed, 1, k - 1) /\ node' = node /\ pending' = "none"
      /\ db' = WriteDisconnectedBestNode(db, node, childUndo)
  BY DEF CommitDisconnect
<1>2. /\ Len(committed') = k - 1 /\ committed' \in Seq(NodeRecords)
      /\ \A i \in 1 .. k - 1 : committed'[i] = committed[i]
  BY <1>0, <1>1 DEF IInv, PathLinked
<1>3. Linked(node, Best) /\ node.height = k - 2 /\ Best' = node
  <2>1. k - 1 \in 1 .. k - 1 /\ k - 1 \in 1 .. k /\ (k - 1) + 1 = k BY <1>0
  <2>. QED BY <2>1, <1>0, <1>2 DEF IInv, PathLinked, Best
<1>4. PathLinked'
  <2>1. /\ \A i \in 1 .. k - 1 : i \in 1 .. k
        /\ \A i \in 1 .. (k - 1) - 1 : i \in 1 .. k - 1 /\ i + 1 \in 1 .. k - 1
        /\ 1 \in 1 .. k - 1 /\ k - 1 >= 1
    BY <1>0
  <2>2. /\ committed[1] = genesisNode
        /\ \A i \in 1 .. k : IsNode(committed[i]) /\ committed[i].height = i - 1
        /\ \A i \in 1 .. k - 1 : Linked(committed[i], committed[i + 1])
    BY DEF IInv, PathLinked
  <2>3. committed'[1] = genesisNode BY <1>2, <2>1, <2>2
  <2>4. \A i \in 1 .. k - 1 : IsNode(committed'[i]) /\ committed'[i].height = i - 1
    BY <1>2, <2>1, <2>2
  <2>5. \A i \in 1 .. (k - 1) - 1 : Linked(committed'[i], committed'[i + 1])
    <3>. TAKE i \in 1 .. (k - 1) - 1
    <3>1. i \in 1 .. k - 1 /\ i + 1 \in 1 .. k - 1 BY <2>1
    <3>2. Linked(committed[i], committed[i + 1]) BY <3>1, <2>2
    <3>3. committed'[i] = committed[i] /\ committed'[i + 1] = committed[i + 1] BY <3>1, <1>2
    <3>. QED BY <3>2, <3>3
  <2>. QED BY <1>2, <2>1, <2>3, <2>4, <2>5 DEF PathLinked
<1>5. TicketsTraced'
  <2>. SUFFICES ASSUME NEW i \in 1 .. k - 1
       PROVE /\ \A t \in Known(committed'[i]) : \E j \in 1 .. i : t \in DOMAIN committed'[j].undo
             /\ \A t \in DOMAIN committed'[i].missed \cup DOMAIN committed'[i].revoked :
                   \E j \in 1 .. i : t \in Missed(committed'[j].undo)
    BY <1>2 DEF TicketsTraced
  <2>1. i \in 1 .. k /\ \A j \in 1 .. i : committed'[j] = committed[j] BY <1>0, <1>2
  <2>2. committed'[i] = committed[i] BY <1>2
  <2>. QED BY <2>1, <2>2 DEF IInv, TicketsTraced
<1>6. db' = DiskOf(committed')
  <2>1. /\ db.live = Best.live /\ db.missed = Best.missed /\ db.revoked = Best.revoked
        /\ db.undo = [h \in 0 .. k - 1 |-> committed[h + 1].undo]
        /\ db.new = [h \in 0 .. k - 1 |-> committed[h + 1].new]
        /\ db.best.height = k - 1
    BY <1>0 DEF IInv, DiskOf, Best, bestState
  <2>2. {h \in DOMAIN db.undo : h > node.height /\ h <= db.best.height} = {k - 1}
    BY <2>1, <1>0, <1>3
  <2>3. /\ With(Without(db.live, New(u)),
                [t \in Missed(u) \cup Spent(u) |->
                    IF t \in Missed(u) THEN Unmissed(u[t]) ELSE Unspent(u[t])]) = node.live
        /\ With(Without(db.missed, Missed(u)), [t \in Revoked(u) |-> Unrevoked(u[t])]) = node.missed
        /\ Without(db.revoked, Revoked(u)) = node.revoked
    <3>1. /\ With(Without(Best.live, New(u)),
                  [t \in Missed(u) \cup Spent(u) |->
                      IF t \in Missed(u) THEN Unmissed(u[t]) ELSE Unspent(u[t])]) = node.live
          /\ With(Without(Best.missed, Missed(u)), [t \in Revoked(u) |-> Unrevoked(u[t])])
                = node.missed
          /\ Without(Best.revoked, Revoked(u)) = node.revoked
      <4>1. PICK v : v = Best.undo OBVIOUS
      <4>2. PICK n : n = Best OBVIOUS
      <4>3. Linked(node, n) /\ v = n.undo /\ u = v BY <4>1, <4>2, <1>0, <1>3
      <4>. HIDE DEF u
      <4>4. /\ With(Without(n.live, New(v)),
                    [t \in Missed(v) \cup Spent(v) |->
                        IF t \in Missed(v) THEN Unmissed(v[t]) ELSE Unspent(v[t])]) = node.live
            /\ With(Without(n.missed, Missed(v)), [t \in Revoked(v) |-> Unrevoked(v[t])])
                  = node.missed
            /\ Without(n.revoked, Revoked(v)) = node.revoked
        BY <4>3, TreapsRestored
      <4>. QED BY <4>2, <4>3, <4>4
    <3>. QED BY <3>1, <2>1
  <2>4. 0 .. k - 2 = (0 .. k - 1) \ {k - 1} /\ 0 .. k - 2 = (0 .. k - 2) \cup {k - 2}
    BY <1>0
  <2>5. With(Without(db.undo, {k - 1}), [h \in {node.height} |-> node.undo])
          = [h \in 0 .. k - 2 |-> committed'[h + 1].undo]
    <3>1. \A h \in 0 .. k - 2 : committed'[h + 1] = committed[h + 1] BY <1>0, <1>2
    <3>2. node = committed[(k - 2) + 1] BY <1>0
    <3>3. Without(db.undo, {k - 1}) = [h \in 0 .. k - 2 |-> committed[h + 1].undo]
      BY <2>1, <2>4 DEF Without
    <3>. QED BY <2>4, <1>3, <3>1, <3>2, <3>3 DEF With
  <2>6. With(Without(db.new, {k - 1}), [h \in {node.height} |-> node.new])
          = [h \in 0 .. k - 2 |-> committed'[h + 1].new]
    <3>1. \A h \in 0 .. k - 2 : committed'[h + 1] = committed[h + 1] BY <1>0, <1>2
    <3>2. node = committed[(k - 2) + 1] BY <1>0
    <3>3. Without(db.new, {k - 1}) = [h \in 0 .. k - 2 |-> committed[h + 1].new]
      BY <2>1, <2>4 DEF Without
    <3>. QED BY <2>4, <1>3, <3>1, <3>2, <3>3 DEF With
  <2>7. db' = [live |-> node.live, missed |-> node.missed, revoked |-> node.revoked,
               undo |-> [h \in 0 .. k - 2 |-> committed'[h + 1].undo],
               new |-> [h \in 0 .. k - 2 |-> committed'[h + 1].new], best |-> bestState(node)]
    BY <1>1, <2>2, <2>3, <2>5, <2>6 DEF WriteDisconnectedBestNode
  <2>8. Len(committed') - 1 = k - 2 /\ committed'[Len(committed')] = node BY <1>0, <1>2
  <2>. QED BY <2>7, <2>8 DEF DiskOf
<1>7. InMemory'
  BY <1>1, <1>3 DEF InMemory
<1>. QED BY <1>4, <1>5, <1>6, <1>7 DEF IInv

\* What LoadBestNode reads.
LEMMA Loaded == ASSUME IInv PROVE LoadBestNode(db) = Best /\ SizesMatch(db)
<1>. USE StakeNodeAssumption
<1>. DEFINE k == Len(committed)
<1>0. IsNode(Best) /\ Best.height = k - 1 /\ k \in Nat /\ k >= 1 /\ Best = committed[k]
  BY BestFacts DEF IInv, PathLinked
<1>1. /\ db.live = Best.live /\ db.missed = Best.missed /\ db.revoked = Best.revoked
      /\ db.undo = [h \in 0 .. k - 1 |-> committed[h + 1].undo]
      /\ db.new = [h \in 0 .. k - 1 |-> committed[h + 1].new]
      /\ db.best = bestState(Best)
  BY DEF IInv, DiskOf, Best
<1>2. db.undo[k - 1] = Best.undo /\ db.new[k - 1] = Best.new
  <2>1. k - 1 \in 0 .. k - 1 /\ (k - 1) + 1 = k BY <1>0
  <2>. QED BY <2>1, <1>0, <1>1
<1>3. db.best.height = k - 1 /\ db.best.winners = IF k - 1 >= StakeValidationHeight - 1
                                                  THEN Best.winners ELSE {}
  BY <1>0, <1>1 DEF bestState
<1>4. (IF k - 1 >= StakeValidationHeight - 1 THEN db.best.winners ELSE {}) = Best.winners
  <2>1. CASE k - 1 >= StakeValidationHeight - 1
    BY <2>1, <1>3
  <2>2. CASE ~(k - 1 >= StakeValidationHeight - 1)
    <3>1. Best.height < StakeValidationHeight - 1 BY <2>2, <1>0
    <3>2. Best.winners = {} BY <3>1, <1>0 DEF IsNode
    <3>. QED BY <2>2, <3>2
  <2>. QED BY <2>1, <2>2
<1>5. LoadBestNode(db) = [height |-> Best.height, live |-> Best.live, missed |-> Best.missed,
                          revoked |-> Best.revoked, undo |-> Best.undo, new |-> Best.new,
                          winners |-> Best.winners]
  <2>1. LoadBestNode(db) =
          [height |-> k - 1, live |-> db.live, missed |-> db.missed, revoked |-> db.revoked,
           undo |-> db.undo[k - 1], new |-> db.new[k - 1],
           winners |-> IF k - 1 >= StakeValidationHeight - 1 THEN db.best.winners ELSE {}]
    <3>1. db.best.height = k - 1 BY <1>3
    <3>. QED BY <3>1 DEF LoadBestNode
  <2>2. /\ db.live = Best.live /\ db.missed = Best.missed /\ db.revoked = Best.revoked
        /\ Best.height = k - 1
    BY <1>0, <1>1
  <2>. QED BY <2>1, <2>2, <1>2, <1>4
<1>6. SizesMatch(db)
  BY <1>1 DEF SizesMatch, bestState
<1>. QED BY <1>0, <1>5, <1>6 DEF IsNode

LEMMA RestartStep == ASSUME IInv, Restart PROVE IInv'
<1>1. UNCHANGED <<db, committed>> /\ pending' = "none" /\ node' = Best /\ Best' = Best
  BY Loaded DEF Restart, Best
<1>2. (PathLinked /\ TicketsTraced /\ db = DiskOf(committed))'
  BY <1>1 DEF IInv, PathLinked, TicketsTraced
<1>. QED BY <1>1, <1>2 DEF IInv, InMemory

LEMMA NextIInv == ASSUME IInv, [NodeNext]_nodeVars PROVE IInv'
<1>1. CASE UNCHANGED nodeVars
  <2>1. UNCHANGED <<node, db, pending, childUndo, committed>> BY <1>1 DEF nodeVars
  <2>2. (PathLinked /\ TicketsTraced /\ db = DiskOf(committed))'
    BY <2>1 DEF IInv, PathLinked, TicketsTraced
  <2>3. InMemory' BY <2>1 DEF IInv, InMemory, Best
  <2>. QED BY <2>2, <2>3 DEF IInv
<1>. QED
  BY <1>1, ConnectStep, CommitConnectStep, DisconnectStep, CommitDisconnectStep, RestartStep
     DEF NodeNext

\* The invariant says what NodeIsExact does.
LEMMA IInvExact == ASSUME IInv PROVE NodeIsExact
<1>. USE StakeNodeAssumption
<1>. DEFINE k == Len(committed)
<1>0. k \in Nat /\ k >= 1 /\ Best = committed[k] BY DEF IInv, PathLinked, Best
<1>1. IsNode(node)
  <2>1. \A i \in 1 .. k : IsNode(committed[i]) BY DEF IInv, PathLinked
  <2>2. k \in 1 .. k BY <1>0
  <2>3. k > 1 => k - 1 \in 1 .. k BY <1>0
  <2>. QED BY <1>0, <2>1, <2>2, <2>3 DEF IInv, InMemory, Linked
<1>2. NodeTypeOK
  <2>1. node.winners \in SUBSET NodeTickets /\ node.new \in SUBSET NodeTickets
    BY <1>1 DEF IsNode, IsTreap
  <2>2. pending \in {"none", "connect", "disconnect"} BY DEF IInv, InMemory
  <2>. QED BY <1>1, <2>1, <2>2 DEF NodeTypeOK, IsNode, LiveValue, MissedValue, RevokedValue
<1>3. UndoIsExact
  BY DEF IInv, InMemory, UndoIsExact
<1>4. DiskIsBestNode
  BY Loaded DEF DiskIsBestNode
<1>5. TicketsInOnePlace
  <2>1. SUFFICES ASSUME NEW t \in DOMAIN node.missed \cup DOMAIN node.revoked
        PROVE \E i \in 1 .. k + 1 : LET n == IF i <= k THEN committed[i] ELSE node
                                    IN t \in Missed(n.undo)
    BY <1>1 DEF TicketsInOnePlace, IsNode
  <2>2. \A i \in 1 .. k : \A s \in DOMAIN committed[i].missed \cup DOMAIN committed[i].revoked :
           \E j \in 1 .. i : s \in Missed(committed[j].undo)
    BY DEF IInv, TicketsTraced
  <2>3. CASE \E i \in 1 .. k : t \in DOMAIN committed[i].missed \cup DOMAIN committed[i].revoked
    <3>1. PICK i \in 1 .. k : t \in DOMAIN committed[i].missed \cup DOMAIN committed[i].revoked
      BY <2>3
    <3>2. PICK j \in 1 .. i : t \in Missed(committed[j].undo) BY <2>2, <3>1
    <3>3. j \in 1 .. k + 1 /\ j <= k BY <1>0
    <3>. QED BY <3>2, <3>3
  <2>4. CASE t \in Missed(node.undo)
    <3>1. k + 1 \in 1 .. k + 1 /\ ~(k + 1 <= k) BY <1>0
    <3>. QED BY <2>4, <3>1
  <2>5. k \in 1 .. k /\ (k > 1 => k - 1 \in 1 .. k) BY <1>0
  <2>. QED BY <2>3, <2>4, <2>5, <1>0 DEF IInv, InMemory
<1>. QED BY <1>2, <1>3, <1>4, <1>5 DEF NodeIsExact

\* Disconnecting blocks in any order with connecting others and with restarts
\* between the change in memory and its commit gives back exactly the nodes of
\* the path; LoadBestNode reads the node of the last commit; each ticket is in
\* one treap with flags that fit (connectNode, disconnectNode, the two writers
\* and LoadBestNode of tickets.go).
THEOREM NodeExact == NodeSpec => []NodeIsExact
<1>1. NodeSpec => []IInv
  BY InitIInv, NextIInv, PTL DEF NodeSpec
<1>. QED BY <1>1, IInvExact, PTL
=============================================================================
