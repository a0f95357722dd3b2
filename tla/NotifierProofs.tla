--------------------------- MODULE NotifierProofs ---------------------------
(***************************************************************************)
(* Proofs about module Notifier, for any block tree, handler groups, queue *)
(* size and faults.                                                        *)
(***************************************************************************)
EXTENDS Notifier, FiniteSetTheorems, SequenceTheorems, TLAPS

-----------------------------------------------------------------------------
(* The queue as a walk: where the notifier is after each message. *)

Found(m) == CommonAncestor(Parent, m.new, m.old).err = "none"

\* Where a message takes the notifier from block p.
Moved(p, m) == IF m.type = "tx" \/ (m.type = "block" /\ m.old /= p) THEN p ELSE m.new

\* A reorganization leaves the block that the notifier is at.
Leaves(p, m) == m.type = "reorg" => m.old = p /\ Found(m)

IsWalk(at, q, from, to) ==
    /\ at \in Seq(Blocks) /\ Len(at) = Len(q) + 1
    /\ at[1] = from /\ at[Len(q) + 1] = to
    /\ \A i \in 1 .. Len(q) : at[i + 1] = Moved(at[i], q[i]) /\ Leaves(at[i], q[i])

Walk(q, from, to) == \E at : IsWalk(at, q, from, to)

LEMMA Concatenated ==
    ASSUME NEW S, NEW s \in Seq(S), NEW t \in Seq(S)
    PROVE  /\ s \o t \in Seq(S) /\ Len(s \o t) = Len(s) + Len(t)
           /\ \A i \in 1 .. Len(s) : (s \o t)[i] = s[i]
           /\ \A i \in 1 .. Len(s) + Len(t) : i > Len(s) => (s \o t)[i] = t[i - Len(s)]
OBVIOUS

LEMMA WalkEmpty == ASSUME NEW b \in Blocks PROVE Walk(<<>>, b, b)
<1>1. IsWalk(<<b>>, <<>>, b, b) BY DEF IsWalk
<1>. QED BY <1>1 DEF Walk

LEMMA WalkTail ==
    ASSUME NEW q \in Seq(Message), q /= <<>>, NEW from, NEW to, Walk(q, from, to)
    PROVE  Leaves(from, Head(q)) /\ Walk(Tail(q), Moved(from, Head(q)), to)
<1>1. PICK at : IsWalk(at, q, from, to) BY DEF Walk
<1>2. /\ Len(q) \in Nat /\ Len(q) >= 1 /\ Head(q) = q[1] /\ Len(Tail(q)) = Len(q) - 1
      /\ \A i \in 1 .. Len(q) - 1 : Tail(q)[i] = q[i + 1]
  OBVIOUS
<1>3. /\ at \in Seq(Blocks) /\ Len(at) = Len(q) + 1 /\ at /= <<>>
      /\ Tail(at) \in Seq(Blocks) /\ Len(Tail(at)) = Len(q)
      /\ \A i \in 1 .. Len(q) : Tail(at)[i] = at[i + 1]
  BY <1>1, <1>2 DEF IsWalk
<1>4. at[1] = from /\ at[2] = Moved(from, q[1]) /\ Leaves(from, q[1])
  BY <1>1, <1>2 DEF IsWalk
<1>5. Tail(at)[1] = Moved(from, Head(q)) /\ Tail(at)[Len(Tail(q)) + 1] = to
  <2>1. Tail(at)[1] = at[2] BY <1>2, <1>3
  <2>2. Tail(at)[Len(q)] = at[Len(q) + 1] BY <1>2, <1>3
  <2>3. Len(Tail(q)) + 1 = Len(q) BY <1>2
  <2>. QED BY <2>1, <2>2, <2>3, <1>1, <1>2, <1>4 DEF IsWalk
<1>6. \A i \in 1 .. Len(Tail(q)) : /\ Tail(at)[i + 1] = Moved(Tail(at)[i], Tail(q)[i])
                                   /\ Leaves(Tail(at)[i], Tail(q)[i])
  <2>. TAKE i \in 1 .. Len(Tail(q))
  <2>1. i + 1 \in 1 .. Len(q) /\ i \in 1 .. Len(q) /\ i \in 1 .. Len(q) - 1 BY <1>2
  <2>2. at[(i + 1) + 1] = Moved(at[i + 1], q[i + 1]) /\ Leaves(at[i + 1], q[i + 1])
    BY <2>1, <1>1 DEF IsWalk
  <2>. QED BY <2>1, <2>2, <1>2, <1>3
<1>7. IsWalk(Tail(at), Tail(q), Moved(from, Head(q)), to)
  BY <1>2, <1>3, <1>5, <1>6 DEF IsWalk
<1>. QED BY <1>2, <1>4, <1>7 DEF Walk

LEMMA WalkAppend ==
    ASSUME NEW q \in Seq(Message), NEW from, NEW to, NEW m \in Message,
           Walk(q, from, to), Leaves(to, m), to \in Blocks
    PROVE  Walk(Append(q, m), from, Moved(to, m))
<1>. DEFINE n == Len(q)
            b == Moved(to, m)
<1>1. PICK at : IsWalk(at, q, from, to) BY DEF Walk
<1>2. /\ n \in Nat /\ Len(Append(q, m)) = n + 1 /\ Append(q, m)[n + 1] = m
      /\ \A i \in 1 .. n : Append(q, m)[i] = q[i]
  OBVIOUS
<1>3. b \in Blocks BY DEF Moved, Message
<1>. HIDE DEF b
<1>4. /\ at \in Seq(Blocks) /\ Len(at) = n + 1
      /\ Append(at, b) \in Seq(Blocks) /\ Len(Append(at, b)) = n + 2
      /\ Append(at, b)[n + 2] = b
      /\ \A i \in 1 .. n + 1 : Append(at, b)[i] = at[i]
  BY <1>1, <1>2, <1>3 DEF IsWalk
<1>5. \A i \in 1 .. n + 1 : /\ Append(at, b)[i + 1] = Moved(Append(at, b)[i], Append(q, m)[i])
                            /\ Leaves(Append(at, b)[i], Append(q, m)[i])
  <2>. TAKE i \in 1 .. n + 1
  <2>1. CASE i \in 1 .. n
    <3>1. i + 1 \in 1 .. n + 1 BY <2>1, <1>2
    <3>2. at[i + 1] = Moved(at[i], q[i]) /\ Leaves(at[i], q[i]) BY <2>1, <1>1 DEF IsWalk
    <3>. QED BY <2>1, <3>1, <3>2, <1>2, <1>4
  <2>2. CASE i = n + 1
    <3>1. at[n + 1] = to /\ n + 1 \in 1 .. n + 1 /\ (n + 1) + 1 = n + 2
      BY <1>1, <1>2 DEF IsWalk
    <3>2. Append(at, b)[n + 1] = to BY <3>1, <1>4
    <3>. QED BY <2>2, <3>1, <3>2, <1>2, <1>4 DEF b
  <2>3. i \in 1 .. n \/ i = n + 1 BY <1>2
  <2>. QED BY <2>1, <2>2, <2>3
<1>6. Append(at, b)[1] = from /\ 1 \in 1 .. n + 1 BY <1>1, <1>2, <1>4 DEF IsWalk
<1>7. IsWalk(Append(at, b), Append(q, m), from, b)
  <2>1. Len(Append(q, m)) + 1 = n + 2 BY <1>2
  <2>. QED BY <1>2, <1>4, <1>5, <1>6, <2>1 DEF IsWalk
<1>. QED BY <1>7 DEF Walk, b

\* Messages that the notifier ignores do not move it.
LEMMA WalkIgnored ==
    ASSUME NEW q \in Seq(Message), NEW ms \in Seq(Message), NEW from, NEW to \in Blocks,
           Walk(q, from, to), \A i \in 1 .. Len(ms) : ms[i].type = "block" /\ ms[i].old /= to
    PROVE  Walk(q \o ms, from, to)
<1>. DEFINE n == Len(q)
            k == Len(ms)
            ext == [i \in 1 .. k |-> to]
<1>1. PICK at : IsWalk(at, q, from, to) BY DEF Walk
<1>2. /\ n \in Nat /\ k \in Nat /\ Len(q \o ms) = n + k
      /\ \A i \in 1 .. n : (q \o ms)[i] = q[i]
      /\ \A i \in 1 .. n + k : i > n => (q \o ms)[i] = ms[i - n]
  OBVIOUS
<1>3. ext \in Seq(Blocks) /\ Len(ext) = k BY <1>2
<1>4. at \in Seq(Blocks) /\ Len(at) = n + 1 /\ at[1] = from /\ at[n + 1] = to
  BY <1>1 DEF IsWalk
<1>5. /\ at \o ext \in Seq(Blocks) /\ Len(at \o ext) = n + k + 1
      /\ \A i \in 1 .. n + 1 : (at \o ext)[i] = at[i]
      /\ \A i \in 1 .. n + k + 1 : i > n + 1 => (at \o ext)[i] = to
  <2>1. PICK e : e = ext OBVIOUS
  <2>2. e \in Seq(Blocks) /\ Len(e) = k /\ \A i \in 1 .. k : e[i] = to BY <2>1, <1>3
  <2>3. /\ at \o e \in Seq(Blocks) /\ Len(at \o e) = n + 1 + k
        /\ \A i \in 1 .. n + 1 : (at \o e)[i] = at[i]
        /\ \A i \in 1 .. n + 1 + k : i > n + 1 => (at \o e)[i] = e[i - (n + 1)]
    <3>1. Len(at) = n + 1 /\ Len(at) \in Nat BY <1>2, <1>4
    <3>2. /\ at \o e \in Seq(Blocks) /\ Len(at \o e) = Len(at) + Len(e)
          /\ \A i \in 1 .. Len(at) : (at \o e)[i] = at[i]
          /\ \A i \in 1 .. Len(at) + Len(e) : i > Len(at) => (at \o e)[i] = e[i - Len(at)]
      <4>1. at \in Seq(Blocks) /\ e \in Seq(Blocks) BY <1>4, <2>2
      <4>. QED BY <4>1, Concatenated, Zenon
    <3>. QED BY <3>1, <3>2, <2>2
  <2>4. \A i \in 1 .. n + k + 1 : i > n + 1 => i \in 1 .. n + 1 + k /\ i - (n + 1) \in 1 .. k
    BY <1>2
  <2>5. n + k + 1 = n + 1 + k BY <1>2
  <2>. QED BY <2>1, <2>2, <2>3, <2>4, <2>5
<1>. HIDE DEF ext
<1>6. \A i \in 1 .. n + k : /\ (at \o ext)[i + 1] = Moved((at \o ext)[i], (q \o ms)[i])
                            /\ Leaves((at \o ext)[i], (q \o ms)[i])
  <2>. TAKE i \in 1 .. n + k
  <2>1. CASE i <= n
    <3>1. i \in 1 .. n /\ i \in 1 .. n + 1 /\ i + 1 \in 1 .. n + 1 BY <2>1, <1>2
    <3>2. at[i + 1] = Moved(at[i], q[i]) /\ Leaves(at[i], q[i]) BY <3>1, <1>1 DEF IsWalk
    <3>. QED BY <3>1, <3>2, <1>2, <1>5
  <2>2. CASE i > n
    <3>1. i \in 1 .. n + k + 1 /\ i + 1 \in 1 .. n + k + 1 /\ i + 1 > n + 1
          /\ (i > n + 1 \/ i = n + 1) /\ i - n \in 1 .. k /\ n + 1 \in 1 .. n + 1
      BY <2>2, <1>2
    <3>2. (at \o ext)[i + 1] = to BY <3>1, <1>5
    <3>3. (at \o ext)[i] = to BY <3>1, <1>4, <1>5
    <3>4. (q \o ms)[i] = ms[i - n] BY <2>2, <1>2
    <3>5. ms[i - n].type = "block" /\ ms[i - n].old /= to BY <3>1
    <3>. QED BY <3>2, <3>3, <3>4, <3>5 DEF Moved, Leaves
  <2>3. i <= n \/ i > n BY <1>2
  <2>. QED BY <2>1, <2>2, <2>3
<1>7. (at \o ext)[1] = from /\ (at \o ext)[n + k + 1] = to
  <2>1. 1 \in 1 .. n + 1 BY <1>2
  <2>2. CASE k = 0
    <3>1. n + k + 1 = n + 1 /\ n + 1 \in 1 .. n + 1 BY <2>2, <1>2
    <3>. QED BY <2>1, <3>1, <1>4, <1>5
  <2>3. CASE k > 0
    <3>1. n + k + 1 \in 1 .. n + k + 1 /\ n + k + 1 > n + 1 BY <2>3, <1>2
    <3>. QED BY <2>1, <3>1, <1>4, <1>5
  <2>4. k = 0 \/ k > 0 BY <1>2
  <2>. QED BY <2>2, <2>3, <2>4
<1>8. IsWalk(at \o ext, q \o ms, from, to)
  BY <1>2, <1>5, <1>6, <1>7 DEF IsWalk
<1>. QED BY <1>8 DEF Walk

-----------------------------------------------------------------------------
(* What dcrd reports of a reorganization. *)

LEMMA MessagesTyped ==
    ASSUME NEW a \in Blocks, NEW b \in Blocks
    PROVE  BlockMsg(b) \in Message /\ ReorgMsg(a, b) \in Message /\ TxMsg \in Message
BY TreeAssumption DEF BlockMsg, ReorgMsg, TxMsg, Message

\* The parents of the blocks on the way to b are on it too.
LEMMA OnIsClosed ==
    ASSUME NEW b \in Blocks, NEW i \in 1 .. Len(Path[b])
    PROVE  Path[b][i] \in Blocks /\ Parent[Path[b][i]] \in On(b)
<1>1. /\ Path[b] \in Seq(Blocks) /\ Path[b][1] = Genesis /\ Parent[Genesis] = Genesis
      /\ \A j \in 2 .. Len(Path[b]) : Parent[Path[b][j]] = Path[b][j - 1]
  BY TreeAssumption
<1>2. Len(Path[b]) \in Nat /\ DOMAIN Path[b] = 1 .. Len(Path[b]) BY <1>1
<1>3. CASE i = 1
  BY <1>1, <1>2, <1>3 DEF On
<1>4. CASE i /= 1
  <2>1. i \in 2 .. Len(Path[b]) /\ i - 1 \in 1 .. Len(Path[b]) BY <1>4, <1>2
  <2>2. Parent[Path[b][i]] = Path[b][i - 1] BY <2>1, <1>1
  <2>3. Path[b][i - 1] \in On(b) BY <2>1, <1>2 DEF On
  <2>4. Path[b][i] \in Blocks BY <1>1
  <2>. QED BY <2>2, <2>3, <2>4
<1>. QED BY <1>3, <1>4

LEMMA OnIsFinite == ASSUME NEW a \in Blocks PROVE IsFiniteSet(On(a))
<1>1. PICK n \in Nat : n = Len(Path[a]) BY TreeAssumption
<1>2. DOMAIN Path[a] = 1 .. n /\ Path[a] \in [1 .. n -> Blocks] BY <1>1, TreeAssumption
<1>3. Path[a] \in Surjection(1 .. n, On(a)) BY <1>2 DEF Surjection, On
<1>4. IsFiniteSet(1 .. n)
  <2>1. 1 \in Int /\ n \in Int OBVIOUS
  <2>. QED BY <2>1, FS_Interval
<1>. QED BY <1>3, <1>4, FS_Surjection

LEMMA AttachedBlocks ==
    ASSUME NEW a \in Blocks, NEW b \in Blocks, a \notin On(b)
    PROVE  LET ms == [i \in 1 .. Len(Attached(a, b)) |-> BlockMsg(Attached(a, b)[i])]
           IN  /\ ms \in Seq(Message)
               /\ \A i \in 1 .. Len(ms) : ms[i].type = "block" /\ ms[i].old /= a
<1>. DEFINE k == Cardinality(On(a) \cap On(b))
            s == Attached(a, b)
            ms == [i \in 1 .. Len(s) |-> BlockMsg(s[i])]
<1>1. Path[b] \in Seq(Blocks) BY TreeAssumption
<1>2. k \in Nat
  <2>1. On(a) \cap On(b) \in SUBSET On(a) OBVIOUS
  <2>. QED BY <2>1, OnIsFinite, FS_Subset, FS_CardinalityType
<1>. HIDE DEF k
<1>3. /\ s \in Seq(Blocks) /\ Len(s) \in Nat
      /\ \A i \in 1 .. Len(s) : k + i \in 1 .. Len(Path[b]) /\ s[i] = Path[b][k + i]
  <2>1. PICK p \in Seq(Blocks) : p = Path[b] BY <1>1
  <2>2. s = SubSeq(p, k + 1, Len(p)) BY <2>1 DEF Attached, k
  <2>. HIDE DEF s
  <2>3. PICK z : z = SubSeq(p, k + 1, Len(p)) OBVIOUS
  <2>4. /\ z \in Seq(Blocks) /\ Len(z) = IF k + 1 <= Len(p) THEN Len(p) - k ELSE 0
        /\ \A i \in 1 .. Len(p) - k : z[i] = p[k + i]
    BY <2>3, <1>2
  <2>5. \A i \in 1 .. Len(z) : i \in 1 .. Len(p) - k /\ k + i \in 1 .. Len(p)
    BY <2>4, <1>2
  <2>6. Len(z) \in Nat BY <2>4
  <2>7. z = s BY <2>2, <2>3
  <2>. QED BY <2>1, <2>7, <2>4, <2>5, <2>6
<1>. HIDE DEF s
<1>4. \A i \in 1 .. Len(s) : BlockMsg(s[i]).type = "block" /\ BlockMsg(s[i]).old \in On(b)
  BY <1>3, OnIsClosed DEF BlockMsg
<1>5. \A i \in 1 .. Len(s) : BlockMsg(s[i]) \in Message
  BY <1>3, MessagesTyped
<1>6. ms \in Seq(Message) /\ Len(ms) = Len(s) BY <1>3, <1>5
<1>7. \A i \in 1 .. Len(ms) : ms[i].type = "block" /\ ms[i].old /= a
  BY <1>4, <1>6
<1>. QED BY <1>6, <1>7 DEF s

-----------------------------------------------------------------------------
(* Groups and calls. *)

WellGrouped(g) ==
    /\ g \in Seq(SUBSET Handlers) /\ Len(g) \in Nat /\ Len(g) >= 1
    /\ DOMAIN g = 1 .. Len(g)
    /\ \A i, j \in DOMAIN g : i /= j => g[i] \cap g[j] = {}

LEMMA GroupFacts ==
    ASSUME NEW m \in Message
    PROVE  /\ WellGrouped(Groups(m))
           /\ m.type /= "tx" => \A h \in Followers : \E j \in DOMAIN Groups(m) : h \in Groups(m)[j]
<1>1. m.type \in {"block", "reorg", "tx"} BY DEF Message
<1>2. RegisteredOnce(Groups(m)) BY <1>1, GroupsAssumption DEF Groups
<1>3. ASSUME NEW g, RegisteredOnce(g) PROVE WellGrouped(g)
  <2>1. /\ g \in Seq(SUBSET Handlers) /\ g /= <<>>
        /\ \A i, j \in DOMAIN g : i /= j => g[i] \cap g[j] = {}
    BY <1>3 DEF RegisteredOnce
  <2>2. Len(g) \in Nat /\ Len(g) >= 1 /\ DOMAIN g = 1 .. Len(g) BY <2>1
  <2>. QED BY <2>1, <2>2 DEF WellGrouped
<1>4. m.type /= "tx" => \A h \in Followers : \E j \in DOMAIN Groups(m) : h \in Groups(m)[j]
  BY <1>1 DEF Followers, In, Groups
<1>5. WellGrouped(Groups(m)) BY <1>2, <1>3
<1>. QED BY <1>4, <1>5, Zenon

Call == [n : Nat, msg : Message, h : Handlers]

LEMMA CallFacts ==
    ASSUME NEW n \in Nat, NEW m \in Message, NEW i \in 1 .. Len(Groups(m))
    PROVE  /\ Calls(n, m, i) \subseteq Call
           /\ \A r \in Calls(n, m, i) : r.n = n /\ r.msg = m /\ r.h \in Groups(m)[i]
           /\ \A h \in Groups(m)[i] : \E r \in Calls(n, m, i) : r.h = h
<1>1. Groups(m)[i] \subseteq Handlers BY GroupFacts DEF WellGrouped
<1>2. \A h \in Groups(m)[i] : [n |-> n, msg |-> m, h |-> h] \in Call BY <1>1 DEF Call
<1>3. PICK G : G = Groups(m)[i] OBVIOUS
<1>4. Calls(n, m, i) = {[n |-> n, msg |-> m, h |-> h] : h \in G} BY <1>3 DEF Calls
<1>5. Calls(n, m, i) \subseteq Call BY <1>2, <1>3, <1>4
<1>6. \A r \in Calls(n, m, i) : r.n = n /\ r.msg = m /\ r.h \in G BY <1>4
<1>7. \A h \in G : \E r \in Calls(n, m, i) : r.h = h
  <2>. TAKE h \in G
  <2>1. [n |-> n, msg |-> m, h |-> h] \in Calls(n, m, i) BY <1>4
  <2>2. [n |-> n, msg |-> m, h |-> h].h = h OBVIOUS
  <2>. QED BY <2>1, <2>2
<1>. QED BY <1>3, <1>5, <1>6, <1>7

-----------------------------------------------------------------------------
(***************************************************************************)
(* The inductive invariant.                                                *)
(***************************************************************************)
Types ==
    /\ TypeOK
    /\ cur \in [n : Nat, msg : Message, group : Nat]
    /\ cur.n = 0 => cur = Idle
    /\ cur.n > 0 /\ cur.group = 0 => cur.msg.type = "reorg"
    /\ running \subseteq Call

\* Neither handlers nor the deadline fail.
Calm == env.faults \subseteq {"ancestor", "early"}

\* Only handlers of the group in work run.
CallsAreCurrent ==
    Calm => \A r \in running :
               /\ r.n = cur.n /\ r.msg = cur.msg
               /\ cur.n > 0 /\ cur.group > 0 /\ r.h \in Groups(cur.msg)[cur.group]

Runs(h) == \E r \in running : r.h = h

\* The handlers of the groups before it are at the message's block, those after
\* it at the previous one, and in it those that have returned and the others.
Before(h, j) == j < cur.group \/ (j = cur.group /\ ~Runs(h))

HandlersAt ==
    Calm =>
      /\ cur.n = 0 \/ cur.msg.type = "tx" => \A h \in Followers : last[h] = previous
      /\ cur.n > 0 /\ cur.msg.type /= "tx" =>
            \A j \in DOMAIN Groups(cur.msg) : \A h \in Groups(cur.msg)[j] :
               /\ Before(h, j) => last[h] = cur.msg.new
               /\ ~Before(h, j) /\ h \in Followers => last[h] = previous

\* Without faults the queue leads from where the notifier is, or will be after
\* the message in work, to dcrd's best block, and every reorganization leaves
\* the block that the notifier is then at.
Here == IF cur.n > 0 THEN SetPreviousBlock(cur.msg) ELSE previous

QueueIsWalk ==
    env.faults = {} =>
      /\ Walk(anyQ \o wire, Here, tip)
      /\ cur.n > 0 /\ cur.msg.type /= "tx" => cur.msg.old = previous
      /\ cur.n > 0 => Leaves(previous, cur.msg)

IInv == Types /\ CallsAreCurrent /\ HandlersAt /\ QueueIsWalk

LEMMA InitIInv == Init => IInv
<1>. SUFFICES ASSUME Init PROVE IInv OBVIOUS
<1>. USE DEF Init
<1>1. Genesis \in Blocks /\ TxMsg \in Message BY TreeAssumption, MessagesTyped
<1>2. Types
  <2>1. cur = Idle /\ Idle \in [n : Nat, msg : Message, group : Nat] /\ Idle.n = 0
        /\ Idle.group = 0 /\ Idle.msg = TxMsg
    BY <1>1 DEF Idle
  <2>2. env \in Scenarios /\ env.queueSize \in Nat /\ env.maxReorgs \in Nat /\ env.maxTxs \in Nat
    BY ScenariosAssumption
  <2>3. Len(Groups(TxMsg)) \in Nat BY <1>1, GroupFacts DEF WellGrouped
  <2>4. cur.group \in 0 .. Len(Groups(cur.msg)) /\ cur.n \in {0, taken} /\ cur.msg \in Message
    BY <1>1, <2>1, <2>3
  <2>5. sent \in [reorgs : 0 .. env.maxReorgs, txs : 0 .. env.maxTxs] BY <2>2
  <2>6. wire \in Seq(Message) /\ anyQ \in Seq(Message) /\ Len(anyQ) <= env.queueSize
    BY <2>2
  <2>7. last \in [Handlers -> Blocks] BY <1>1
  <2>8. TypeOK BY <1>1, <2>4, <2>5, <2>6, <2>7 DEF TypeOK
  <2>9. cur \in [n : Nat, msg : Message, group : Nat] /\ cur.n = 0 BY <2>1
  <2>. QED BY <2>1, <2>8, <2>9 DEF Types
<1>3. CallsAreCurrent BY DEF CallsAreCurrent
<1>4. HandlersAt BY DEF HandlersAt, Followers, Handlers, Idle
<1>5. QueueIsWalk
  <2>1. anyQ \o wire = <<>> /\ Here = tip BY DEF Here, Idle
  <2>2. Walk(<<>>, tip, tip) BY <1>1, WalkEmpty
  <2>3. cur.n = 0 BY DEF Idle
  <2>. QED BY <2>1, <2>2, <2>3 DEF QueueIsWalk
<1>. QED BY <1>2, <1>3, <1>4, <1>5 DEF IInv

\* What the actions of dcrd and of the callbacks leave alone.
LEMMA HandlersIdle ==
    ASSUME CallsAreCurrent, HandlersAt, UNCHANGED <<env, previous, cur, running, last>>
    PROVE  CallsAreCurrent' /\ HandlersAt'
BY DEF CallsAreCurrent, HandlersAt, Calm, Before, Runs

-----------------------------------------------------------------------------
(* The queue and the wire as one sequence. *)

LEMMA QueueGrows ==
    ASSUME NEW q \in Seq(Message), NEW w \in Seq(Message), NEW ms \in Seq(Message)
    PROVE  q \o (w \o ms) = (q \o w) \o ms /\ q \o w \in Seq(Message) /\ w \o ms \in Seq(Message)
BY ConcatAssociative, ConcatProperties

LEMMA QueueAppends ==
    ASSUME NEW q \in Seq(Message), NEW w \in Seq(Message), NEW m \in Message
    PROVE  q \o (w \o <<m>>) = Append(q \o w, m)
<1>1. <<m>> \in Seq(Message) OBVIOUS
<1>2. q \o (w \o <<m>>) = (q \o w) \o <<m>> /\ q \o w \in Seq(Message) BY <1>1, QueueGrows
<1>. QED BY <1>2, AppendIsConcat

LEMMA QueueMoves ==
    ASSUME NEW q \in Seq(Message), NEW w \in Seq(Message), w /= <<>>
    PROVE  Append(q, Head(w)) \o Tail(w) = q \o w
<1>1. Head(w) \in Message /\ Tail(w) \in Seq(Message) /\ <<Head(w)>> \in Seq(Message) OBVIOUS
<1>2. <<Head(w)>> \o Tail(w) = w OBVIOUS
<1>3. Append(q, Head(w)) = q \o <<Head(w)>> BY <1>1, AppendIsConcat
<1>4. (q \o <<Head(w)>>) \o Tail(w) = q \o (<<Head(w)>> \o Tail(w))
  BY <1>1, ConcatAssociative
<1>. QED BY <1>2, <1>3, <1>4

LEMMA QueueTail ==
    ASSUME NEW q \in Seq(Message), NEW w \in Seq(Message), q /= <<>>
    PROVE  /\ Head(q \o w) = Head(q) /\ Tail(q \o w) = Tail(q) \o w
           /\ q \o w \in Seq(Message) /\ q \o w /= <<>>
<1>1. Head(q) \in Message /\ Tail(q) \in Seq(Message) /\ <<Head(q)>> \in Seq(Message) OBVIOUS
<1>2. q = <<Head(q)>> \o Tail(q) OBVIOUS
<1>3. PICK m, t : m = Head(q) /\ t = Tail(q) OBVIOUS
<1>4. q \o w = <<m>> \o (t \o w) BY <1>1, <1>2, <1>3, ConcatAssociative
<1>5. t \o w \in Seq(Message) /\ m \in Message BY <1>1, <1>3, ConcatProperties
<1>6. PICK z \in Seq(Message) : z = t \o w BY <1>5
<1>7. /\ <<m>> \o z \in Seq(Message) /\ <<m>> \o z /= <<>>
      /\ Head(<<m>> \o z) = m /\ Tail(<<m>> \o z) = z
  BY <1>5
<1>. QED BY <1>3, <1>4, <1>6, <1>7

-----------------------------------------------------------------------------
(* dcrd and the callbacks. *)

LEMMA TypeFacts ==
    ASSUME Types
    PROVE  /\ wire \in Seq(Message) /\ anyQ \in Seq(Message) /\ tip \in Blocks
           /\ previous \in Blocks /\ cur.msg \in Message /\ cur.n \in Nat /\ cur.group \in Nat
           /\ cur = [n |-> cur.n, msg |-> cur.msg, group |-> cur.group]
           /\ env \in Scenarios /\ env.queueSize \in Nat \ {0} /\ env.maxReorgs \in Nat
           /\ env.maxTxs \in Nat
BY ScenariosAssumption DEF Types, TypeOK

LEMMA ListenStep == ASSUME IInv, Listen PROVE IInv'
<1>1. Types' BY DEF IInv, Listen, Types, TypeOK
<1>2. CallsAreCurrent' /\ HandlersAt' BY HandlersIdle DEF IInv, Listen
<1>3. QueueIsWalk' BY DEF IInv, Listen, QueueIsWalk, Here, SetPreviousBlock
<1>. QED BY <1>1, <1>2, <1>3 DEF IInv

LEMMA ConnectsStep == ASSUME IInv, NEW b \in Blocks, dcrdConnects(b) PROVE IInv'
<1>0. /\ wire \in Seq(Message) /\ anyQ \in Seq(Message) /\ tip \in Blocks
  BY TypeFacts DEF IInv
<1>1. BlockMsg(b) \in Message /\ <<BlockMsg(b)>> \in Seq(Message)
      /\ BlockMsg(b).type = "block" /\ BlockMsg(b).old = tip /\ BlockMsg(b).new = b
  <2>1. BlockMsg(b) \in Message BY MessagesTyped
  <2>. QED BY <2>1 DEF BlockMsg, dcrdConnects
<1>2. wire' = (IF registered THEN wire \o <<BlockMsg(b)>> ELSE wire) /\ wire' \in Seq(Message)
  BY <1>0, <1>1 DEF dcrdConnects, Send
<1>3. Types' BY <1>2 DEF IInv, dcrdConnects, Types, TypeOK
<1>4. CallsAreCurrent' /\ HandlersAt' BY HandlersIdle DEF IInv, dcrdConnects
<1>5. QueueIsWalk'
  <2>1. SUFFICES ASSUME env'.faults = {} PROVE QueueIsWalk' BY DEF QueueIsWalk
  <2>2. /\ UNCHANGED <<env, anyQ, previous, cur>> /\ tip' = b /\ registered /\ Here' = Here
    BY <2>1 DEF dcrdConnects, Here, SetPreviousBlock
  <2>3. Walk(anyQ \o wire, Here, tip) BY <2>1, <2>2 DEF IInv, QueueIsWalk
  <2>4. anyQ \o wire' = Append(anyQ \o wire, BlockMsg(b)) /\ anyQ \o wire \in Seq(Message)
    BY <1>0, <1>1, <1>2, <2>2, QueueAppends, QueueGrows
  <2>5. Leaves(tip, BlockMsg(b)) /\ Moved(tip, BlockMsg(b)) = b BY <1>1 DEF Leaves, Moved
  <2>6. Walk(anyQ \o wire', Here, b)
    <3>1. Walk(Append(anyQ \o wire, BlockMsg(b)), Here, Moved(tip, BlockMsg(b)))
      BY <1>0, <1>1, <2>3, <2>4, <2>5, WalkAppend
    <3>. QED BY <3>1, <2>4, <2>5
  <2>7. /\ cur.n > 0 /\ cur.msg.type /= "tx" => cur.msg.old = previous
        /\ cur.n > 0 => Leaves(previous, cur.msg)
    BY <2>1, <2>2 DEF IInv, QueueIsWalk
  <2>. QED BY <2>2, <2>6, <2>7 DEF QueueIsWalk
<1>. QED BY <1>3, <1>4, <1>5 DEF IInv

LEMMA ReorganizesStep == ASSUME IInv, NEW b \in Blocks, dcrdReorganizes(b) PROVE IInv'
<1>. DEFINE branch == Attached(tip, b)
            ms == [i \in 1 .. Len(branch) |-> BlockMsg(branch[i])]
            m == ReorgMsg(tip, b)
<1>0. /\ wire \in Seq(Message) /\ anyQ \in Seq(Message) /\ tip \in Blocks
      /\ env.maxReorgs \in Nat
  BY TypeFacts DEF IInv
<1>1. tip \notin On(b) /\ Reorganizes(tip, b) BY DEF dcrdReorganizes, Reorganizes
<1>2. /\ ms \in Seq(Message)
      /\ \A i \in 1 .. Len(ms) : ms[i].type = "block" /\ ms[i].old /= tip
  BY <1>0, <1>1, AttachedBlocks
<1>3. m \in Message /\ Moved(tip, m) = b /\ Leaves(tip, m)
  <2>1. m \in Message BY <1>0, MessagesTyped
  <2>2. m.type = "reorg" /\ m.old = tip /\ m.new = b BY DEF ReorgMsg
  <2>3. Found(m) BY <1>0, <1>1, <2>2, ForksAssumption DEF Found
  <2>. QED BY <2>1, <2>2, <2>3 DEF Moved, Leaves
<1>4. wire' = wire \o (ms \o <<m>>) BY DEF dcrdReorganizes, Send
<1>5. /\ UNCHANGED <<env, registered, anyQ, previous, cur, taken, running, last>> /\ tip' = b
      /\ sent' = [sent EXCEPT !.reorgs = @ + 1] /\ sent.reorgs < env.maxReorgs
  BY DEF dcrdReorganizes
<1>. HIDE DEF ms, m
<1>6. ms \o <<m>> \in Seq(Message) /\ wire' \in Seq(Message)
  BY <1>0, <1>2, <1>3, <1>4
<1>7. Types'
  <2>1. sent' \in [reorgs : 0 .. env.maxReorgs, txs : 0 .. env.maxTxs]
    <3>1. sent \in [reorgs : 0 .. env.maxReorgs, txs : 0 .. env.maxTxs]
      BY DEF IInv, Types, TypeOK
    <3>. QED BY <1>0, <1>5, <3>1
  <2>. QED BY <1>5, <1>6, <2>1 DEF IInv, Types, TypeOK
<1>8. CallsAreCurrent' /\ HandlersAt' BY <1>5, HandlersIdle DEF IInv
<1>9. QueueIsWalk'
  <2>1. SUFFICES ASSUME env'.faults = {} PROVE QueueIsWalk' BY DEF QueueIsWalk
  <2>2. Here' = Here BY <1>5 DEF Here, SetPreviousBlock
  <2>3. Walk(anyQ \o wire, Here, tip) BY <2>1, <1>5 DEF IInv, QueueIsWalk
  <2>4. /\ anyQ \o wire \in Seq(Message)
        /\ Walk((anyQ \o wire) \o ms, Here, tip) /\ (anyQ \o wire) \o ms \in Seq(Message)
    <3>1. anyQ \o wire \in Seq(Message) BY <1>0, ConcatProperties
    <3>2. PICK q \in Seq(Message) : q = anyQ \o wire BY <3>1
    <3>3. Walk(q, Here, tip) BY <2>3, <3>2
    <3>4. Walk(q \o ms, Here, tip) BY <1>0, <1>2, <3>3, WalkIgnored
    <3>5. q \o ms \in Seq(Message) BY <1>2, ConcatProperties
    <3>. QED BY <3>1, <3>2, <3>4, <3>5
  <2>5. Walk(Append((anyQ \o wire) \o ms, m), Here, b)
    <3>1. Walk(Append((anyQ \o wire) \o ms, m), Here, Moved(tip, m))
      BY <1>0, <1>3, <2>4, WalkAppend
    <3>. QED BY <3>1, <1>3
  <2>6. anyQ \o wire' = Append((anyQ \o wire) \o ms, m)
    <3>1. anyQ \o wire' = (anyQ \o wire) \o (ms \o <<m>>)
      BY <1>0, <1>4, <1>6, QueueGrows
    <3>2. (anyQ \o wire) \o (ms \o <<m>>) = Append((anyQ \o wire) \o ms, m)
      BY <1>2, <1>3, <2>4, QueueAppends
    <3>. QED BY <3>1, <3>2
  <2>7. /\ cur.n > 0 /\ cur.msg.type /= "tx" => cur.msg.old = previous
        /\ cur.n > 0 => Leaves(previous, cur.msg)
    BY <2>1, <1>5 DEF IInv, QueueIsWalk
  <2>. QED BY <1>5, <2>2, <2>5, <2>6, <2>7 DEF QueueIsWalk
<1>. QED BY <1>7, <1>8, <1>9 DEF IInv

LEMMA AcceptsTxStep == ASSUME IInv, dcrdAcceptsTx PROVE IInv'
<1>0. /\ wire \in Seq(Message) /\ anyQ \in Seq(Message) /\ tip \in Blocks
      /\ env.maxTxs \in Nat
  BY TypeFacts DEF IInv
<1>1. TxMsg \in Message /\ Moved(tip, TxMsg) = tip /\ Leaves(tip, TxMsg)
  BY <1>0, MessagesTyped DEF TxMsg, Moved, Leaves
<1>2. /\ UNCHANGED <<env, tip, registered, anyQ, previous, cur, taken, running, last>>
      /\ wire' = wire \o <<TxMsg>> /\ wire' \in Seq(Message)
      /\ sent' = [sent EXCEPT !.txs = @ + 1] /\ sent.txs < env.maxTxs
  BY <1>0, <1>1 DEF dcrdAcceptsTx, Send
<1>3. Types'
  <2>1. sent' \in [reorgs : 0 .. env.maxReorgs, txs : 0 .. env.maxTxs]
    <3>1. sent \in [reorgs : 0 .. env.maxReorgs, txs : 0 .. env.maxTxs]
      BY DEF IInv, Types, TypeOK
    <3>2. sent' = [sent EXCEPT !.txs = sent.txs + 1] /\ sent.txs < env.maxTxs BY <1>2
    <3>3. sent.txs \in Nat /\ sent.txs + 1 \in 0 .. env.maxTxs BY <1>0, <3>1, <3>2
    <3>. QED BY <3>1, <3>2, <3>3
  <2>. QED BY <1>2, <2>1 DEF IInv, Types, TypeOK
<1>4. CallsAreCurrent' /\ HandlersAt' BY <1>2, HandlersIdle DEF IInv
<1>5. QueueIsWalk'
  <2>1. SUFFICES ASSUME env'.faults = {} PROVE QueueIsWalk' BY DEF QueueIsWalk
  <2>2. Here' = Here BY <1>2 DEF Here, SetPreviousBlock
  <2>3. Walk(anyQ \o wire, Here, tip) BY <2>1, <1>2 DEF IInv, QueueIsWalk
  <2>4. anyQ \o wire' = Append(anyQ \o wire, TxMsg) /\ anyQ \o wire \in Seq(Message)
    BY <1>0, <1>1, <1>2, QueueAppends, QueueGrows
  <2>5. Walk(anyQ \o wire', Here, tip)
    <3>1. Walk(Append(anyQ \o wire, TxMsg), Here, Moved(tip, TxMsg))
      BY <1>0, <1>1, <2>3, <2>4, WalkAppend
    <3>. QED BY <3>1, <2>4, <1>1
  <2>6. /\ cur.n > 0 /\ cur.msg.type /= "tx" => cur.msg.old = previous
        /\ cur.n > 0 => Leaves(previous, cur.msg)
    BY <2>1, <1>2 DEF IInv, QueueIsWalk
  <2>. QED BY <1>2, <2>2, <2>5, <2>6 DEF QueueIsWalk
<1>. QED BY <1>3, <1>4, <1>5 DEF IInv

LEMMA CallbackStep == ASSUME IInv, Callback PROVE IInv'
<1>0. /\ wire \in Seq(Message) /\ anyQ \in Seq(Message) /\ env.queueSize \in Nat
  BY TypeFacts DEF IInv
<1>1. /\ UNCHANGED <<env, tip, registered, sent, previous, cur, taken, running, last>>
      /\ wire /= <<>> /\ Len(anyQ) < env.queueSize
      /\ anyQ' = Append(anyQ, Head(wire)) /\ wire' = Tail(wire)
  BY DEF Callback, dcrd
<1>2. anyQ' \in Seq(Message) /\ wire' \in Seq(Message) /\ Len(anyQ') <= env.queueSize
  BY <1>0, <1>1
<1>3. Types' BY <1>1, <1>2 DEF IInv, Types, TypeOK
<1>4. CallsAreCurrent' /\ HandlersAt' BY <1>1, HandlersIdle DEF IInv
<1>5. anyQ' \o wire' = anyQ \o wire BY <1>0, <1>1, QueueMoves
<1>6. QueueIsWalk' BY <1>1, <1>5 DEF IInv, QueueIsWalk, Here, SetPreviousBlock
<1>. QED BY <1>3, <1>4, <1>6 DEF IInv

-----------------------------------------------------------------------------
(* superQueue. *)

LEMMA Quiet == ASSUME CallsAreCurrent, Calm, Unfinished = {} PROVE running = {}
BY DEF CallsAreCurrent, Unfinished

LEMMA QuietWhenIdle == ASSUME CallsAreCurrent, Calm, cur = Idle PROVE running = {}
BY DEF CallsAreCurrent, Idle

\* The handlers of the groups before g are at m's block, the others at the
\* previous one.
At(m, g) ==
    IF m.type = "tx" THEN \A h \in Followers : last[h] = previous
    ELSE \A j \in DOMAIN Groups(m) : \A h \in Groups(m)[j] :
           /\ j < g => last[h] = m.new
           /\ j >= g /\ h \in Followers => last[h] = previous

\* A group of handlers is called.
LEMMA GroupStarts ==
    ASSUME NEW n \in Nat \ {0}, NEW m \in Message, NEW g \in 1 .. Len(Groups(m)),
           cur' = [n |-> n, msg |-> m, group |-> g],
           running' = running \cup Calls(n, m, g),
           UNCHANGED <<env, previous, last>>,
           Calm => running = {} /\ At(m, g)
    PROVE  CallsAreCurrent' /\ HandlersAt'
<1>1. /\ \A r \in Calls(n, m, g) : r.n = n /\ r.msg = m /\ r.h \in Groups(m)[g]
      /\ \A h \in Groups(m)[g] : \E r \in Calls(n, m, g) : r.h = h
  BY CallFacts
<1>2. cur'.n = n /\ cur'.msg = m /\ cur'.group = g /\ n > 0 /\ g > 0 OBVIOUS
<1>3. Calm' <=> Calm BY DEF Calm
<1>4. CASE ~Calm
  BY <1>3, <1>4 DEF CallsAreCurrent, HandlersAt
<1>5. CASE Calm
  <2>1. running' = Calls(n, m, g) /\ At(m, g) BY <1>5
  <2>2. CallsAreCurrent' BY <1>1, <1>2, <2>1 DEF CallsAreCurrent
  <2>3. CASE m.type = "tx"
    BY <1>2, <2>1, <2>2, <2>3 DEF HandlersAt, At
  <2>4. CASE m.type /= "tx"
    <3>1. ASSUME NEW j \in DOMAIN Groups(m), NEW h \in Groups(m)[j]
          PROVE  /\ Before(h, j)' => last[h] = m.new
                 /\ ~Before(h, j)' /\ h \in Followers => last[h] = previous
      <4>1. j \in Nat /\ g \in Nat BY GroupFacts DEF WellGrouped
      <4>2. j = g => Runs(h)' BY <1>1, <2>1 DEF Runs
      <4>3. Before(h, j)' <=> j < g BY <1>2, <4>1, <4>2 DEF Before
      <4>. QED BY <2>1, <2>4, <4>1, <4>3 DEF At
    <3>. QED BY <1>2, <2>2, <2>4, <3>1 DEF HandlersAt
  <2>. QED BY <2>3, <2>4
<1>. QED BY <1>4, <1>5

LEMMA ReceiveStep == ASSUME IInv, Receive PROVE IInv'
<1>. DEFINE m == Head(anyQ)
<1>0. /\ wire \in Seq(Message) /\ anyQ \in Seq(Message) /\ env.queueSize \in Nat
      /\ previous \in Blocks
  BY TypeFacts DEF IInv
<1>1. /\ UNCHANGED <<env, tip, registered, sent, wire, previous, last>>
      /\ cur = Idle /\ anyQ /= <<>> /\ anyQ' = Tail(anyQ)
  BY DEF Receive, dcrd
<1>2. /\ m \in Message /\ anyQ' \in Seq(Message) /\ Len(anyQ') <= env.queueSize
  BY <1>0, <1>1 DEF IInv, Types, TypeOK
<1>3. cur.n = 0 /\ cur.msg = TxMsg BY <1>1 DEF Idle
<1>4. Calm => running = {} /\ \A h \in Followers : last[h] = previous
  BY <1>1, <1>3, QuietWhenIdle DEF IInv, HandlersAt
<1>5. env.faults = {} => Leaves(previous, m) /\ Walk(anyQ' \o wire', Moved(previous, m), tip')
  <2>1. SUFFICES ASSUME env.faults = {}
                 PROVE  Leaves(previous, m) /\ Walk(anyQ' \o wire', Moved(previous, m), tip')
    OBVIOUS
  <2>2. Walk(anyQ \o wire, previous, tip) BY <1>3, <2>1 DEF IInv, QueueIsWalk, Here
  <2>3. /\ Head(anyQ \o wire) = m /\ Tail(anyQ \o wire) = anyQ' \o wire'
        /\ anyQ \o wire \in Seq(Message) /\ anyQ \o wire /= <<>>
    BY <1>0, <1>1, QueueTail
  <2>4. PICK q \in Seq(Message) : q = anyQ \o wire BY <2>3
  <2>5. Leaves(previous, Head(q)) /\ Walk(Tail(q), Moved(previous, Head(q)), tip)
    BY <2>2, <2>3, <2>4, WalkTail
  <2>. QED BY <1>1, <2>3, <2>4, <2>5
<1>6. m.type \in {"block", "reorg", "tx"} BY <1>2 DEF Message
<1>7. CASE ~Connects(m)
  <2>1. UNCHANGED <<taken, cur, running>> BY <1>7 DEF Receive
  <2>2. Types' BY <1>1, <1>2, <2>1 DEF IInv, Types, TypeOK
  <2>3. CallsAreCurrent' /\ HandlersAt' BY <1>1, <2>1, HandlersIdle DEF IInv
  <2>4. Moved(previous, m) = previous BY <1>7 DEF Connects, Moved
  <2>5. Here' = previous BY <1>1, <1>3, <2>1 DEF Here
  <2>6. QueueIsWalk' BY <1>1, <1>3, <1>5, <2>1, <2>4, <2>5 DEF QueueIsWalk
  <2>. QED BY <2>2, <2>3, <2>6 DEF IInv
<1>8. CASE Connects(m)
  <2>. DEFINE g == IF m.type = "reorg" THEN 0 ELSE 1
  <2>1. /\ taken' = taken + 1 /\ cur' = [n |-> taken + 1, msg |-> m, group |-> g]
        /\ running' = IF m.type = "reorg" THEN running ELSE running \cup Calls(taken + 1, m, 1)
    BY <1>8 DEF Receive
  <2>2. taken \in Nat /\ taken + 1 \in Nat \ {0} BY DEF IInv, Types, TypeOK
  <2>3. Len(Groups(m)) \in Nat /\ Len(Groups(m)) >= 1 /\ 1 \in 1 .. Len(Groups(m))
    BY <1>2, GroupFacts DEF WellGrouped
  <2>. HIDE DEF m
  <2>4. cur'.n = taken + 1 /\ cur'.msg = m /\ cur'.group = g BY <2>1
  <2>5. Types'
    <3>1. running' \subseteq running \cup Calls(taken + 1, m, 1) BY <2>1
    <3>2. /\ Calls(taken + 1, m, 1) \subseteq Call
          /\ \A r \in Calls(taken + 1, m, 1) : r.n = taken + 1
      BY <1>2, <2>2, <2>3, CallFacts
    <3>3. running' \subseteq Call BY <3>1, <3>2 DEF IInv, Types
    <3>4. \A r \in running' : r.n \in 1 .. taken' /\ r.msg \in Message /\ r.h \in Handlers
      <4>. TAKE r \in running'
      <4>1. r \in Call BY <3>3
      <4>2. r.n \in 1 .. taken \/ r.n = taken + 1 BY <3>1, <3>2 DEF IInv, Types, TypeOK
      <4>3. r.n \in 1 .. taken' BY <2>1, <2>2, <4>2
      <4>. QED BY <4>1, <4>3 DEF Call
    <3>5. g \in Nat /\ g \in 0 .. Len(Groups(m)) BY <2>3
    <3>6. cur'.n \in {0, taken'} /\ cur'.msg \in Message /\ cur'.group \in 0 .. Len(Groups(cur'.msg))
          /\ taken' \in Nat
      BY <1>2, <2>1, <2>2, <2>4, <3>5
    <3>7. cur' \in [n : Nat, msg : Message, group : Nat] BY <1>2, <2>1, <2>2, <3>5
    <3>8. cur'.n /= 0 /\ (cur'.group = 0 => cur'.msg.type = "reorg") BY <2>2, <2>4
    <3>9. TypeOK' BY <1>1, <1>2, <3>4, <3>6 DEF IInv, Types, TypeOK
    <3>. QED BY <3>3, <3>7, <3>8, <3>9 DEF Types
  <2>6. CallsAreCurrent' /\ HandlersAt'
    <3>1. CASE m.type = "reorg"
      <4>1. running' = running /\ cur'.group = 0 /\ cur'.n > 0 BY <2>1, <2>2, <2>4, <3>1
      <4>2. Calm' <=> Calm BY <1>1 DEF Calm
      <4>3. CallsAreCurrent' BY <1>4, <4>1, <4>2 DEF CallsAreCurrent
      <4>4. ASSUME Calm, NEW j \in DOMAIN Groups(m), NEW h \in Groups(m)[j]
            PROVE  ~Before(h, j)' /\ (h \in Followers => last[h] = previous)
        <5>1. j \in Nat /\ j >= 1 BY <1>2, GroupFacts DEF WellGrouped
        <5>2. ~Before(h, j)' BY <4>1, <5>1 DEF Before
        <5>. QED BY <1>4, <4>4, <5>2
      <4>5. HandlersAt' BY <1>1, <2>4, <3>1, <4>1, <4>2, <4>4 DEF HandlersAt
      <4>. QED BY <4>3, <4>5
    <3>2. CASE m.type /= "reorg"
      <4>1. cur' = [n |-> taken + 1, msg |-> m, group |-> 1]
            /\ running' = running \cup Calls(taken + 1, m, 1)
        BY <2>1, <3>2
      <4>2. Calm => At(m, 1)
        <5>1. \A j \in DOMAIN Groups(m) : ~(j < 1) BY <1>2, GroupFacts DEF WellGrouped
        <5>. QED BY <1>4, <5>1 DEF At
      <4>. QED BY <1>1, <1>2, <1>4, <2>2, <2>3, <4>1, <4>2, GroupStarts
    <3>. QED BY <3>1, <3>2
  <2>7. QueueIsWalk'
    <3>1. Here' = Moved(previous, m)
      BY <1>1, <1>6, <1>8, <2>2, <2>4 DEF Here, SetPreviousBlock, Moved, Connects
    <3>2. env.faults = {} /\ m.type /= "tx" => m.old = previous
      BY <1>5, <1>6, <1>8 DEF Leaves, Connects
    <3>. QED BY <1>1, <1>5, <2>4, <3>1, <3>2 DEF QueueIsWalk
  <2>. QED BY <2>5, <2>6, <2>7 DEF IInv
<1>. QED BY <1>7, <1>8

\* The message in work stays the same.
LEMMA SameMessage ==
    ASSUME QueueIsWalk, UNCHANGED <<env, tip, wire, anyQ, previous>>,
           cur'.n = cur.n, cur'.msg = cur.msg
    PROVE  QueueIsWalk'
BY DEF QueueIsWalk, Here, SetPreviousBlock

\* The next group of the message in work is called.
LEMMA GroupStep ==
    ASSUME IInv, cur.n > 0, cur.group < Len(Groups(cur.msg)),
           cur' = [cur EXCEPT !.group = cur.group + 1],
           running' = running \cup Calls(cur.n, cur.msg, cur.group + 1),
           UNCHANGED <<dcrd, wire, anyQ, previous, taken, last>>,
           Calm => running = {} /\ At(cur.msg, cur.group + 1)
    PROVE  IInv'
<1>. DEFINE g == cur.group + 1
<1>0. /\ cur.msg \in Message /\ cur.n \in Nat /\ cur.group \in Nat
      /\ cur = [n |-> cur.n, msg |-> cur.msg, group |-> cur.group]
  BY TypeFacts DEF IInv
<1>1. Len(Groups(cur.msg)) \in Nat BY <1>0, GroupFacts DEF WellGrouped
<1>2. g \in 1 .. Len(Groups(cur.msg)) /\ g \in Nat /\ cur.n \in Nat \ {0} BY <1>0, <1>1
<1>3. /\ cur' = [n |-> cur.n, msg |-> cur.msg, group |-> g]
      /\ cur'.n = cur.n /\ cur'.msg = cur.msg /\ cur'.group = g
  BY <1>0
<1>4. UNCHANGED <<env, tip, registered, sent>> BY DEF dcrd
<1>5. Types'
  <2>1. /\ Calls(cur.n, cur.msg, g) \subseteq Call
        /\ \A r \in Calls(cur.n, cur.msg, g) : r.n = cur.n
    BY <1>0, <1>2, CallFacts
  <2>2. cur.n \in 1 .. taken BY <1>2 DEF IInv, Types, TypeOK
  <2>3. running' \subseteq Call BY <2>1 DEF IInv, Types
  <2>4. \A r \in running' : r.n \in 1 .. taken' /\ r.msg \in Message /\ r.h \in Handlers
    <3>. TAKE r \in running'
    <3>1. r \in Call BY <2>3
    <3>2. r.n \in 1 .. taken BY <2>1, <2>2 DEF IInv, Types, TypeOK
    <3>. QED BY <3>1, <3>2 DEF Call
  <2>5. cur' \in [n : Nat, msg : Message, group : Nat] /\ cur'.group /= 0 /\ cur'.n /= 0
    BY <1>0, <1>2, <1>3
  <2>6. cur'.n \in {0, taken'} /\ cur'.msg \in Message /\ cur'.group \in 0 .. Len(Groups(cur'.msg))
    BY <1>0, <1>2, <1>3 DEF IInv, Types, TypeOK
  <2>7. TypeOK' BY <1>4, <2>4, <2>6 DEF IInv, Types, TypeOK
  <2>. QED BY <2>3, <2>5, <2>7 DEF Types
<1>6. CallsAreCurrent' /\ HandlersAt' BY <1>0, <1>2, <1>3, <1>4, GroupStarts
<1>7. QueueIsWalk' BY <1>3, <1>4, SameMessage DEF IInv
<1>. QED BY <1>5, <1>6, <1>7 DEF IInv

LEMMA FindAncestorStep == ASSUME IInv, FindAncestor PROVE IInv'
<1>1. /\ cur.n > 0 /\ cur.group = 0 /\ cur' = [cur EXCEPT !.group = 1]
      /\ running' = running \cup Calls(cur.n, cur.msg, 1)
      /\ UNCHANGED <<dcrd, wire, anyQ, previous, taken, last>>
  BY DEF FindAncestor
<1>2. cur.msg \in Message /\ cur.msg.type = "reorg" BY <1>1, TypeFacts DEF IInv, Types
<1>3. WellGrouped(Groups(cur.msg)) BY <1>2, GroupFacts
<1>4. Calm => running = {} BY <1>1 DEF IInv, CallsAreCurrent
<1>5. Calm => At(cur.msg, 1)
  <2>1. \A j \in DOMAIN Groups(cur.msg) : j \in Nat /\ j >= 1 BY <1>3 DEF WellGrouped
  <2>2. \A j \in DOMAIN Groups(cur.msg) : \A h \in Groups(cur.msg)[j] : ~Before(h, j)
    BY <1>1, <2>1 DEF Before
  <2>. QED BY <1>1, <1>2, <2>1, <2>2 DEF IInv, HandlersAt, At
<1>6. cur.group + 1 = 1 /\ cur.group < Len(Groups(cur.msg)) BY <1>1, <1>3 DEF WellGrouped
<1>. QED BY <1>1, <1>4, <1>5, <1>6, GroupStep

LEMMA NextGroupStep == ASSUME IInv, NextGroup PROVE IInv'
<1>1. /\ cur.n > 0 /\ cur.group > 0 /\ Unfinished = {} /\ cur.group < Len(Groups(cur.msg))
      /\ cur' = [cur EXCEPT !.group = cur.group + 1]
      /\ running' = running \cup Calls(cur.n, cur.msg, cur.group + 1)
      /\ UNCHANGED <<dcrd, wire, anyQ, previous, taken, last>>
  BY DEF NextGroup, GroupDone
<1>2. cur.msg \in Message /\ cur.group \in Nat BY TypeFacts DEF IInv
<1>3. Calm => running = {} BY <1>1, Quiet DEF IInv
<1>4. Calm => At(cur.msg, cur.group + 1)
  <2>1. CASE cur.msg.type = "tx" BY <2>1 DEF IInv, HandlersAt, At
  <2>2. CASE cur.msg.type /= "tx" /\ Calm
    <3>1. \A j \in DOMAIN Groups(cur.msg) : j \in Nat BY <1>2, GroupFacts DEF WellGrouped
    <3>2. \A j \in DOMAIN Groups(cur.msg) : \A h \in Groups(cur.msg)[j] :
             Before(h, j) <=> j < cur.group + 1
      BY <1>2, <1>3, <2>2, <3>1 DEF Before, Runs
    <3>3. \A j \in DOMAIN Groups(cur.msg) : j >= cur.group + 1 <=> ~(j < cur.group + 1)
      BY <1>2, <3>1
    <3>. QED BY <1>1, <2>2, <3>2, <3>3 DEF IInv, HandlersAt, At
  <2>. QED BY <2>1, <2>2
<1>. QED BY <1>1, <1>3, <1>4, GroupStep

\* superQueue is done with a message, with p as the previous block.
LEMMA DoneStep ==
    ASSUME IInv, UNCHANGED <<dcrd, wire, anyQ, taken, running, last>>,
           cur' = Idle, previous' \in Blocks,
           Calm => running = {} /\ \A h \in Followers : last[h] = previous',
           env.faults = {} => previous' = Here
    PROVE  IInv'
<1>1. UNCHANGED <<env, tip, registered, sent>> BY DEF dcrd
<1>2. /\ cur'.n = 0 /\ cur'.msg = TxMsg /\ cur'.group = 0 /\ TxMsg \in Message
      /\ cur' \in [n : Nat, msg : Message, group : Nat]
  BY TreeAssumption, MessagesTyped DEF Idle
<1>3. Len(Groups(TxMsg)) \in Nat BY <1>2, GroupFacts DEF WellGrouped
<1>4. Types'
  <2>1. cur'.n \in {0, taken'} /\ cur'.msg \in Message /\ cur'.group \in 0 .. Len(Groups(cur'.msg))
    BY <1>2, <1>3
  <2>2. TypeOK' BY <1>1, <2>1 DEF IInv, Types, TypeOK
  <2>. QED BY <1>2, <2>2 DEF IInv, Types
<1>5. CallsAreCurrent' BY <1>1 DEF CallsAreCurrent, Calm
<1>6. HandlersAt' BY <1>1, <1>2 DEF HandlersAt, Calm
<1>7. Here' = previous' BY <1>2 DEF Here
<1>8. QueueIsWalk' BY <1>1, <1>2, <1>7 DEF IInv, QueueIsWalk
<1>. QED BY <1>4, <1>5, <1>6, <1>8 DEF IInv

LEMMA AncestorNotFoundStep == ASSUME IInv, AncestorNotFound PROVE IInv'
<1>1. /\ cur.n > 0 /\ cur.group = 0 /\ cur' = Idle
      /\ UNCHANGED <<dcrd, wire, anyQ, previous, taken, running, last>>
      /\ "ancestor" \in env.faults \/ Fork.err /= "none"
  BY DEF AncestorNotFound
<1>2. cur.msg \in Message /\ cur.msg.type = "reorg" /\ previous \in Blocks
  BY <1>1, TypeFacts DEF IInv, Types
<1>3. Calm => running = {} BY <1>1 DEF IInv, CallsAreCurrent
<1>4. Calm => \A h \in Followers : last[h] = previous
  <2>1. \A j \in DOMAIN Groups(cur.msg) : j \in Nat /\ j >= 1 BY <1>2, GroupFacts DEF WellGrouped
  <2>2. \A j \in DOMAIN Groups(cur.msg) : \A h \in Groups(cur.msg)[j] : ~Before(h, j)
    BY <1>1, <2>1 DEF Before
  <2>3. \A h \in Followers : \E j \in DOMAIN Groups(cur.msg) : h \in Groups(cur.msg)[j]
    BY <1>2, GroupFacts
  <2>. QED BY <1>1, <1>2, <2>2, <2>3 DEF IInv, HandlersAt
<1>5. env.faults /= {}
  BY <1>1, <1>2 DEF IInv, QueueIsWalk, Leaves, Found, Fork
<1>. QED BY <1>1, <1>2, <1>3, <1>4, <1>5, DoneStep

LEMMA FinishStep == ASSUME IInv, Finish PROVE IInv'
<1>1. /\ cur.n > 0 /\ cur.group > 0 /\ Unfinished = {} /\ cur.group = Len(Groups(cur.msg))
      /\ previous' = SetPreviousBlock(cur.msg) /\ cur' = Idle
      /\ UNCHANGED <<dcrd, wire, anyQ, taken, running, last>>
  BY DEF Finish, GroupDone
<1>2. cur.msg \in Message /\ previous \in Blocks /\ cur.group \in Nat BY TypeFacts DEF IInv
<1>3. previous' \in Blocks /\ previous' = Here
  BY <1>1, <1>2 DEF SetPreviousBlock, Message, Here
<1>4. Calm => running = {} BY <1>1, Quiet DEF IInv
<1>5. Calm => \A h \in Followers : last[h] = previous'
  <2>1. CASE cur.msg.type = "tx" BY <1>1, <2>1 DEF IInv, HandlersAt, SetPreviousBlock
  <2>2. CASE cur.msg.type /= "tx" /\ Calm
    <3>1. DOMAIN Groups(cur.msg) = 1 .. Len(Groups(cur.msg))
      BY <1>2, GroupFacts DEF WellGrouped
    <3>2. \A j \in DOMAIN Groups(cur.msg) : j < cur.group \/ j = cur.group
      BY <1>1, <1>2, <3>1
    <3>3. \A j \in DOMAIN Groups(cur.msg) : \A h \in Groups(cur.msg)[j] : Before(h, j)
      BY <1>4, <2>2, <3>2 DEF Before, Runs
    <3>4. \A h \in Followers : \E j \in DOMAIN Groups(cur.msg) : h \in Groups(cur.msg)[j]
      BY <1>2, <2>2, GroupFacts
    <3>. QED BY <1>1, <2>2, <3>3, <3>4 DEF IInv, HandlersAt, SetPreviousBlock
  <2>. QED BY <2>1, <2>2
<1>. QED BY <1>1, <1>3, <1>4, <1>5, DoneStep

LEMMA GiveUpStep == ASSUME IInv, GiveUp PROVE IInv'
<1>1. /\ "deadline" \in env.faults /\ cur' = Idle
      /\ UNCHANGED <<dcrd, wire, anyQ, previous, taken, running, last>>
  BY DEF GiveUp, Deadline
<1>2. ~Calm /\ env.faults /= {} BY <1>1 DEF Calm
<1>3. previous' \in Blocks BY <1>1, TypeFacts DEF IInv
<1>. QED BY <1>1, <1>2, <1>3, DoneStep

LEMMA HandleStep == ASSUME IInv, Handle PROVE IInv'
<1>1. PICK r \in running : Returns(r) BY DEF Handle
<1>2. /\ running' = running \ {r} /\ UNCHANGED <<env, tip, registered, sent>>
      /\ UNCHANGED <<wire, anyQ, previous, cur, taken>>
      /\ \/ last' = IF r.msg.type = "tx" THEN last ELSE [last EXCEPT ![r.h] = r.msg.new]
         \/ "handler" \in env.faults /\ last' = last
  BY <1>1 DEF Returns, dcrd
<1>3. r \in Call /\ last \in [Handlers -> Blocks] BY <1>1 DEF IInv, Types, TypeOK
<1>4. r.msg.new \in Blocks /\ r.h \in Handlers BY <1>3 DEF Call, Message
<1>5. Types'
  <2>1. last' \in [Handlers -> Blocks] BY <1>2, <1>3, <1>4
  <2>2. TypeOK' BY <1>2, <2>1 DEF IInv, Types, TypeOK
  <2>. QED BY <1>2, <2>2 DEF IInv, Types
<1>6. QueueIsWalk' BY <1>2, SameMessage DEF IInv
<1>7. CallsAreCurrent' BY <1>2 DEF IInv, CallsAreCurrent, Calm
<1>8. HandlersAt'
  <2>1. SUFFICES ASSUME Calm PROVE HandlersAt' BY <1>2 DEF HandlersAt, Calm
  <2>2. last' = IF r.msg.type = "tx" THEN last ELSE [last EXCEPT ![r.h] = r.msg.new]
    BY <1>2, <2>1 DEF Calm
  <2>3. /\ r.msg = cur.msg /\ cur.n > 0 /\ cur.group > 0 /\ r.h \in Groups(cur.msg)[cur.group]
        /\ \A s \in running : s.n = cur.n /\ s.msg = cur.msg
    BY <1>1, <2>1 DEF IInv, CallsAreCurrent
  <2>4. CASE cur.msg.type = "tx"
    BY <1>2, <2>1, <2>2, <2>3, <2>4 DEF IInv, HandlersAt
  <2>5. CASE cur.msg.type /= "tx"
    <3>0. last' = [last EXCEPT ![r.h] = cur.msg.new] BY <2>2, <2>3, <2>5
    <3>1. cur.msg \in Message /\ cur.group \in 0 .. Len(Groups(cur.msg)) /\ cur.group \in Nat
      BY TypeFacts DEF IInv, Types, TypeOK
    <3>2. cur.group \in DOMAIN Groups(cur.msg)
      <4>1. DOMAIN Groups(cur.msg) = 1 .. Len(Groups(cur.msg)) /\ Len(Groups(cur.msg)) \in Nat
        BY <3>1, GroupFacts DEF WellGrouped
      <4>. QED BY <2>3, <3>1, <4>1
    <3>3. \A s \in running : s.h = r.h => s = r
      <4>. TAKE s \in running
      <4>1. HAVE s.h = r.h
      <4>2. s \in Call /\ r \in Call /\ s.n = r.n /\ s.msg = r.msg
        BY <1>1, <2>3 DEF IInv, Types
      <4>. QED BY <4>1, <4>2 DEF Call
    <3>4. ~Runs(r.h)' BY <1>2, <3>3 DEF Runs
    <3>5. ASSUME NEW h, h /= r.h PROVE Runs(h)' <=> Runs(h) BY <1>2, <3>5 DEF Runs
    <3>6. ASSUME NEW j \in DOMAIN Groups(cur.msg), NEW h \in Groups(cur.msg)[j]
          PROVE  /\ Before(h, j)' => last'[h] = cur.msg.new
                 /\ ~Before(h, j)' /\ h \in Followers => last'[h] = previous
      <4>1. CASE h = r.h
        <5>1. j = cur.group
          <6>1. /\ \A i, k \in DOMAIN Groups(cur.msg) :
                      i /= k => Groups(cur.msg)[i] \cap Groups(cur.msg)[k] = {}
            BY <3>1, GroupFacts DEF WellGrouped
          <6>. QED BY <2>3, <3>2, <3>6, <4>1, <6>1
        <5>2. Before(h, j)' BY <1>2, <3>4, <4>1, <5>1 DEF Before
        <5>3. last'[h] = cur.msg.new BY <1>3, <1>4, <3>0, <4>1
        <5>. QED BY <5>2, <5>3
      <4>2. CASE h /= r.h
        <5>1. Before(h, j)' <=> Before(h, j) BY <1>2, <3>5, <4>2 DEF Before
        <5>2. last'[h] = last[h]
          <6>1. h \in Handlers
            BY <3>1, GroupFacts DEF WellGrouped
          <6>. QED BY <1>3, <3>0, <4>2, <6>1
        <5>3. /\ Before(h, j) => last[h] = cur.msg.new
              /\ ~Before(h, j) /\ h \in Followers => last[h] = previous
          BY <2>1, <2>3, <2>5 DEF IInv, HandlersAt
        <5>. QED BY <5>1, <5>2, <5>3
      <4>. QED BY <4>1, <4>2
    <3>. QED BY <1>2, <2>3, <2>5, <3>6 DEF HandlersAt
  <2>. QED BY <2>4, <2>5
<1>. QED BY <1>5, <1>6, <1>7, <1>8 DEF IInv

LEMMA NextIInv == IInv /\ [Next]_vars => IInv'
<1>1. ASSUME IInv, Next PROVE IInv'
  BY <1>1, ListenStep, ConnectsStep, ReorganizesStep, AcceptsTxStep, CallbackStep,
     ReceiveStep, FindAncestorStep, AncestorNotFoundStep, NextGroupStep, FinishStep,
     GiveUpStep, HandleStep
     DEF Next, Process
<1>2. ASSUME IInv, UNCHANGED vars PROVE IInv'
  <2>1. UNCHANGED <<env, tip, registered, sent, wire, anyQ, previous, cur, taken, running, last>>
    BY <1>2 DEF vars, dcrd
  <2>2. Types' BY <1>2, <2>1 DEF IInv, Types, TypeOK
  <2>3. CallsAreCurrent' /\ HandlersAt' BY <1>2, <2>1, HandlersIdle DEF IInv
  <2>4. QueueIsWalk' BY <1>2, <2>1, SameMessage DEF IInv
  <2>. QED BY <2>2, <2>3, <2>4 DEF IInv
<1>. QED BY <1>1, <1>2

LEMMA IInvWalks == IInv => WalksInOrder
<1>. SUFFICES ASSUME IInv PROVE WalksInOrder OBVIOUS
<1>0. /\ cur.msg \in Message /\ cur.group \in Nat /\ cur.n \in Nat BY TypeFacts DEF IInv
<1>1. TypeOK BY DEF IInv, Types
<1>2. InStep BY DEF IInv, InStep, HandlersAt, Calm, Idle
<1>3. /\ DOMAIN Groups(cur.msg) = 1 .. Len(Groups(cur.msg)) /\ Len(Groups(cur.msg)) \in Nat
      /\ \A i, j \in DOMAIN Groups(cur.msg) :
            i /= j => Groups(cur.msg)[i] \cap Groups(cur.msg)[j] = {}
  BY <1>0, GroupFacts DEF WellGrouped
<1>4. cur.group > 0 => cur.group \in DOMAIN Groups(cur.msg) BY <1>0, <1>1, <1>3 DEF TypeOK
<1>5. GroupsInOrder
  <2>1. SUFFICES ASSUME Calm, NEW r \in running
                 PROVE  /\ r.n = cur.n
                        /\ r.msg.type /= "tx" =>
                             \A i \in DOMAIN Groups(r.msg) : r.h \in Groups(r.msg)[i] =>
                               \A j \in 1 .. i - 1 : \A h \in Groups(r.msg)[j] : last[h] = r.msg.new
    BY DEF GroupsInOrder, Calm
  <2>2. /\ r.n = cur.n /\ r.msg = cur.msg /\ cur.n > 0 /\ cur.group > 0
        /\ r.h \in Groups(cur.msg)[cur.group]
    BY <2>1 DEF IInv, CallsAreCurrent
  <2>3. ASSUME cur.msg.type /= "tx", NEW i \in DOMAIN Groups(cur.msg),
               r.h \in Groups(cur.msg)[i], NEW j \in 1 .. i - 1, NEW h \in Groups(cur.msg)[j]
        PROVE  last[h] = cur.msg.new
    <3>1. i = cur.group BY <1>3, <1>4, <2>2, <2>3
    <3>2. j \in DOMAIN Groups(cur.msg) /\ j < cur.group BY <1>3, <2>3, <3>1
    <3>3. Before(h, j) BY <3>2 DEF Before
    <3>. QED BY <2>1, <2>2, <2>3, <3>2, <3>3 DEF IInv, HandlersAt
  <2>. QED BY <2>2, <2>3
<1>6. UnbrokenWalk
  <2>1. SUFFICES ASSUME env.faults = {}, NEW r \in running, r.h \in Followers, r.msg.type /= "tx"
                 PROVE  last[r.h] = r.msg.old
    BY DEF UnbrokenWalk
  <2>2. Calm BY <2>1 DEF Calm
  <2>3. /\ r.msg = cur.msg /\ cur.n > 0 /\ cur.group > 0 /\ r.h \in Groups(cur.msg)[cur.group]
    BY <2>1, <2>2 DEF IInv, CallsAreCurrent
  <2>4. cur.msg.old = previous BY <2>1, <2>3 DEF IInv, QueueIsWalk
  <2>5. ~Before(r.h, cur.group) BY <1>0, <2>1 DEF Before, Runs
  <2>6. last[r.h] = previous BY <1>4, <2>1, <2>2, <2>3, <2>5 DEF IInv, HandlersAt
  <2>. QED BY <2>3, <2>4, <2>6
<1>. QED BY <1>1, <1>2, <1>5, <1>6 DEF WalksInOrder

-----------------------------------------------------------------------------
\* The notifier's promise to the handlers that main registers, whatever the
\* block tree, the groups, the size of anyQ and the number of reorganizations
\* and transactions: superQueue calls them group after group, each handler that
\* follows the chain sees an unbroken walk on the block tree, and between
\* messages all of them are at the block that processBlock compares with.
THEOREM NotifierWalks == Spec => []WalksInOrder
<1>1. Init /\ [][Next]_vars => []IInv
  BY InitIInv, NextIInv, PTL
<1>. QED BY <1>1, IInvWalks, PTL DEF Spec
=============================================================================
