------------------------ MODULE StakeDatabaseProofs ------------------------
(***************************************************************************)
(* Proofs about module StakeDatabase, for any block tree, tickets, lottery *)
(* and scenarios.                                                          *)
(***************************************************************************)
EXTENDS StakeDatabase, FiniteSetTheorems, SequenceTheorems, WellFoundedInduction,
        NaturalsInduction, TLAPS

-----------------------------------------------------------------------------
(* Induction and recursion, with sets and functions for parameters. *)

\* Induction over the natural numbers, for a set.
LEMMA Induction ==
    ASSUME NEW T, 0 \in T, \A n \in Nat : n \in T => n + 1 \in T
    PROVE  \A n \in Nat : n \in T
<1>. DEFINE U == Nat \ T
<1>1. SUFFICES ASSUME U /= {} PROVE FALSE OBVIOUS
<1>2. PICK k \in U : \A y \in U : ~(<<y, k>> \in OpToRel(<, Nat))
  <2>1. IsWellFoundedOn(OpToRel(<, Nat), Nat) BY NatLessThanWellFounded
  <2>2. U \subseteq Nat OBVIOUS
  <2>. QED BY <2>1, <2>2, <1>1, WFMin
<1>3. k - 1 \in Nat /\ k - 1 < k /\ (k - 1) + 1 = k
  <2>1. k \in Nat /\ k /= 0 OBVIOUS
  <2>. QED BY <2>1
<1>4. k - 1 \in U => <<k - 1, k>> \in OpToRel(<, Nat) BY <1>3 DEF OpToRel
<1>. QED BY <1>2, <1>3, <1>4

\* f runs through n steps of the function G, from s0.
Runs(f, n, S, s0, G) ==
    f \in [0 .. n -> S] /\ f[0] = s0 /\ \A i \in 1 .. n : f[i] = G[<<i, f[i - 1]>>]

\* Such a run exists ...
LEMMA Iterates ==
    ASSUME NEW S, NEW n \in Nat, NEW s0 \in S, NEW G \in [(1 .. n) \X S -> S]
    PROVE  \E f : Runs(f, n, S, s0, G)
<1>. DEFINE T == {k \in Nat : k <= n => \E f : Runs(f, k, S, s0, G)}
<1>1. 0 \in T
  <2>1. Runs([i \in 0 .. 0 |-> s0], 0, S, s0, G) BY DEF Runs
  <2>. QED BY <2>1
<1>2. ASSUME NEW k \in Nat, k \in T PROVE k + 1 \in T
  <2>1. SUFFICES ASSUME k + 1 <= n PROVE \E f : Runs(f, k + 1, S, s0, G) OBVIOUS
  <2>2. PICK f : Runs(f, k, S, s0, G) BY <1>2, <2>1
  <2>. DEFINE g == [i \in 0 .. k + 1 |-> IF i = k + 1 THEN G[<<k + 1, f[k]>>] ELSE f[i]]
  <2>3. f \in [0 .. k -> S] /\ f[0] = s0 /\ \A i \in 1 .. k : f[i] = G[<<i, f[i - 1]>>]
    BY <2>2 DEF Runs
  <2>4. G[<<k + 1, f[k]>>] \in S BY <2>1, <2>3
  <2>5. g \in [0 .. k + 1 -> S] /\ g[0] = s0 BY <2>3, <2>4
  <2>6. \A i \in 1 .. k + 1 : g[i] = G[<<i, g[i - 1]>>]
    <3>. TAKE i \in 1 .. k + 1
    <3>1. CASE i = k + 1 BY <3>1
    <3>2. CASE i \in 1 .. k BY <3>2, <2>3
    <3>. QED BY <3>1, <3>2
  <2>. HIDE DEF g
  <2>. QED BY <2>5, <2>6 DEF Runs
<1>. HIDE DEF T
<1>3. \A k \in Nat : k \in T BY <1>1, <1>2, Induction
<1>. QED BY <1>3 DEF T

\* ... and two that take the same steps are at the same place.
LEMMA RunsAgree ==
    ASSUME NEW S, NEW s0, NEW G, NEW H, NEW n \in Nat, NEW m \in Nat, m <= n,
           NEW f, NEW g, Runs(f, n, S, s0, G), Runs(g, m, S, s0, H),
           \A i \in 1 .. m : \A s \in S : G[<<i, s>>] = H[<<i, s>>]
    PROVE  f[m] = g[m]
<1>. DEFINE T == {k \in Nat : k <= m => f[k] = g[k]}
<1>1. 0 \in T BY DEF Runs
<1>2. ASSUME NEW k \in Nat, k \in T PROVE k + 1 \in T
  <2>1. SUFFICES ASSUME k + 1 <= m PROVE f[k + 1] = g[k + 1] OBVIOUS
  <2>2. k + 1 \in 1 .. n /\ k + 1 \in 1 .. m /\ k \in 0 .. n /\ (k + 1) - 1 = k BY <2>1
  <2>3. f[k + 1] = G[<<k + 1, f[k]>>] BY <2>2 DEF Runs
  <2>4. g[k + 1] = H[<<k + 1, g[k]>>] BY <2>2 DEF Runs
  <2>5. f[k] \in S BY <2>2 DEF Runs
  <2>6. f[k] = g[k] BY <1>2, <2>1
  <2>. QED BY <2>2, <2>3, <2>4, <2>5, <2>6
<1>. HIDE DEF T
<1>3. \A k \in Nat : k \in T BY <1>1, <1>2, Induction
<1>. QED BY <1>3 DEF T

-----------------------------------------------------------------------------
(* The block tree. *)

\* What the tree's assumption says of a block and its parent.
LEMMA TreeFacts ==
    ASSUME NEW b \in Blocks
    PROVE  /\ Path[b] \in Seq(Blocks) /\ Height[b] \in Nat /\ Len(Path[b]) = Height[b] + 1
           /\ Path[b][Height[b] + 1] = b
           /\ b = Genesis => Height[b] = 0
           /\ b /= Genesis => /\ Parent[b] \in Blocks /\ Height[b] = Height[Parent[b]] + 1
                              /\ Height[Parent[b]] \in Nat
                              /\ \A i \in 1 .. Height[b] : Path[b][i] = Path[Parent[b]][i]
<1>1. Path[b] \in Seq(Blocks) /\ Height[b] = Len(Path[b]) - 1 BY TreeAssumption
<1>2. CASE b = Genesis BY <1>1, <1>2, TreeAssumption
<1>3. CASE b /= Genesis
  <2>1. Parent[b] \in Blocks /\ Path[b] = Append(Path[Parent[b]], b) BY <1>3, TreeAssumption
  <2>2. Path[Parent[b]] \in Seq(Blocks) /\ Height[Parent[b]] = Len(Path[Parent[b]]) - 1
    BY <2>1, TreeAssumption
  <2>3. Path[Parent[b]] /= <<>>
    <3>1. CASE Parent[b] = Genesis BY <3>1, TreeAssumption
    <3>2. CASE Parent[b] /= Genesis
      <4>1. PICK q \in Seq(Blocks) : Path[Parent[b]] = Append(q, Parent[b])
        BY <2>1, <3>2, TreeAssumption
      <4>. QED BY <4>1, <2>1
    <3>. QED BY <3>1, <3>2
  <2>4. PICK p \in Seq(Blocks) : p = Path[Parent[b]] BY <2>2
  <2>5. p /= <<>> /\ Height[Parent[b]] = Len(p) - 1 /\ Path[b] = Append(p, b)
    BY <2>1, <2>2, <2>3, <2>4
  <2>6. Len(p) \in Nat /\ Len(p) >= 1 BY <2>5
  <2>7. Height[b] = Len(p) BY <1>1, <2>5
  <2>. QED BY <1>1, <1>3, <2>1, <2>4, <2>5, <2>6, <2>7
<1>. QED BY <1>2, <1>3

\* Induction over the tree, from genesis.
LEMMA TreeInduction ==
    ASSUME NEW T, Genesis \in T,
           \A b \in Blocks : b /= Genesis /\ Parent[b] \in T => b \in T
    PROVE  \A b \in Blocks : b \in T
<1>. DEFINE U == {n \in Nat : \A b \in Blocks : Height[b] = n => b \in T}
<1>1. 0 \in U
  <2>1. \A b \in Blocks : Height[b] = 0 => b = Genesis
    <3>. TAKE b \in Blocks
    <3>1. b /= Genesis => Height[b] = Height[Parent[b]] + 1 /\ Height[Parent[b]] \in Nat
      BY TreeFacts
    <3>. QED BY <3>1
  <2>. QED BY <2>1
<1>2. ASSUME NEW n \in Nat, n \in U PROVE n + 1 \in U
  <2>1. SUFFICES ASSUME NEW b \in Blocks, Height[b] = n + 1 PROVE b \in T OBVIOUS
  <2>2. b = Genesis => Height[b] = 0 BY TreeFacts
  <2>3. CASE b /= Genesis
    <3>1. Parent[b] \in Blocks /\ Height[b] = Height[Parent[b]] + 1 /\ Height[Parent[b]] \in Nat
      BY <2>3, TreeFacts
    <3>2. Height[Parent[b]] = n BY <3>1, <2>1
    <3>. QED BY <3>1, <3>2, <2>3, <1>2
  <2>. QED BY <2>2, <2>3
<1>. HIDE DEF U
<1>3. \A n \in Nat : n \in U BY <1>1, <1>2, Induction
<1>4. \A b \in Blocks : Height[b] \in Nat BY TreeFacts
<1>. QED BY <1>3, <1>4 DEF U

\* The blocks of a path have their own paths below it.
PathIsPaths(b) ==
    \A i \in 1 .. Height[b] + 1 :
      /\ Path[b][i] \in Blocks /\ Height[Path[b][i]] = i - 1
      /\ \A k \in 1 .. i : Path[Path[b][i]][k] = Path[b][k]
      /\ i > 1 => Path[b][i] /= Genesis /\ Parent[Path[b][i]] = Path[b][i - 1]

LEMMA PathsOnPath == ASSUME NEW b \in Blocks PROVE PathIsPaths(b)
<1>. DEFINE T == {a \in Blocks : PathIsPaths(a)}
<1>1. Genesis \in T
  <2>1. Height[Genesis] = 0 /\ Path[Genesis] = <<Genesis>> /\ Genesis \in Blocks
    BY TreeFacts, TreeAssumption
  <2>2. Path[Genesis][1] = Genesis BY <2>1
  <2>3. \A i \in 1 .. Height[Genesis] + 1 : i = 1 BY <2>1
  <2>4. \A k \in 1 .. 1 : k = 1 OBVIOUS
  <2>5. PathIsPaths(Genesis)
    <3>1. SUFFICES ASSUME NEW i \in 1 .. Height[Genesis] + 1
                   PROVE  /\ Path[Genesis][i] \in Blocks /\ Height[Path[Genesis][i]] = i - 1
                          /\ \A k \in 1 .. i : Path[Path[Genesis][i]][k] = Path[Genesis][k]
                          /\ i > 1 => /\ Path[Genesis][i] /= Genesis
                                      /\ Parent[Path[Genesis][i]] = Path[Genesis][i - 1]
      BY DEF PathIsPaths
    <3>2. i = 1 BY <2>3
    <3>3. Path[Genesis][i] = Genesis BY <3>2, <2>2
    <3>. QED BY <3>2, <3>3, <2>1, <2>4
  <2>. QED BY <2>1, <2>5
<1>2. ASSUME NEW a \in Blocks, a /= Genesis, Parent[a] \in T PROVE a \in T
  <2>1. /\ Height[a] \in Nat /\ Path[a][Height[a] + 1] = a
        /\ Parent[a] \in Blocks /\ Height[a] = Height[Parent[a]] + 1 /\ Height[Parent[a]] \in Nat
        /\ \A i \in 1 .. Height[a] : Path[a][i] = Path[Parent[a]][i]
    BY <1>2, TreeFacts
  <2>2. PathIsPaths(Parent[a]) BY <1>2
  <2>3. Path[Parent[a]][Height[a]] = Parent[a] BY <2>1, TreeFacts
  <2>4. SUFFICES ASSUME NEW i \in 1 .. Height[a] + 1
                 PROVE  /\ Path[a][i] \in Blocks /\ Height[Path[a][i]] = i - 1
                        /\ \A k \in 1 .. i : Path[Path[a][i]][k] = Path[a][k]
                        /\ i > 1 => /\ Path[a][i] /= Genesis
                                    /\ Parent[Path[a][i]] = Path[a][i - 1]
    BY DEF PathIsPaths
  <2>5. CASE i = Height[a] + 1
    <3>1. Path[a][i] = a /\ i - 1 = Height[a] BY <2>1, <2>5
    <3>2. Height[a] \in 1 .. Height[a] BY <2>1
    <3>3. Path[a][Height[a]] = Parent[a] BY <2>1, <2>3, <3>2
    <3>. QED BY <3>1, <3>3, <1>2
  <2>6. CASE i \in 1 .. Height[a]
    <3>1. i \in 1 .. Height[Parent[a]] + 1 /\ Path[a][i] = Path[Parent[a]][i] BY <2>1, <2>6
    <3>2. \A k \in 1 .. i : Path[a][k] = Path[Parent[a]][k] BY <2>1, <2>6
    <3>3. i > 1 => i - 1 \in 1 .. i BY <2>1
    <3>. QED BY <3>1, <3>2, <3>3, <2>2 DEF PathIsPaths
  <2>7. i = Height[a] + 1 \/ i \in 1 .. Height[a] BY <2>1
  <2>. QED BY <2>5, <2>6, <2>7
<1>. HIDE DEF T
<1>3. \A a \in Blocks : a \in T BY <1>1, <1>2, TreeInduction
<1>. QED BY <1>3 DEF T

\* The blocks of a chain: their heights tell them apart, and it holds their
\* parents.
LEMMA OnFacts ==
    ASSUME NEW b \in Blocks, NEW a \in On(b)
    PROVE  /\ a \in Blocks /\ Height[a] <= Height[b] /\ Path[b][Height[a] + 1] = a
           /\ \A k \in 1 .. Height[a] + 1 : Path[a][k] = Path[b][k]
           /\ Height[a] = Height[b] => a = b
           /\ a /= Genesis => Parent[a] \in On(b)
<1>1. Path[b] \in Seq(Blocks) /\ Height[b] \in Nat /\ Len(Path[b]) = Height[b] + 1
      /\ Path[b][Height[b] + 1] = b
  BY TreeFacts
<1>2. DOMAIN Path[b] = 1 .. Height[b] + 1 BY <1>1
<1>3. PICK i \in 1 .. Height[b] + 1 : a = Path[b][i] BY <1>2 DEF On
<1>4. /\ a \in Blocks /\ Height[a] = i - 1 /\ \A k \in 1 .. i : Path[a][k] = Path[b][k]
      /\ i > 1 => a /= Genesis /\ Parent[a] = Path[b][i - 1]
  BY <1>3, PathsOnPath DEF PathIsPaths
<1>5. i \in Nat /\ Height[a] + 1 = i /\ Height[a] <= Height[b] BY <1>1, <1>3, <1>4
<1>6. Height[a] = Height[b] => a = b BY <1>1, <1>3, <1>5
<1>7. a /= Genesis => Parent[a] \in On(b)
  <2>1. SUFFICES ASSUME a /= Genesis PROVE Parent[a] \in On(b) OBVIOUS
  <2>2. Height[a] = Height[Parent[a]] + 1 /\ Height[Parent[a]] \in Nat BY <2>1, <1>4, TreeFacts
  <2>3. i > 1 /\ i - 1 \in 1 .. Height[b] + 1 BY <2>2, <1>1, <1>3, <1>5
  <2>. QED BY <2>3, <1>2, <1>4 DEF On
<1>. QED BY <1>3, <1>4, <1>5, <1>6, <1>7

\* The block at each height of a chain.
LEMMA OnPath ==
    ASSUME NEW b \in Blocks, NEW i \in 1 .. Height[b] + 1
    PROVE  Path[b][i] \in On(b) /\ Path[b][i] \in Blocks /\ Height[Path[b][i]] = i - 1
<1>1. DOMAIN Path[b] = 1 .. Height[b] + 1 BY TreeFacts
<1>. QED BY <1>1, PathsOnPath DEF PathIsPaths, On

\* Chains that grow contain what they contained.
LEMMA OnChild ==
    ASSUME NEW b \in Blocks, b /= Genesis, NEW a \in On(Parent[b]) PROVE a \in On(b)
<1>1. /\ Parent[b] \in Blocks /\ Height[b] = Height[Parent[b]] + 1 /\ Height[Parent[b]] \in Nat
      /\ \A i \in 1 .. Height[b] : Path[b][i] = Path[Parent[b]][i]
  BY TreeFacts
<1>2. a \in Blocks /\ Height[a] <= Height[Parent[b]] /\ Path[Parent[b]][Height[a] + 1] = a
  BY <1>1, OnFacts
<1>3. Height[a] \in Nat BY <1>2, TreeFacts
<1>4. Height[a] + 1 \in 1 .. Height[b] BY <1>1, <1>2, <1>3
<1>5. Path[b][Height[a] + 1] = a BY <1>1, <1>2, <1>4
<1>6. Height[a] + 1 \in 1 .. Height[b] + 1 BY <1>1, <1>4
<1>. QED BY <1>5, <1>6, OnPath

-----------------------------------------------------------------------------
(* What a fresh sync builds. *)

Chains == Seq(Node) \ {<<>>}

\* Winners are live.
Drawn(c) == \A i \in 1 .. Len(c) : c[i].winners \subseteq c[i].live

LEMMA BoughtFacts == ASSUME NEW b \in Blocks PROVE Bought[b] \subseteq Tickets
BY DEF Tickets

LEMMA MaturedFacts ==
    ASSUME NEW b \in Blocks PROVE Matured(b) \subseteq Tickets /\ IsFiniteSet(Matured(b))
<1>1. CASE Height[b] >= TicketMaturity
  <2>1. Height[b] \in Nat /\ TicketMaturity \in Nat \ {0} BY TreeFacts, MaturityAssumption
  <2>2. Height[b] - TicketMaturity + 1 \in 1 .. Height[b] + 1 BY <1>1, <2>1
  <2>3. Path[b][Height[b] - TicketMaturity + 1] \in Blocks BY <2>2, OnPath
  <2>. QED BY <1>1, <2>3, BoughtFacts, TicketsAssumption DEF Matured
<1>2. CASE ~(Height[b] >= TicketMaturity) BY <1>2, FS_EmptySet DEF Matured
<1>. QED BY <1>1, <1>2

LEMMA ChainFacts ==
    ASSUME NEW c \in Chains
    PROVE  /\ c \in Seq(Node) /\ Len(c) \in Nat /\ Len(c) >= 1 /\ NodeHeight(c) \in Nat
           /\ Len(c) = NodeHeight(c) + 1 /\ BestNode(c) = c[Len(c)]
           /\ BestNode(c) \in Node /\ BestNode(c).block \in Blocks
           /\ BestNode(c).live \subseteq Tickets /\ BestNode(c).winners \subseteq Tickets
<1>1. c \in Seq(Node) /\ c /= <<>> BY DEF Chains
<1>2. Len(c) \in Nat /\ Len(c) >= 1 BY <1>1
<1>3. c[Len(c)] \in Node BY <1>1, <1>2
<1>. QED BY <1>1, <1>2, <1>3 DEF BestNode, NodeHeight, Node

\* ConnectNode adds one node and leaves those below.
LEMMA ConnectFacts ==
    ASSUME NEW c \in Chains, NEW b \in Blocks, NEW m \in SUBSET Tickets
    PROVE  /\ connectNode(c, b, m) \in Chains /\ Len(connectNode(c, b, m)) = Len(c) + 1
           /\ \A i \in 1 .. Len(c) : connectNode(c, b, m)[i] = c[i]
           /\ BestNode(connectNode(c, b, m)).block = b
           /\ BestNode(connectNode(c, b, m)).live = Staying(c) \cup m
           /\ BestNode(connectNode(c, b, m)).winners \subseteq Staying(c) \cup m
           /\ SubSeq(connectNode(c, b, m), 1, Len(c)) = c
           /\ Drawn(c) => Drawn(connectNode(c, b, m))
<1>. DEFINE live == Staying(c) \cup m
            node == [block |-> b, live |-> live, winners |-> WinnersOf(b, live)]
<1>1. live \subseteq Tickets /\ WinnersOf(b, live) \subseteq live
  BY ChainFacts DEF Staying, WinnersOf
<1>2. /\ node \in Node /\ node.block = b /\ node.live = live
      /\ node.winners \subseteq live
  BY <1>1 DEF Node
<1>3. PICK n : n = node OBVIOUS
<1>4. connectNode(c, b, m) = Append(c, n) BY <1>3 DEF connectNode
<1>5. n \in Node /\ n.block = b /\ n.live = live /\ n.winners \subseteq n.live BY <1>2, <1>3
<1>. HIDE DEF node
<1>6. c \in Seq(Node) /\ Len(c) \in Nat /\ c /= <<>> BY DEF Chains
<1>7. /\ Append(c, n) \in Seq(Node) /\ Append(c, n) /= <<>>
      /\ Len(Append(c, n)) = Len(c) + 1 /\ Append(c, n)[Len(c) + 1] = n
      /\ \A i \in 1 .. Len(c) : Append(c, n)[i] = c[i]
  BY <1>5, <1>6
<1>8. SubSeq(Append(c, n), 1, Len(c)) = c BY <1>5, <1>6
<1>9. Drawn(c) => Drawn(Append(c, n))
  <2>1. \A i \in 1 .. Len(c) + 1 : i \in 1 .. Len(c) \/ i = Len(c) + 1 BY <1>6
  <2>. QED BY <2>1, <1>5, <1>7 DEF Drawn
<1>10. BestNode(Append(c, n)) = n BY <1>6, <1>7 DEF BestNode
<1>. QED BY <1>4, <1>5, <1>7, <1>8, <1>9, <1>10 DEF Chains

LEMMA GenesisChain ==
    /\ <<GenesisNode>> \in Chains /\ Len(<<GenesisNode>>) = 1 /\ Drawn(<<GenesisNode>>)
    /\ BestNode(<<GenesisNode>>) = GenesisNode
    /\ GenesisNode.block = Genesis /\ GenesisNode.live = {}
<1>1. GenesisNode \in Node /\ GenesisNode.block = Genesis /\ GenesisNode.live = {}
      /\ GenesisNode.winners = {}
  BY TreeAssumption DEF GenesisNode, Node
<1>2. <<GenesisNode>> \in Seq(Node) /\ <<GenesisNode>> /= <<>> /\ Len(<<GenesisNode>>) = 1
      /\ <<GenesisNode>>[1] = GenesisNode
  BY <1>1
<1>. QED BY <1>1, <1>2 DEF Chains, Drawn, BestNode

\* The steps of a sync to b.
Steps(b) == [x \in (1 .. Height[b]) \X Chains |->
               connectNode(x[2], Path[b][x[1] + 1], Matured(Path[b][x[1] + 1]))]
SyncRun(f, b) == Runs(f, Height[b], Chains, <<GenesisNode>>, Steps(b))

\* They stay among the chains.
LEMMA StepsFacts ==
    ASSUME NEW b \in Blocks
    PROVE  /\ Steps(b) \in [(1 .. Height[b]) \X Chains -> Chains]
           /\ \A i \in 1 .. Height[b] : \A c \in Chains :
                Steps(b)[<<i, c>>] = connectNode(c, Path[b][i + 1], Matured(Path[b][i + 1]))
<1>1. ASSUME NEW i \in 1 .. Height[b], NEW c \in Chains
      PROVE  connectNode(c, Path[b][i + 1], Matured(Path[b][i + 1])) \in Chains
  <2>1. i + 1 \in 1 .. Height[b] + 1 BY TreeFacts
  <2>2. PICK a \in Blocks : a = Path[b][i + 1] BY <2>1, OnPath
  <2>3. Matured(a) \in SUBSET Tickets BY MaturedFacts
  <2>. QED BY <2>2, <2>3, ConnectFacts
<1>2. \A i \in 1 .. Height[b] : \A c \in Chains :
        Steps(b)[<<i, c>>] = connectNode(c, Path[b][i + 1], Matured(Path[b][i + 1]))
  BY DEF Steps
<1>3. \A x \in (1 .. Height[b]) \X Chains :
        connectNode(x[2], Path[b][x[1] + 1], Matured(Path[b][x[1] + 1])) \in Chains
  BY <1>1
<1>4. Steps(b) \in [(1 .. Height[b]) \X Chains -> Chains] BY <1>3 DEF Steps
<1>. QED BY <1>2, <1>4

\* The definition of Synced says what it means to.
LEMMA SyncedRuns ==
    ASSUME NEW b \in Blocks PROVE \E f : SyncRun(f, b) /\ Synced[b] = f[Height[b]]
<1>. DEFINE body(f) == [i \in 0 .. Height[b] |->
                          IF i = 0 THEN <<GenesisNode>>
                          ELSE connectNode(f[i - 1], Path[b][i + 1], Matured(Path[b][i + 1]))]
            nodes == CHOOSE f : f = body(f)
<1>1. Synced[b] = nodes[Height[b]] BY DEF Synced
<1>2. Height[b] \in Nat BY TreeFacts
<1>3. PICK f : SyncRun(f, b)
  <2>1. <<GenesisNode>> \in Chains BY GenesisChain
  <2>2. Steps(b) \in [(1 .. Height[b]) \X Chains -> Chains] BY StepsFacts
  <2>. QED BY <1>2, <2>1, <2>2, Iterates DEF SyncRun
<1>4. f = body(f)
  <2>1. /\ f \in [0 .. Height[b] -> Chains] /\ f[0] = <<GenesisNode>>
        /\ \A i \in 1 .. Height[b] : f[i] = Steps(b)[<<i, f[i - 1]>>]
    BY <1>3 DEF SyncRun, Runs
  <2>2. \A i \in 1 .. Height[b] :
          f[i] = connectNode(f[i - 1], Path[b][i + 1], Matured(Path[b][i + 1]))
    <3>. TAKE i \in 1 .. Height[b]
    <3>1. i - 1 \in 0 .. Height[b] BY <1>2
    <3>2. f[i - 1] \in Chains BY <2>1, <3>1
    <3>. QED BY <2>1, <3>2, StepsFacts
  <2>3. \A i \in 0 .. Height[b] : i = 0 \/ i \in 1 .. Height[b] BY <1>2
  <2>. QED BY <2>1, <2>2, <2>3
<1>5. nodes = body(nodes) BY <1>4
<1>. HIDE DEF nodes
<1>6. nodes \in [0 .. Height[b] -> Chains]
  <2>1. nodes = [i \in 0 .. Height[b] |-> nodes[i]] BY <1>5
  <2>. DEFINE T == {i \in Nat : i <= Height[b] => nodes[i] \in Chains}
  <2>2. 0 \in T BY <1>2, <1>5, GenesisChain
  <2>3. ASSUME NEW i \in Nat, i \in T PROVE i + 1 \in T
    <3>1. SUFFICES ASSUME i + 1 <= Height[b] PROVE nodes[i + 1] \in Chains OBVIOUS
    <3>2. i + 1 \in 1 .. Height[b] /\ i + 1 \in 0 .. Height[b] /\ i + 1 /= 0 /\ (i + 1) - 1 = i
      BY <1>2, <3>1
    <3>3. nodes[i] \in Chains BY <2>3, <3>1, <1>2
    <3>4. nodes[i + 1] = connectNode(nodes[i], Path[b][(i + 1) + 1], Matured(Path[b][(i + 1) + 1]))
      BY <1>5, <3>2
    <3>5. Steps(b)[<<i + 1, nodes[i]>>] = nodes[i + 1] BY <3>2, <3>3, <3>4, StepsFacts
    <3>6. Steps(b)[<<i + 1, nodes[i]>>] \in Chains BY <3>2, <3>3, StepsFacts
    <3>. QED BY <3>5, <3>6
  <2>. HIDE DEF T
  <2>4. \A i \in Nat : i \in T BY <2>2, <2>3, Induction
  <2>5. \A i \in 0 .. Height[b] : nodes[i] \in Chains BY <2>4, <1>2 DEF T
  <2>. QED BY <2>1, <2>5
<1>7. SyncRun(nodes, b)
  <2>1. nodes[0] = <<GenesisNode>> BY <1>2, <1>5
  <2>2. \A i \in 1 .. Height[b] : nodes[i] = Steps(b)[<<i, nodes[i - 1]>>]
    <3>. TAKE i \in 1 .. Height[b]
    <3>1. i - 1 \in 0 .. Height[b] /\ i \in 0 .. Height[b] /\ i /= 0 BY <1>2
    <3>2. nodes[i] = connectNode(nodes[i - 1], Path[b][i + 1], Matured(Path[b][i + 1]))
      BY <1>5, <3>1
    <3>3. nodes[i - 1] \in Chains BY <1>6, <3>1
    <3>. QED BY <3>2, <3>3, StepsFacts
  <2>. QED BY <2>1, <2>2, <1>6 DEF SyncRun, Runs
<1>. QED BY <1>1, <1>7

\* A sync to b is a sync to its parent and one block more.
LEMMA SyncedStep ==
    /\ Synced[Genesis] = <<GenesisNode>>
    /\ \A b \in Blocks : b /= Genesis =>
         /\ Synced[Parent[b]] \in Chains
         /\ Synced[b] = connectNode(Synced[Parent[b]], b, Matured(b))
<1>1. Synced[Genesis] = <<GenesisNode>>
  <2>1. Genesis \in Blocks /\ Height[Genesis] = 0 BY TreeFacts, TreeAssumption
  <2>. QED BY <2>1, SyncedRuns DEF SyncRun, Runs
<1>2. ASSUME NEW b \in Blocks, b /= Genesis
      PROVE  /\ Synced[Parent[b]] \in Chains
             /\ Synced[b] = connectNode(Synced[Parent[b]], b, Matured(b))
  <2>1. /\ Height[b] \in Nat /\ Path[b][Height[b] + 1] = b
        /\ Parent[b] \in Blocks /\ Height[b] = Height[Parent[b]] + 1 /\ Height[Parent[b]] \in Nat
        /\ \A i \in 1 .. Height[b] : Path[b][i] = Path[Parent[b]][i]
    BY <1>2, TreeFacts
  <2>2. PICK f : SyncRun(f, b) /\ Synced[b] = f[Height[b]] BY SyncedRuns
  <2>3. PICK g : SyncRun(g, Parent[b]) /\ Synced[Parent[b]] = g[Height[Parent[b]]]
    BY <2>1, SyncedRuns
  <2>4. \A i \in 1 .. Height[Parent[b]] : \A c \in Chains :
          Steps(b)[<<i, c>>] = Steps(Parent[b])[<<i, c>>]
    <3>. TAKE i \in 1 .. Height[Parent[b]]
    <3>1. i \in 1 .. Height[b] /\ i + 1 \in 1 .. Height[b] BY <2>1
    <3>2. Path[b][i + 1] = Path[Parent[b]][i + 1] BY <2>1, <3>1
    <3>3. \A c \in Chains : Steps(b)[<<i, c>>] =
             connectNode(c, Path[b][i + 1], Matured(Path[b][i + 1]))
      BY <3>1, StepsFacts
    <3>4. \A c \in Chains : Steps(Parent[b])[<<i, c>>] =
             connectNode(c, Path[Parent[b]][i + 1], Matured(Path[Parent[b]][i + 1]))
      BY <2>1, StepsFacts
    <3>. QED BY <3>2, <3>3, <3>4
  <2>5. f[Height[Parent[b]]] = g[Height[Parent[b]]]
    <3>1. Height[Parent[b]] <= Height[b] BY <2>1
    <3>2. Runs(f, Height[b], Chains, <<GenesisNode>>, Steps(b)) BY <2>2 DEF SyncRun
    <3>3. Runs(g, Height[Parent[b]], Chains, <<GenesisNode>>, Steps(Parent[b]))
      BY <2>3 DEF SyncRun
    <3>. QED BY <2>1, <2>4, <3>1, <3>2, <3>3, RunsAgree
  <2>6. /\ f \in [0 .. Height[b] -> Chains]
        /\ \A i \in 1 .. Height[b] : f[i] = Steps(b)[<<i, f[i - 1]>>]
    BY <2>2 DEF SyncRun, Runs
  <2>7. Height[b] \in 1 .. Height[b] /\ Height[b] - 1 = Height[Parent[b]]
        /\ Height[Parent[b]] \in 0 .. Height[b]
    BY <2>1
  <2>8. Synced[Parent[b]] \in Chains BY <2>3, <2>5, <2>6, <2>7
  <2>9. f[Height[b]] = Steps(b)[<<Height[b], Synced[Parent[b]]>>] BY <2>3, <2>5, <2>6, <2>7
  <2>. QED BY <2>1, <2>2, <2>7, <2>8, <2>9, StepsFacts
<1>. QED BY <1>1, <1>2

LiveAt(b) == BestNode(Synced[b]).live
DiffOf(b) == PoolDiff(Synced[Parent[b]], Matured(b))

SyncedOK(b) ==
    /\ Synced[b] \in Chains /\ Len(Synced[b]) = Height[b] + 1 /\ Drawn(Synced[b])
    /\ BestNode(Synced[b]).block = b /\ IsFiniteSet(LiveAt(b))
    /\ \A i \in 1 .. Height[b] + 1 : Synced[b][i] = BestNode(Synced[Path[b][i]])

\* The stake nodes of a fresh sync, by height.
LEMMA SyncedFacts == ASSUME NEW b \in Blocks PROVE SyncedOK(b)
<1>. DEFINE T == {a \in Blocks : SyncedOK(a)}
<1>1. Genesis \in T
  <2>1. /\ Genesis \in Blocks /\ Height[Genesis] = 0 /\ Path[Genesis] = <<Genesis>>
        /\ Path[Genesis][1] = Genesis
    BY TreeFacts, TreeAssumption
  <2>2. PICK c : c = <<GenesisNode>> OBVIOUS
  <2>3. Synced[Genesis] = c /\ c \in Chains /\ Len(c) = 1 /\ Drawn(c) /\ BestNode(c) = GenesisNode
    BY <2>2, GenesisChain, SyncedStep
  <2>4. BestNode(c).block = Genesis /\ IsFiniteSet(BestNode(c).live)
    BY <2>3, GenesisChain, FS_EmptySet
  <2>5. \A i \in 1 .. 1 : c[i] = BestNode(Synced[Path[Genesis][i]])
    <3>1. c[1] = BestNode(c) BY <2>3 DEF BestNode
    <3>. QED BY <3>1, <2>1, <2>3
  <2>6. Height[Genesis] + 1 = 1 BY <2>1
  <2>7. Len(c) = Height[Genesis] + 1 BY <2>3, <2>6
  <2>8. \A i \in 1 .. Height[Genesis] + 1 : c[i] = BestNode(Synced[Path[Genesis][i]])
    BY <2>5, <2>6
  <2>9. SyncedOK(Genesis) BY <2>3, <2>4, <2>7, <2>8, Zenon DEF SyncedOK, LiveAt
  <2>. QED BY <2>1, <2>9
<1>2. ASSUME NEW a \in Blocks, a /= Genesis, Parent[a] \in T PROVE a \in T
  <2>1. /\ Height[a] \in Nat /\ Path[a][Height[a] + 1] = a
        /\ Parent[a] \in Blocks /\ Height[a] = Height[Parent[a]] + 1
        /\ \A i \in 1 .. Height[a] : Path[a][i] = Path[Parent[a]][i]
    BY <1>2, TreeFacts
  <2>2. PICK c : c = Synced[Parent[a]] OBVIOUS
  <2>3. PICK m : m = Matured(a) OBVIOUS
  <2>4. c \in Chains /\ Synced[a] = connectNode(c, a, m) BY <1>2, <2>2, <2>3, SyncedStep
  <2>5. /\ Len(c) = Height[a] /\ Drawn(c) /\ IsFiniteSet(BestNode(c).live)
        /\ \A i \in 1 .. Height[a] : c[i] = BestNode(Synced[Path[Parent[a]][i]])
    BY <1>2, <2>1, <2>2 DEF SyncedOK, LiveAt
  <2>6. m \in SUBSET Tickets /\ IsFiniteSet(m) BY <2>3, MaturedFacts
  <2>7. PICK d : d = connectNode(c, a, m) OBVIOUS
  <2>8. /\ d \in Chains /\ Len(d) = Height[a] + 1 /\ \A i \in 1 .. Height[a] : d[i] = c[i]
        /\ BestNode(d).block = a /\ BestNode(d).live = Staying(c) \cup m /\ Drawn(d)
    BY <2>4, <2>5, <2>6, <2>7, ConnectFacts
  <2>9. IsFiniteSet(BestNode(d).live)
    <3>1. Staying(c) \subseteq BestNode(c).live BY DEF Staying
    <3>2. IsFiniteSet(Staying(c)) BY <3>1, <2>5, FS_Subset
    <3>. QED BY <3>2, <2>6, <2>8, FS_Union
  <2>10. \A i \in 1 .. Height[a] + 1 : d[i] = BestNode(Synced[Path[a][i]])
    <3>1. d[Height[a] + 1] = BestNode(d) BY <2>8 DEF BestNode
    <3>2. Synced[Path[a][Height[a] + 1]] = d BY <2>1, <2>4, <2>7
    <3>3. \A i \in 1 .. Height[a] + 1 : i \in 1 .. Height[a] \/ i = Height[a] + 1 BY <2>1
    <3>. QED BY <3>1, <3>2, <3>3, <2>1, <2>5, <2>8
  <2>. QED BY <2>4, <2>7, <2>8, <2>9, <2>10 DEF SyncedOK, LiveAt
<1>. HIDE DEF T
<1>3. \A a \in Blocks : a \in T BY <1>1, <1>2, TreeInduction
<1>. QED BY <1>3 DEF T

\* The live tickets have matured on the way.
LiveFrom(b) ==
    \A t \in LiveAt(b) : \E k \in 1 .. Height[b] + 1 :
      k + TicketMaturity <= Height[b] + 1 /\ t \in Bought[Path[b][k]]

LEMMA LiveMatured == ASSUME NEW b \in Blocks PROVE LiveFrom(b)
<1>. DEFINE T == {a \in Blocks : LiveFrom(a)}
<1>1. Genesis \in T
  <2>1. LiveAt(Genesis) = {} BY SyncedStep, GenesisChain DEF LiveAt
  <2>. QED BY <2>1, TreeAssumption DEF LiveFrom
<1>2. ASSUME NEW a \in Blocks, a /= Genesis, Parent[a] \in T PROVE a \in T
  <2>1. /\ Height[a] \in Nat /\ Height[Parent[a]] \in Nat
        /\ Parent[a] \in Blocks /\ Height[a] = Height[Parent[a]] + 1
        /\ \A i \in 1 .. Height[a] : Path[a][i] = Path[Parent[a]][i]
    BY <1>2, TreeFacts
  <2>2. LiveAt(a) = Staying(Synced[Parent[a]]) \cup Matured(a)
    BY <1>2, SyncedStep, ConnectFacts, MaturedFacts DEF LiveAt
  <2>3. Staying(Synced[Parent[a]]) \subseteq LiveAt(Parent[a]) BY DEF Staying, LiveAt
  <2>4. SUFFICES ASSUME NEW t \in LiveAt(a)
                 PROVE  \E k \in 1 .. Height[a] + 1 :
                          k + TicketMaturity <= Height[a] + 1 /\ t \in Bought[Path[a][k]]
    BY DEF LiveFrom
  <2>5. CASE t \in Matured(a)
    <3>1. /\ TicketMaturity \in Nat \ {0} /\ Height[a] >= TicketMaturity
          /\ t \in Bought[Path[a][Height[a] - TicketMaturity + 1]]
      BY <2>5, MaturityAssumption DEF Matured
    <3>2. /\ Height[a] - TicketMaturity + 1 \in 1 .. Height[a] + 1
          /\ (Height[a] - TicketMaturity + 1) + TicketMaturity <= Height[a] + 1
      BY <3>1, <2>1
    <3>. QED BY <3>1, <3>2
  <2>6. CASE t \in LiveAt(Parent[a])
    <3>1. PICK k \in 1 .. Height[Parent[a]] + 1 :
            k + TicketMaturity <= Height[Parent[a]] + 1 /\ t \in Bought[Path[Parent[a]][k]]
      BY <2>6, <1>2 DEF LiveFrom
    <3>2. k \in 1 .. Height[a] /\ k \in 1 .. Height[a] + 1 /\ k + TicketMaturity <= Height[a] + 1
      BY <3>1, <2>1, MaturityAssumption
    <3>. QED BY <3>1, <3>2, <2>1
  <2>. QED BY <2>2, <2>3, <2>5, <2>6
<1>. HIDE DEF T
<1>3. \A a \in Blocks : a \in T BY <1>1, <1>2, TreeInduction
<1>. QED BY <1>3 DEF T

\* A block's diff: what matures was not live, what leaves was; the diff takes the
\* live tickets of the parent to the block's, and back.
LEMMA DiffFacts ==
    ASSUME NEW b \in Blocks, b /= Genesis
    PROVE  /\ DiffOf(b) \in Diff /\ DiffOf(b).in = Matured(b)
           /\ Matured(b) \cap LiveAt(Parent[b]) = {} /\ DiffOf(b).out \subseteq LiveAt(Parent[b])
           /\ LiveAt(b) = applyDiff(LiveAt(Parent[b]), DiffOf(b).in, DiffOf(b).out)
           /\ LiveAt(Parent[b]) = applyDiff(LiveAt(b), DiffOf(b).out, DiffOf(b).in)
           /\ LiveAt(b) = (LiveAt(Parent[b]) \ DiffOf(b).out) \cup Matured(b)
           /\ Staying(Synced[Parent[b]]) \cap Matured(b) = {}
<1>1. /\ Height[b] \in Nat /\ Height[Parent[b]] \in Nat
      /\ Parent[b] \in Blocks /\ Height[b] = Height[Parent[b]] + 1
      /\ \A i \in 1 .. Height[b] : Path[b][i] = Path[Parent[b]][i]
  BY TreeFacts
<1>2. PICK c : c = Synced[Parent[b]] OBVIOUS
<1>3. c \in Chains /\ Drawn(c) BY <1>1, <1>2, SyncedFacts DEF SyncedOK
<1>4. PICK out : out = BestNode(c).winners \cup ExpiredByBlock(c) OBVIOUS
<1>5. DiffOf(b) = [in |-> Matured(b), out |-> out] BY <1>2, <1>4 DEF DiffOf, PoolDiff
<1>6. LiveAt(Parent[b]) = BestNode(c).live BY <1>2 DEF LiveAt
<1>7. out \subseteq BestNode(c).live
  <2>1. BestNode(c).winners \subseteq BestNode(c).live
    <3>1. Len(c) \in 1 .. Len(c) /\ BestNode(c) = c[Len(c)] BY <1>3, ChainFacts
    <3>. QED BY <3>1, <1>3 DEF Drawn
  <2>2. ExpiredByBlock(c) \subseteq BestNode(c).live BY DEF ExpiredByBlock
  <2>. QED BY <1>4, <2>1, <2>2
<1>8. BestNode(c).live \subseteq Tickets BY <1>3, ChainFacts
<1>9. Matured(b) \subseteq Tickets BY MaturedFacts
<1>10. Matured(b) \cap BestNode(c).live = {}
  <2>1. SUFFICES ASSUME NEW t, t \in Matured(b), t \in BestNode(c).live PROVE FALSE OBVIOUS
  <2>2. PICK k \in 1 .. Height[Parent[b]] + 1 :
          k + TicketMaturity <= Height[Parent[b]] + 1 /\ t \in Bought[Path[Parent[b]][k]]
    BY <1>1, <1>6, <2>1, LiveMatured DEF LiveFrom
  <2>3. /\ TicketMaturity \in Nat \ {0} /\ Height[b] >= TicketMaturity
        /\ t \in Bought[Path[b][Height[b] - TicketMaturity + 1]]
    BY <2>1, MaturityAssumption DEF Matured
  <2>4. PICK j : j = Height[b] - TicketMaturity + 1 OBVIOUS
  <2>5. k \in 1 .. Height[b] /\ k \in 1 .. Height[b] + 1 /\ j \in 1 .. Height[b] + 1 /\ k /= j
    BY <1>1, <2>2, <2>3, <2>4
  <2>6. DOMAIN Path[b] = 1 .. Height[b] + 1 BY TreeFacts
  <2>7. Bought[Path[b][k]] \cap Bought[Path[b][j]] = {} BY <2>5, <2>6, TicketsAssumption
  <2>8. t \in Bought[Path[b][k]] BY <2>2, <2>5, <1>1
  <2>. QED BY <2>3, <2>4, <2>7, <2>8
<1>11. Staying(c) = BestNode(c).live \ out BY <1>4 DEF Staying
<1>12. LiveAt(b) = Staying(c) \cup Matured(b)
  BY <1>2, <1>3, <1>9, SyncedStep, ConnectFacts DEF LiveAt
<1>13. DiffOf(b).in = Matured(b) /\ DiffOf(b).out = out BY <1>5
<1>14. DiffOf(b) \in Diff BY <1>5, <1>7, <1>8, <1>9 DEF Diff
<1>15. LiveAt(b) = applyDiff(LiveAt(Parent[b]), DiffOf(b).in, DiffOf(b).out)
  BY <1>6, <1>7, <1>10, <1>11, <1>12, <1>13 DEF applyDiff
<1>16. LiveAt(Parent[b]) = applyDiff(LiveAt(b), DiffOf(b).out, DiffOf(b).in)
  BY <1>6, <1>7, <1>10, <1>11, <1>12, <1>13 DEF applyDiff
<1>17. LiveAt(b) = (LiveAt(Parent[b]) \ DiffOf(b).out) \cup Matured(b)
  BY <1>6, <1>11, <1>12, <1>13
<1>18. Staying(c) \cap Matured(b) = {} BY <1>10, <1>11
<1>. QED BY <1>2, <1>6, <1>7, <1>10, <1>13, <1>14, <1>15, <1>16, <1>17, <1>18

-----------------------------------------------------------------------------
(* Diffs and the pools they give. *)

LEMMA PoolAtZero == ASSUME NEW d PROVE PoolAt(d, 0) = {}
BY DEF PoolAt

\* Height by height the pool is what applying one more diff gives.
LEMMA PoolAtStep ==
    ASSUME NEW d, NEW h \in Nat \ {0}, d[h].in \subseteq Tickets
    PROVE  PoolAt(d, h) = applyDiff(PoolAt(d, h - 1), d[h].in, d[h].out)
<1>1. \A i \in 1 .. h : i = h \/ i \in 1 .. h - 1 OBVIOUS
<1>2. \A i \in 1 .. h - 1 : i \in 1 .. h /\ h \in i .. h /\ \A k \in i .. h - 1 : k \in i .. h
  OBVIOUS
<1>3. h \in 1 .. h /\ \A k \in h .. h : k = h OBVIOUS
<1>4. \A i \in 1 .. h - 1 : \A k \in i .. h : k = h \/ k \in i .. h - 1 OBVIOUS
<1>5. ASSUME NEW t \in PoolAt(d, h) PROVE t \in applyDiff(PoolAt(d, h - 1), d[h].in, d[h].out)
  <2>1. PICK i \in 1 .. h : t \in d[i].in /\ \A k \in i .. h : t \notin d[k].out
    BY DEF PoolAt
  <2>2. t \in Tickets BY DEF PoolAt
  <2>3. CASE i = h BY <2>1, <2>3, <1>3 DEF applyDiff
  <2>4. CASE i \in 1 .. h - 1
    <3>1. t \in PoolAt(d, h - 1) BY <2>1, <2>2, <2>4, <1>2 DEF PoolAt
    <3>2. t \notin d[h].out BY <2>1, <2>4, <1>2
    <3>. QED BY <3>1, <3>2 DEF applyDiff
  <2>. QED BY <2>3, <2>4, <1>1
<1>6. ASSUME NEW t \in applyDiff(PoolAt(d, h - 1), d[h].in, d[h].out) PROVE t \in PoolAt(d, h)
  <2>1. t \notin d[h].out BY DEF applyDiff
  <2>2. CASE t \in d[h].in BY <2>1, <2>2, <1>3 DEF PoolAt
  <2>3. CASE t \in PoolAt(d, h - 1)
    <3>1. PICK i \in 1 .. h - 1 : t \in d[i].in /\ \A k \in i .. h - 1 : t \notin d[k].out
      BY <2>3 DEF PoolAt
    <3>2. \A k \in i .. h : t \notin d[k].out BY <3>1, <2>1, <1>4
    <3>3. t \in Tickets BY <2>3 DEF PoolAt
    <3>. QED BY <3>1, <3>2, <3>3, <1>2 DEF PoolAt
  <2>. QED BY <2>2, <2>3 DEF applyDiff
<1>. QED BY <1>5, <1>6

\* The pool depends on the diffs up to its height.
LEMMA PoolAtSame ==
    ASSUME NEW d, NEW e, NEW h \in Nat, \A i \in 1 .. h : d[i] = e[i]
    PROVE  PoolAt(d, h) = PoolAt(e, h)
<1>1. \A i \in 1 .. h : \A k \in i .. h : k \in 1 .. h OBVIOUS
<1>. QED BY <1>1 DEF PoolAt

\* The diffs of a sync to b are those of a sync to its parent and one more.
LEMMA SyncedDiffsFacts ==
    ASSUME NEW b \in Blocks
    PROVE  /\ SyncedDiffs(b) \in Seq(Diff) /\ Len(SyncedDiffs(b)) = Height[b]
           /\ \A i \in 1 .. Height[b] : SyncedDiffs(b)[i] = DiffOf(Path[b][i + 1])
           /\ b = Genesis => SyncedDiffs(b) = <<>>
           /\ b /= Genesis => SyncedDiffs(b) = Append(SyncedDiffs(Parent[b]), DiffOf(b))
<1>1. Height[b] \in Nat BY TreeFacts
<1>2. \A i \in 1 .. Height[b] :
        /\ SyncedDiffs(b)[i] = DiffOf(Path[b][i + 1]) /\ DiffOf(Path[b][i + 1]) \in Diff
        /\ Path[b][i + 1] \in Blocks
  <2>. TAKE i \in 1 .. Height[b]
  <2>1. i + 1 \in 1 .. Height[b] + 1 /\ i + 1 > 1 /\ (i + 1) - 1 = i BY <1>1
  <2>2. /\ Path[b][i + 1] \in Blocks /\ Path[b][i + 1] /= Genesis
        /\ Parent[Path[b][i + 1]] = Path[b][i]
    BY <2>1, PathsOnPath DEF PathIsPaths
  <2>3. DiffOf(Path[b][i + 1]) \in Diff BY <2>2, DiffFacts
  <2>. QED BY <2>2, <2>3 DEF SyncedDiffs, DiffOf
<1>3. DOMAIN SyncedDiffs(b) = 1 .. Height[b] BY DEF SyncedDiffs
<1>4. \A i \in 1 .. Height[b] : SyncedDiffs(b)[i] \in Diff BY <1>2
<1>5. SyncedDiffs(b) = [i \in 1 .. Height[b] |-> SyncedDiffs(b)[i]] BY DEF SyncedDiffs
<1>6. SyncedDiffs(b) \in Seq(Diff) /\ Len(SyncedDiffs(b)) = Height[b]
  <2>1. PICK d : d = SyncedDiffs(b) OBVIOUS
  <2>2. d \in [1 .. Height[b] -> Diff] BY <2>1, <1>4, <1>5
  <2>3. d \in Seq(Diff) /\ Len(d) = Height[b] BY <2>2, <1>1
  <2>. QED BY <2>1, <2>3
<1>7. CASE b = Genesis
  <2>1. Height[b] = 0 BY <1>7, TreeFacts
  <2>2. SyncedDiffs(b) = <<>> BY <2>1, <1>6
  <2>. QED BY <1>2, <1>6, <1>7, <2>2
<1>8. CASE b /= Genesis
  <2>1. /\ Parent[b] \in Blocks /\ Height[b] = Height[Parent[b]] + 1
        /\ Height[Parent[b]] \in Nat /\ Path[b][Height[b] + 1] = b
        /\ \A i \in 1 .. Height[b] : Path[b][i] = Path[Parent[b]][i]
    BY <1>8, TreeFacts
  <2>2. \A i \in 1 .. Height[Parent[b]] : SyncedDiffs(Parent[b])[i] = SyncedDiffs(b)[i]
    <3>. TAKE i \in 1 .. Height[Parent[b]]
    <3>1. i \in 1 .. Height[b] /\ i + 1 \in 1 .. Height[b] BY <2>1
    <3>. QED BY <3>1, <2>1 DEF SyncedDiffs
  <2>3. SyncedDiffs(Parent[b]) = [i \in 1 .. Height[Parent[b]] |-> SyncedDiffs(b)[i]]
    BY <2>2 DEF SyncedDiffs
  <2>4. SyncedDiffs(b)[Height[b]] = DiffOf(b)
    <3>1. Height[b] \in 1 .. Height[b] BY <2>1
    <3>. QED BY <3>1, <1>2, <2>1
  <2>5. PICK d \in Seq(Diff) : d = SyncedDiffs(b) BY <1>6
  <2>6. PICK e : e = SyncedDiffs(Parent[b]) OBVIOUS
  <2>7. e = [i \in 1 .. Len(d) - 1 |-> d[i]] /\ Len(d) \in Nat /\ Len(d) >= 1
    BY <2>1, <2>3, <2>5, <2>6, <1>6
  <2>8. e \in Seq(Diff) /\ Len(e) = Len(d) - 1
    <3>1. \A i \in 1 .. Len(d) - 1 : d[i] \in Diff BY <2>5
    <3>. QED BY <2>7, <3>1
  <2>9. d = Append(e, d[Len(d)])
    <3>1. PICK x \in Diff : x = d[Len(d)] BY <2>5, <2>7
    <3>2. Len(Append(e, x)) = Len(d) /\ Append(e, x) \in Seq(Diff) BY <2>7, <2>8
    <3>3. \A i \in 1 .. Len(d) : Append(e, x)[i] = d[i]
      <4>. TAKE i \in 1 .. Len(d)
      <4>1. CASE i \in 1 .. Len(d) - 1 BY <4>1, <2>7, <2>8
      <4>2. CASE i = Len(d) BY <4>2, <2>7, <2>8, <3>1
      <4>. QED BY <4>1, <4>2, <2>7
    <3>. QED BY <2>5, <3>1, <3>2, <3>3
  <2>10. d[Len(d)] = DiffOf(b) BY <2>4, <2>5, <1>6
  <2>. QED BY <1>2, <1>6, <1>8, <2>5, <2>6, <2>9, <2>10
<1>. QED BY <1>7, <1>8

\* Blocks of one chain have the same diffs.
LEMMA SyncedDiffsOn ==
    ASSUME NEW b \in Blocks, NEW a \in On(b), NEW h \in 1 .. Height[a]
    PROVE  SyncedDiffs(a)[h] = SyncedDiffs(b)[h]
<1>1. a \in Blocks /\ Height[a] <= Height[b] /\ \A k \in 1 .. Height[a] + 1 : Path[a][k] = Path[b][k]
  BY OnFacts
<1>2. Height[a] \in Nat /\ Height[b] \in Nat BY <1>1, TreeFacts
<1>3. h \in 1 .. Height[b] /\ h + 1 \in 1 .. Height[a] + 1 BY <1>1, <1>2
<1>. QED BY <1>1, <1>3, SyncedDiffsFacts

\* The pool is exact, and every diff changes its size as AdvanceToTip expects.
LEMMA PoolIsLive ==
    ASSUME NEW b \in Blocks PROVE PoolAt(SyncedDiffs(b), Height[b]) = LiveAt(b)
<1>. DEFINE T == {a \in Blocks : PoolAt(SyncedDiffs(a), Height[a]) = LiveAt(a)}
<1>1. Genesis \in T
  <2>1. Genesis \in Blocks /\ Height[Genesis] = 0 BY TreeFacts, TreeAssumption
  <2>2. LiveAt(Genesis) = {} BY SyncedStep, GenesisChain DEF LiveAt
  <2>. QED BY <2>1, <2>2, PoolAtZero
<1>2. ASSUME NEW a \in Blocks, a /= Genesis, Parent[a] \in T PROVE a \in T
  <2>1. /\ Height[a] \in Nat \ {0} /\ Height[a] - 1 = Height[Parent[a]] /\ Parent[a] \in Blocks
        /\ Height[Parent[a]] \in Nat
    BY <1>2, TreeFacts
  <2>2. PICK d : d = SyncedDiffs(a) OBVIOUS
  <2>3. PICK e \in Seq(Diff) : e = SyncedDiffs(Parent[a]) BY <2>1, SyncedDiffsFacts
  <2>4. PICK x \in Diff : x = DiffOf(a) BY <1>2, DiffFacts
  <2>5. d = Append(e, x) /\ Len(e) = Height[a] - 1
    BY <1>2, <2>1, <2>2, <2>3, <2>4, SyncedDiffsFacts
  <2>6. d[Height[a]] = x /\ \A i \in 1 .. Height[a] - 1 : d[i] = e[i] BY <2>1, <2>5
  <2>7. x.in \subseteq Tickets BY <2>4 DEF Diff
  <2>8. PoolAt(d, Height[a]) = applyDiff(PoolAt(d, Height[a] - 1), x.in, x.out)
    BY <2>1, <2>6, <2>7, PoolAtStep
  <2>9. PoolAt(d, Height[a] - 1) = PoolAt(e, Height[a] - 1) BY <2>1, <2>6, PoolAtSame
  <2>10. PoolAt(e, Height[a] - 1) = LiveAt(Parent[a]) BY <1>2, <2>1, <2>3
  <2>. QED BY <1>2, <2>2, <2>4, <2>8, <2>9, <2>10, DiffFacts
<1>. HIDE DEF T
<1>3. \A a \in Blocks : a \in T BY <1>1, <1>2, TreeInduction
<1>. QED BY <1>3 DEF T

\* So are the pools below: PoolAtHeight is exact after a fresh sync.
LEMMA PoolsAreLive ==
    ASSUME NEW b \in Blocks, NEW h \in 0 .. Height[b]
    PROVE  /\ PoolAt(SyncedDiffs(b), h) = Synced[b][h + 1].live
           /\ PoolAt(SyncedDiffs(b), h) = LiveAt(Path[b][h + 1])
<1>1. Height[b] \in Nat /\ h + 1 \in 1 .. Height[b] + 1 BY TreeFacts
<1>2. PICK a : a = Path[b][h + 1] OBVIOUS
<1>3. a \in Blocks /\ a \in On(b) /\ Height[a] = h BY <1>1, <1>2, OnPath
<1>4. \A i \in 1 .. h : SyncedDiffs(a)[i] = SyncedDiffs(b)[i] BY <1>3, SyncedDiffsOn
<1>5. PoolAt(SyncedDiffs(a), h) = PoolAt(SyncedDiffs(b), h) BY <1>4, PoolAtSame
<1>6. Synced[b][h + 1] = BestNode(Synced[a]) BY <1>1, <1>2, SyncedFacts DEF SyncedOK
<1>. QED BY <1>2, <1>3, <1>5, <1>6, PoolIsLive DEF LiveAt

\* AdvanceToTip finds nothing wrong with them.
LEMMA NoBadDiffs == ASSUME NEW b \in Blocks PROVE BadDiffs(SyncedDiffs(b)) = {}
<1>1. SUFFICES ASSUME NEW h \in 1 .. Len(SyncedDiffs(b))
               PROVE  Cardinality(PoolAt(SyncedDiffs(b), h)) =
                        Cardinality(PoolAt(SyncedDiffs(b), h - 1))
                          + Cardinality(SyncedDiffs(b)[h].in) - Cardinality(SyncedDiffs(b)[h].out)
  BY DEF BadDiffs
<1>2. Height[b] \in Nat /\ Len(SyncedDiffs(b)) = Height[b] BY TreeFacts, SyncedDiffsFacts
<1>3. h \in 1 .. Height[b] /\ h \in 0 .. Height[b] /\ h - 1 \in 0 .. Height[b] /\ (h - 1) + 1 = h
      /\ h + 1 \in 1 .. Height[b] + 1 /\ h + 1 > 1 /\ (h + 1) - 1 = h
  BY <1>1, <1>2
<1>4. PICK a : a = Path[b][h + 1] OBVIOUS
<1>5. a \in Blocks /\ a /= Genesis /\ Parent[a] = Path[b][h] /\ Parent[a] \in Blocks
  <2>1. a \in Blocks /\ a /= Genesis /\ Parent[a] = Path[b][h]
    BY <1>3, <1>4, PathsOnPath DEF PathIsPaths
  <2>. QED BY <2>1, TreeFacts
<1>6. PICK live : live = LiveAt(Parent[a]) OBVIOUS
<1>7. PICK in : in = Matured(a) OBVIOUS
<1>8. PICK out : out = DiffOf(a).out OBVIOUS
<1>9. PoolAt(SyncedDiffs(b), h - 1) = live BY <1>3, <1>5, <1>6, PoolsAreLive
<1>10. SyncedDiffs(b)[h].in = in /\ SyncedDiffs(b)[h].out = out
  BY <1>3, <1>4, <1>5, <1>7, <1>8, SyncedDiffsFacts, DiffFacts
<1>11. PoolAt(SyncedDiffs(b), h) = (live \ out) \cup in
  BY <1>3, <1>4, <1>5, <1>6, <1>7, <1>8, PoolsAreLive, DiffFacts
<1>12. in \cap live = {} /\ out \subseteq live BY <1>5, <1>6, <1>7, <1>8, DiffFacts
<1>13. IsFiniteSet(live) /\ IsFiniteSet(in)
  BY <1>5, <1>6, <1>7, SyncedFacts, MaturedFacts DEF SyncedOK
<1>14. IsFiniteSet(live \ out) /\ Cardinality(live \ out) = Cardinality(live) - Cardinality(out)
  <2>1. live \cap out = out BY <1>12
  <2>. QED BY <2>1, <1>13, FS_Difference
<1>15. Cardinality((live \ out) \cup in) =
         Cardinality(live \ out) + Cardinality(in) - Cardinality((live \ out) \cap in)
  BY <1>13, <1>14, FS_Union
<1>16. Cardinality((live \ out) \cap in) = 0
  <2>1. (live \ out) \cap in = {} BY <1>12
  <2>. QED BY <2>1, FS_EmptySet
<1>17. Cardinality(live) \in Nat /\ Cardinality(out) \in Nat /\ Cardinality(in) \in Nat
  BY <1>12, <1>13, FS_Subset, FS_CardinalityType
<1>. QED BY <1>9, <1>10, <1>11, <1>14, <1>15, <1>16, <1>17

-----------------------------------------------------------------------------
(* The searches at start-up and in a reorganization. *)

\* A chain within another has no orphaned tip.
LEMMA OrphanedFacts ==
    ASSUME NEW a \in Blocks, NEW b \in Blocks
    PROVE  /\ OrphanedTipLength(Path[a], Path[b]) \in -1 .. Height[a]
           /\ a \in On(b) => OrphanedTipLength(Path[a], Path[b]) = 0
<1>. DEFINE n == Height[a]
            body(f) == [h \in 0 .. Len(Path[a]) - 1 |->
                          IF h + 1 > Len(Path[b]) THEN -1
                          ELSE IF SameAt(Path[a], Path[b], h) THEN Len(Path[a]) - 1 - h
                          ELSE IF h = 0 THEN -1
                          ELSE f[h - 1]]
            from == CHOOSE f : f = body(f)
            first == IF 0 + 1 > Len(Path[b]) THEN -1
                     ELSE IF SameAt(Path[a], Path[b], 0) THEN n - 0 ELSE -1
            G == [x \in (1 .. n) \X (-1 .. n) |->
                    IF x[1] + 1 > Len(Path[b]) THEN -1
                    ELSE IF SameAt(Path[a], Path[b], x[1]) THEN n - x[1]
                    ELSE x[2]]
<1>1. /\ n \in Nat /\ Len(Path[a]) - 1 = n /\ Path[a][n + 1] = a
      /\ Height[b] \in Nat /\ Len(Path[b]) = Height[b] + 1
  BY TreeFacts
<1>2. OrphanedTipLength(Path[a], Path[b]) = from[n] BY <1>1 DEF OrphanedTipLength
<1>3. first \in -1 .. n BY <1>1
<1>4. G \in [(1 .. n) \X (-1 .. n) -> -1 .. n] BY <1>1
<1>5. PICK f : Runs(f, n, -1 .. n, first, G)
  <2>. HIDE DEF n, first, G
  <2>. QED BY <1>1, <1>3, <1>4, Iterates
<1>6. f = body(f)
  <2>1. f \in [0 .. n -> -1 .. n] /\ f[0] = first /\ \A i \in 1 .. n : f[i] = G[<<i, f[i - 1]>>]
    BY <1>5 DEF Runs
  <2>2. \A i \in 1 .. n : f[i - 1] \in -1 .. n BY <1>1, <2>1
  <2>3. \A i \in 1 .. n : f[i] = IF i + 1 > Len(Path[b]) THEN -1
                                 ELSE IF SameAt(Path[a], Path[b], i) THEN n - i
                                 ELSE f[i - 1]
    BY <2>1, <2>2
  <2>4. \A i \in 0 .. n : f[i] = body(f)[i]
    <3>. TAKE i \in 0 .. n
    <3>1. CASE i = 0 BY <3>1, <1>1, <2>1
    <3>2. CASE i \in 1 .. n BY <3>2, <1>1, <2>3
    <3>. QED BY <3>1, <3>2, <1>1
  <2>. HIDE DEF n
  <2>5. DOMAIN f = 0 .. n /\ DOMAIN body(f) = 0 .. n BY <1>1, <2>1
  <2>. QED BY <2>1, <2>4, <2>5, <1>1
<1>7. from = body(from) BY <1>6
<1>. HIDE DEF from
<1>8. \A i \in 0 .. n : from[i] \in -1 .. n
  <2>. DEFINE T == {i \in Nat : i <= n => from[i] \in -1 .. n}
  <2>1. 0 \in T BY <1>1, <1>7
  <2>2. ASSUME NEW i \in Nat, i \in T PROVE i + 1 \in T
    <3>1. SUFFICES ASSUME i + 1 <= n PROVE from[i + 1] \in -1 .. n OBVIOUS
    <3>2. from[i] \in -1 .. n BY <2>2, <3>1, <1>1
    <3>3. from[i + 1] \in {-1, n - (i + 1), from[i]} BY <1>1, <1>7, <3>1
    <3>. QED BY <3>1, <3>2, <3>3, <1>1
  <2>. HIDE DEF T
  <2>3. \A i \in Nat : i \in T BY <2>1, <2>2, Induction
  <2>. QED BY <2>3, <1>1 DEF T
<1>9. a \in On(b) => from[n] = 0
  <2>1. SUFFICES ASSUME a \in On(b) PROVE from[n] = 0 OBVIOUS
  <2>2. n <= Height[b] /\ Path[b][n + 1] = a BY <2>1, OnFacts
  <2>3. SameAt(Path[a], Path[b], n) BY <2>2, <1>1 DEF SameAt
  <2>4. ~(n + 1 > Len(Path[b])) /\ n \in 0 .. Len(Path[a]) - 1 BY <2>2, <1>1
  <2>5. from[n] = IF n + 1 > Len(Path[b]) THEN -1
                  ELSE IF SameAt(Path[a], Path[b], n) THEN Len(Path[a]) - 1 - n
                  ELSE IF n = 0 THEN -1
                  ELSE from[n - 1]
    <3>. HIDE DEF n
    <3>. QED BY <2>4, <1>7
  <2>6. Len(Path[a]) - 1 - n = 0
    <3>. HIDE DEF n
    <3>. QED BY <1>1
  <2>. QED BY <2>3, <2>4, <2>5, <2>6
<1>10. n \in 0 .. n BY <1>1
<1>. QED BY <1>2, <1>8, <1>9, <1>10

\* Where a branch parts from another that it does not contain.
LEMMA PartFacts ==
    ASSUME NEW a \in Blocks, NEW b \in Blocks, Reorganizes(a, b)
    PROVE  /\ PartAt(a, b) \in 1 .. Height[b] /\ PartAt(a, b) <= Height[a]
           /\ Path[a][PartAt(a, b)] = Path[b][PartAt(a, b)]
<1>. DEFINE Parts(h) == h > Height[a] \/ Path[a][h + 1] /= Path[b][h + 1]
            U == {h \in Nat : h <= Height[b] /\ Parts(h)}
<1>1. /\ Height[a] \in Nat /\ Height[b] \in Nat /\ Height[b] >= Height[a] /\ a \notin On(b)
      /\ Path[a][Height[a] + 1] = a
  BY TreeFacts DEF Reorganizes
<1>2. Height[a] \in U
  <2>1. Height[a] + 1 \in 1 .. Height[b] + 1 BY <1>1
  <2>2. Path[b][Height[a] + 1] /= a BY <2>1, <1>1, OnPath
  <2>. QED BY <2>2, <1>1
<1>3. PICK k \in U : \A y \in U : ~(<<y, k>> \in OpToRel(<, Nat))
  <2>1. IsWellFoundedOn(OpToRel(<, Nat), Nat) BY NatLessThanWellFounded
  <2>2. U \subseteq Nat /\ U /= {} BY <1>2
  <2>. HIDE DEF U
  <2>. QED BY <2>1, <2>2, WFMin
<1>4. k \in 0 .. Height[b] /\ Parts(k) /\ \A y \in 0 .. k - 1 : ~Parts(y)
  <2>1. \A y \in 0 .. k - 1 : <<y, k>> \in OpToRel(<, Nat) /\ y \in Nat /\ y <= Height[b]
    BY <1>1 DEF OpToRel
  <2>2. \A y \in 0 .. k - 1 : y \notin U BY <2>1, <1>3
  <2>3. k \in Nat /\ k <= Height[b] /\ Parts(k) OBVIOUS
  <2>4. \A y \in 0 .. k - 1 : y \in Nat /\ y <= Height[b] BY <1>1, <2>3
  <2>. QED BY <2>2, <2>3, <2>4, <1>1
<1>5. \A y \in 0 .. k - 1 : y <= Height[a] /\ Path[a][y + 1] = Path[b][y + 1] BY <1>1, <1>4
<1>6. PICK h : h = PartAt(a, b) OBVIOUS
<1>7. /\ h \in 0 .. Height[b] /\ Parts(h)
      /\ \A y \in 0 .. h - 1 : y <= Height[a] /\ Path[a][y + 1] = Path[b][y + 1]
  <2>1. \E x \in 0 .. Height[b] :
          /\ x > Height[a] \/ Path[a][x + 1] /= Path[b][x + 1]
          /\ \A y \in 0 .. x - 1 : y <= Height[a] /\ Path[a][y + 1] = Path[b][y + 1]
    BY <1>4, <1>5
  <2>. QED BY <2>1, <1>6 DEF PartAt
<1>8. ~Parts(0)
  <2>1. 1 \in 1 .. Height[a] + 1 /\ 1 \in 1 .. Height[b] + 1 BY <1>1
  <2>2. /\ Path[a][1] \in Blocks /\ Height[Path[a][1]] = 0
        /\ Path[b][1] \in Blocks /\ Height[Path[b][1]] = 0
    BY <2>1, OnPath
  <2>3. \A c \in Blocks : Height[c] = 0 => c = Genesis
    <3>. TAKE c \in Blocks
    <3>1. c /= Genesis => Height[c] = Height[Parent[c]] + 1 /\ Height[Parent[c]] \in Nat
      BY TreeFacts
    <3>. QED BY <3>1
  <2>4. Path[a][1] = Path[b][1] BY <2>2, <2>3
  <2>. QED BY <2>4, <1>1
<1>9. h /= 0 BY <1>7, <1>8
<1>10. h <= Height[a]
  <2>1. ~(Height[a] \in 0 .. h - 1) BY <1>2, <1>7
  <2>. QED BY <2>1, <1>1, <1>7
<1>11. h - 1 \in 0 .. h - 1 /\ (h - 1) + 1 = h /\ h \in 1 .. Height[b] BY <1>1, <1>7, <1>9
<1>12. Path[a][h] = Path[b][h] BY <1>7, <1>11
<1>. QED BY <1>6, <1>10, <1>11, <1>12

\* Parts of sequences.
LEMMA Prefix ==
    ASSUME NEW S, NEW s \in Seq(S), NEW n \in 0 .. Len(s)
    PROVE  /\ SubSeq(s, 1, n) \in Seq(S) /\ Len(SubSeq(s, 1, n)) = n
           /\ \A i \in 1 .. n : SubSeq(s, 1, n)[i] = s[i]
OBVIOUS

LEMMA Suffix ==
    ASSUME NEW S, NEW s \in Seq(S), NEW m \in 1 .. Len(s) + 1
    PROVE  /\ SubSeq(s, m, Len(s)) \in Seq(S) /\ Len(SubSeq(s, m, Len(s))) = Len(s) - m + 1
           /\ \A i \in 1 .. Len(s) - m + 1 : SubSeq(s, m, Len(s))[i] = s[m + i - 1]
OBVIOUS

-----------------------------------------------------------------------------
(* In every scenario: types, heights and what is queued. *)

Best == BestNode(chain).block

\* Blocks are announced after dcrd has them.
InboxOK ==
    \A i \in 1 .. Len(inbox) :
      /\ Height[inbox[i].new] <= Height[tip]
      /\ inbox[i].type = "block" => inbox[i].new /= Genesis /\ Parent[inbox[i].new] = inbox[i].old
      /\ inbox[i].type = "reorg" => has("reorgs") /\ Reorganizes(inbox[i].old, inbox[i].new)
JobOK ==
    /\ Height[job.new] <= Height[tip]
    /\ \A i \in 1 .. Len(job.conn) : job.conn[i] /= Genesis /\ Height[job.conn[i]] <= Height[tip]

\* What the process does in a scenario without stops or without reorganizations.
Modes ==
    /\ ~has("crashes") =>
         pc \in {"idle", "disconnect", "connect", "append", "store", "down"} /\ ~job.sync
    /\ ~has("reorgs") => pc /= "disconnect"

\* A diff is on disk when it is in memory, and memory is one behind the node only
\* between the two commits.
HeightsOK ==
    /\ Len(diffs) <= Len(diffDB)
    /\ pc \notin {"down", "load", "append"} => Len(diffs) = NodeHeight(chain)
    /\ pc = "append" => Len(diffs) + 1 = NodeHeight(chain)
    /\ pc = "load" => diffs = diffDB
    /\ pc = "down" => diffs = <<>>

Basic == TypeOK /\ InboxOK /\ JobOK /\ Modes /\ HeightsOK

LEMMA TypeFacts ==
    ASSUME TypeOK
    PROVE  /\ chain \in Chains /\ Drawn(chain) /\ Len(chain) \in Nat /\ NodeHeight(chain) \in Nat
           /\ Len(chain) = NodeHeight(chain) + 1 /\ Best \in Blocks
           /\ Height[tip] \in Nat /\ Height[chainDB] \in Nat
           /\ env.maxReorgs \in Nat /\ env.maxStops \in Nat
<1>1. chain \in Chains /\ Drawn(chain) BY DEF TypeOK, Chains, Drawn
<1>2. env \in [kinds : SUBSET EnvKinds, maxReorgs : Nat, maxStops : Nat]
  BY ScenariosAssumption DEF TypeOK
<1>3. tip \in Blocks /\ chainDB \in Blocks BY DEF TypeOK
<1>4. Height[tip] \in Nat /\ Height[chainDB] \in Nat BY <1>3, TreeFacts
<1>5. /\ Len(chain) \in Nat /\ NodeHeight(chain) \in Nat
      /\ Len(chain) = NodeHeight(chain) + 1 /\ Best \in Blocks
  BY <1>1, ChainFacts DEF Best
<1>. QED BY <1>1, <1>2, <1>4, <1>5

\* A process that ends leaves the databases as they were.
LEMMA EndsFacts ==
    ASSUME Basic, Ends, UNCHANGED <<env, tip, chain, diffDB>>, chainDB' \in Blocks,
           happened' \in [reorgs : 0 .. env.maxReorgs, stops : 0 .. env.maxStops,
                          misplaced : BOOLEAN]
    PROVE  Basic'
<1>1. TypeOK /\ Modes BY DEF Basic
<1>2. NoJob \in [sync : BOOLEAN, new : Blocks, to : Nat, conn : Seq(Blocks), diff : Diff]
  BY TreeAssumption DEF NoJob, Diff
<1>3. TypeOK' BY <1>1, <1>2 DEF TypeOK, Ends, PCs
<1>4. InboxOK' BY DEF InboxOK, Ends
<1>5. Height[Genesis] = 0 BY TreeAssumption, TreeFacts
<1>6. Height[tip] \in Nat BY <1>1, TypeFacts
<1>7. JobOK' BY <1>5, <1>6 DEF JobOK, Ends, NoJob
<1>8. Modes' BY <1>1 DEF Modes, Ends, NoJob, has
<1>9. HeightsOK' BY <1>1 DEF HeightsOK, Ends, TypeOK
<1>. QED BY <1>3, <1>4, <1>7, <1>8, <1>9 DEF Basic

\* A block is disconnected, or the process panics.
Popped ==
    /\ Parent[Best] \in Blocks /\ Height[Parent[Best]] = NodeHeight(chain) - 1
    /\ chain' \in Chains /\ Drawn(chain') /\ Len(chain') = Len(chain) - 1
    /\ \A i \in 1 .. Len(chain) - 1 :
         chain'[i] = IF i = Len(chain) - 1 THEN [chain[i] EXCEPT !.block = Parent[Best]] ELSE chain[i]
    /\ diffs' \in Seq(Diff)
    /\ Len(diffs') = IF Len(diffs) < NodeHeight(chain) THEN Len(diffs) ELSE NodeHeight(chain) - 1
    /\ \A i \in 1 .. Len(diffs') : diffs'[i] = diffs[i]
    /\ liveTicketCache' \subseteq Tickets
    /\ UNCHANGED <<inbox, blockCache, pc, job>>

\* disconnectBlock pops a node or panics.
LEMMA DisconnectFacts ==
    ASSUME TypeOK, NEW neglect \in BOOLEAN, NodeHeight(chain) > 0, disconnectBlock(neglect)
    PROVE  \/ Popped
           \/ Ends /\ UNCHANGED chain
<1>1. SUFFICES ASSUME ~(Ends /\ UNCHANGED chain) PROVE Popped OBVIOUS
<1>. DEFINE n == Len(chain) - 1
            parent == Parent[Best]
<1>2. /\ Height[parent] = NodeHeight(chain) - 1
      /\ diffs' = SubSeq(diffs, 1, IF Len(diffs) < n - 1 THEN Len(diffs) ELSE n - 1)
      /\ IF neglect THEN UNCHANGED liveTicketCache ELSE undoDiffs(n - 1)
      /\ chain' = [SubSeq(chain, 1, n) EXCEPT ![n].block = parent]
      /\ UNCHANGED <<inbox, blockCache, pc, job>>
  BY <1>1 DEF disconnectBlock, Best
<1>3. chain \in Chains /\ Drawn(chain) /\ n = NodeHeight(chain) /\ n \in Nat /\ n >= 1 /\ Best \in Blocks
  BY TypeFacts
<1>4. parent \in Blocks BY <1>3, TreeAssumption
<1>5. PICK p : p = parent OBVIOUS
<1>6. PICK m : m = n OBVIOUS
<1>7. chain \in Seq(Node) /\ m \in 0 .. Len(chain) /\ m >= 1 /\ m = Len(chain) - 1
  BY <1>3, <1>6 DEF Chains
<1>8. chain' = [SubSeq(chain, 1, m) EXCEPT ![m].block = p] BY <1>2, <1>5, <1>6
<1>9. /\ SubSeq(chain, 1, m) \in Seq(Node) /\ Len(SubSeq(chain, 1, m)) = m
      /\ \A i \in 1 .. m : SubSeq(chain, 1, m)[i] = chain[i]
  BY <1>7, Prefix
<1>10. PICK c : c = SubSeq(chain, 1, m) OBVIOUS
<1>11. /\ chain' = [c EXCEPT ![m] = [c[m] EXCEPT !.block = p]] /\ c \in Seq(Node) /\ Len(c) = m
       /\ \A i \in 1 .. m : c[i] = chain[i]
  BY <1>8, <1>9, <1>10
<1>12. [c[m] EXCEPT !.block = p] \in Node
  <2>1. c[m] \in Node BY <1>7, <1>11
  <2>2. p \in Blocks BY <1>4, <1>5
  <2>. QED BY <2>1, <2>2 DEF Node
<1>13. chain' \in Seq(Node) /\ Len(chain') = m
  <2>. DEFINE x == [c[m] EXCEPT !.block = p]
  <2>1. x \in Node /\ chain' = [c EXCEPT ![m] = x] BY <1>11, <1>12
  <2>. HIDE DEF x
  <2>. QED BY <1>7, <1>11, <2>1
<1>14. \A i \in 1 .. m : chain'[i] = IF i = m THEN [chain[i] EXCEPT !.block = p] ELSE chain[i]
  BY <1>7, <1>11
<1>15. chain' \in Chains BY <1>7, <1>13 DEF Chains
<1>16. \A i \in 1 .. m : chain[i].winners \subseteq chain[i].live /\ chain[i] \in Node
  BY <1>3, <1>7 DEF Drawn
<1>17. Drawn(chain') BY <1>13, <1>14, <1>16 DEF Drawn, Node
<1>18. diffs \in Seq(Diff) BY DEF TypeOK
<1>19. /\ diffs' \in Seq(Diff)
       /\ Len(diffs') = IF Len(diffs) < m THEN Len(diffs) ELSE m - 1
       /\ \A i \in 1 .. Len(diffs') : diffs'[i] = diffs[i]
  <2>1. PICK k : k = IF Len(diffs) < m - 1 THEN Len(diffs) ELSE m - 1 OBVIOUS
  <2>2. Len(diffs) \in Nat BY <1>18
  <2>3. k \in 0 .. Len(diffs) /\ k = IF Len(diffs) < m THEN Len(diffs) ELSE m - 1
    BY <2>1, <2>2, <1>7
  <2>4. diffs' = SubSeq(diffs, 1, k) BY <2>1, <1>2, <1>6
  <2>. QED BY <2>3, <2>4, <1>18, Prefix
<1>20. liveTicketCache' \subseteq Tickets
  <2>1. CASE neglect BY <2>1, <1>2 DEF TypeOK
  <2>2. CASE ~neglect
    <3>1. undoDiffs(n - 1) BY <2>2, <1>2
    <3>. HIDE DEF n
    <3>. QED BY <3>1, Zenon DEF undoDiffs
  <2>. QED BY <2>1, <2>2
<1>21. NodeHeight(chain) = m /\ Len(chain) - 1 = m BY <1>3, <1>6
<1>. HIDE DEF n
<1>. QED BY <1>2, <1>4, <1>5, <1>13, <1>14, <1>15, <1>17, <1>19, <1>20, <1>21 DEF Popped

\* Every step keeps Basic, disconnecting first.
LEMMA PopBasic ==
    ASSUME Basic, Popped, UNCHANGED <<env, tip, happened, chainDB, diffDB>>, NodeHeight(chain) > 0,
           pc \in {"disconnect", "load", "recover", "rewind"},
           pc = "load" => NodeHeight(chain) > Len(diffs)
    PROVE  Basic'
<1>1. TypeOK /\ InboxOK /\ JobOK /\ Modes /\ HeightsOK BY DEF Basic
<1>2. /\ chain' \in Seq(Node) /\ chain' /= <<>> /\ diffs' \in Seq(Diff)
      /\ \A i \in DOMAIN chain' : chain'[i].winners \subseteq chain'[i].live
      /\ liveTicketCache' \subseteq Tickets
      /\ UNCHANGED <<inbox, blockCache, pc, job>>
  BY DEF Popped, Chains, Drawn
<1>3. TypeOK' BY <1>1, <1>2 DEF TypeOK
<1>4. InboxOK' /\ JobOK' /\ Modes' BY <1>1, <1>2 DEF InboxOK, JobOK, Modes, has
<1>5. /\ Len(diffs) \in Nat /\ Len(diffDB) \in Nat /\ Len(chain) \in Nat
      /\ NodeHeight(chain) \in Nat /\ NodeHeight(chain) = Len(chain) - 1
  BY <1>1, TypeFacts DEF TypeOK, NodeHeight
<1>6. /\ NodeHeight(chain') = NodeHeight(chain) - 1 /\ pc' = pc /\ diffDB' = diffDB
      /\ Len(diffs') = IF Len(diffs) < NodeHeight(chain) THEN Len(diffs) ELSE NodeHeight(chain) - 1
      /\ diffs' \in Seq(Diff) /\ \A i \in 1 .. Len(diffs') : diffs'[i] = diffs[i]
  BY <1>5 DEF Popped, NodeHeight
<1>7. CASE pc = "load"
  <2>1. Len(diffs') = Len(diffs) BY <1>6, <1>7
  <2>2. diffs \in Seq(Diff) /\ diffs = diffDB BY <1>1, <1>7 DEF TypeOK, HeightsOK
  <2>3. diffs' = diffs BY <2>1, <2>2, <1>6
  <2>. QED BY <2>2, <2>3, <1>1, <1>3, <1>4, <1>6, <1>7 DEF HeightsOK, Basic
<1>8. CASE pc \in {"disconnect", "recover", "rewind"}
  <2>1. Len(diffs) = NodeHeight(chain) /\ Len(diffs) <= Len(diffDB) BY <1>1, <1>8 DEF HeightsOK
  <2>2. Len(diffs') = NodeHeight(chain') /\ Len(diffs') <= Len(diffDB') BY <2>1, <1>5, <1>6
  <2>3. HeightsOK' BY <2>2, <1>6, <1>8 DEF HeightsOK
  <2>. QED BY <2>3, <1>3, <1>4 DEF Basic
<1>. QED BY <1>7, <1>8

LEMMA DisconnectsBasic ==
    ASSUME Basic, NEW neglect \in BOOLEAN, NodeHeight(chain) > 0, disconnectBlock(neglect),
           UNCHANGED <<env, tip, happened, chainDB, diffDB>>,
           pc \in {"disconnect", "load", "recover", "rewind"},
           pc = "load" => NodeHeight(chain) > Len(diffs)
    PROVE  Basic'
<1>1. TypeOK BY DEF Basic
<1>2. CASE Popped BY <1>2, PopBasic
<1>3. CASE Ends /\ UNCHANGED chain
  <2>1. happened' \in [reorgs : 0 .. env.maxReorgs, stops : 0 .. env.maxStops, misplaced : BOOLEAN]
    BY <1>1 DEF TypeOK
  <2>2. chainDB' \in Blocks BY <1>1 DEF TypeOK
  <2>. QED BY <2>1, <2>2, <1>3, EndsFacts
<1>. QED BY <1>1, <1>2, <1>3, DisconnectFacts

LEMMA TipBasic ==
    ASSUME Basic, NEW b \in Blocks, dcrdConnects(b) \/ dcrdReorganizes(b)
    PROVE  Basic'
<1>1. TypeOK /\ InboxOK /\ JobOK /\ Modes /\ HeightsOK BY DEF Basic
<1>2. /\ tip' = b /\ Height[tip] \in Nat /\ Height[b] \in Nat /\ Height[b] >= Height[tip]
      /\ UNCHANGED <<env, chainDB, chain, diffDB, mem, pc, job>>
  BY <1>1, TypeFacts, TreeFacts DEF dcrdConnects, dcrdReorganizes, Reorganizes
<1>3. happened' \in [reorgs : 0 .. env.maxReorgs, stops : 0 .. env.maxStops, misplaced : BOOLEAN]
  <2>1. happened \in [reorgs : 0 .. env.maxReorgs, stops : 0 .. env.maxStops, misplaced : BOOLEAN]
    BY <1>1 DEF TypeOK
  <2>2. CASE dcrdConnects(b) BY <2>1, <2>2 DEF dcrdConnects
  <2>3. CASE dcrdReorganizes(b)
    <3>1. env.maxReorgs \in Nat BY <1>1, TypeFacts
    <3>. QED BY <3>1, <2>1, <2>3 DEF dcrdReorganizes
  <2>. QED BY <2>2, <2>3
<1>4. PICK m \in Message :
        /\ inbox' = inbox \/ inbox' = Append(inbox, m)
        /\ m.new = b
        /\ m.type = "block" => m.new /= Genesis /\ Parent[m.new] = m.old
        /\ m.type = "reorg" => has("reorgs") /\ Reorganizes(m.old, m.new)
  <2>1. tip \in Blocks BY <1>1 DEF TypeOK
  <2>2. CASE dcrdConnects(b)
    <3>. DEFINE m == [type |-> "block", old |-> tip, new |-> b]
    <3>1. m \in Message BY <2>1 DEF Message
    <3>. QED BY <3>1, <2>2 DEF dcrdConnects, Notify
  <2>3. CASE dcrdReorganizes(b)
    <3>. DEFINE m == [type |-> "reorg", old |-> tip, new |-> b]
    <3>1. m \in Message BY <2>1 DEF Message
    <3>. QED BY <3>1, <2>3 DEF dcrdReorganizes, Notify
  <2>. QED BY <2>2, <2>3
<1>5. inbox \in Seq(Message) BY <1>1 DEF TypeOK
<1>6. inbox' \in Seq(Message) BY <1>4, <1>5
<1>7. TypeOK' BY <1>1, <1>2, <1>3, <1>6 DEF TypeOK, mem
<1>8. InboxOK'
  <2>1. SUFFICES ASSUME NEW i \in 1 .. Len(inbox')
                 PROVE  /\ Height[inbox'[i].new] <= Height[b]
                        /\ inbox'[i].type = "block" =>
                             inbox'[i].new /= Genesis /\ Parent[inbox'[i].new] = inbox'[i].old
                        /\ inbox'[i].type = "reorg" =>
                             has("reorgs") /\ Reorganizes(inbox'[i].old, inbox'[i].new)
    BY <1>2 DEF InboxOK, has
  <2>2. \/ i \in 1 .. Len(inbox) /\ inbox'[i] = inbox[i]
        \/ inbox'[i] = m
    BY <1>4, <1>5
  <2>3. CASE inbox'[i] = m BY <2>3, <1>2, <1>4
  <2>4. CASE i \in 1 .. Len(inbox) /\ inbox'[i] = inbox[i]
    <3>0. inbox[i] \in Message BY <2>4, <1>5
    <3>1. inbox[i].new \in Blocks BY <3>0 DEF Message
    <3>2. Height[inbox[i].new] \in Nat BY <3>1, TreeFacts
    <3>. QED BY <3>2, <2>4, <1>1, <1>2 DEF InboxOK
  <2>. QED BY <2>2, <2>3, <2>4
<1>9. JobOK'
  <2>1. job' = job /\ job.new \in Blocks /\ job.conn \in Seq(Blocks) BY <1>1, <1>2 DEF TypeOK
  <2>2. \A i \in 1 .. Len(job.conn) : job.conn[i] \in Blocks BY <2>1
  <2>3. \A x \in Blocks : Height[x] \in Nat BY TreeFacts
  <2>4. Height[job.new] \in Nat /\ \A i \in 1 .. Len(job.conn) : Height[job.conn[i]] \in Nat
    BY <2>1, <2>2, <2>3
  <2>5. Height[job.new] <= Height[b] BY <2>4, <1>1, <1>2 DEF JobOK
  <2>6. ASSUME NEW i \in 1 .. Len(job.conn)
        PROVE  job.conn[i] /= Genesis /\ Height[job.conn[i]] <= Height[b]
    BY <2>4, <1>1, <1>2 DEF JobOK
  <2>. QED BY <2>1, <2>5, <2>6, <1>2 DEF JobOK
<1>10. Modes' /\ HeightsOK' BY <1>1, <1>2 DEF Modes, HeightsOK, has, mem
<1>. QED BY <1>7, <1>8, <1>9, <1>10 DEF Basic

LEMMA NoJobFacts ==
    /\ NoJob \in [sync : BOOLEAN, new : Blocks, to : Nat, conn : Seq(Blocks), diff : Diff]
    /\ NoJob.new = Genesis /\ NoJob.conn = <<>> /\ ~NoJob.sync /\ Height[Genesis] = 0
    /\ NoJob.diff \in Diff
<1>1. Genesis \in Blocks BY TreeAssumption
<1>2. Height[Genesis] = 0 BY <1>1, TreeFacts
<1>. QED BY <1>1, <1>2 DEF NoJob, Diff

\* What the notifier's message becomes.
Taken(m) ==
    /\ m = Head(inbox) /\ m \in Message /\ inbox \in Seq(Message) /\ inbox /= <<>>
    /\ inbox' = Tail(inbox)
    /\ job' \in [sync : BOOLEAN, new : Blocks, to : Nat, conn : Seq(Blocks), diff : Diff]
    /\ job'.new = m.new /\ ~job'.sync /\ Height[m.new] <= Height[tip]
    /\ \/ /\ m.type = "block" /\ m.new /= Genesis /\ Parent[m.new] = m.old
          /\ job'.conn = <<m.new>> /\ pc' = "connect"
       \/ /\ m.type = "reorg" /\ has("reorgs") /\ Reorganizes(m.old, m.new)
          /\ job'.conn = SubSeq(Path[m.new], PartAt(m.old, m.new) + 1, Len(Path[m.new]))
          /\ job'.to = PartAt(m.old, m.new) - 1 /\ pc' = "disconnect"

\* A message names blocks that dcrd has.
LEMMA ReceiveFacts == ASSUME Basic, Receive PROVE \E m : Taken(m)
<1>1. TypeOK /\ InboxOK BY DEF Basic
<1>2. inbox \in Seq(Message) /\ inbox /= <<>> BY <1>1 DEF TypeOK, Receive
<1>3. PICK m : m = Head(inbox) OBVIOUS
<1>4. m = inbox[1] /\ 1 \in 1 .. Len(inbox) /\ m \in Message BY <1>2, <1>3
<1>5. /\ Height[m.new] <= Height[tip]
      /\ m.type = "block" => m.new /= Genesis /\ Parent[m.new] = m.old
      /\ m.type = "reorg" => has("reorgs") /\ Reorganizes(m.old, m.new)
  BY <1>1, <1>4 DEF InboxOK
<1>6. m.new \in Blocks /\ m.old \in Blocks /\ m.type \in {"block", "reorg"} BY <1>4 DEF Message
<1>7. PICK newChain : newChain = IF m.type = "block" THEN <<m.new>>
                                 ELSE CommonAncestor(Parent, m.new, m.old).chainA
  OBVIOUS
<1>8. /\ job' = [NoJob EXCEPT !.new = m.new, !.conn = newChain,
                              !.to = AncestorHeight(m.new, newChain)]
      /\ pc' = IF m.type = "block" THEN "connect" ELSE "disconnect"
      /\ inbox' = Tail(inbox)
  BY <1>3, <1>7 DEF Receive
<1>9. Height[m.new] \in Nat /\ Len(Path[m.new]) = Height[m.new] + 1 /\ Path[m.new] \in Seq(Blocks)
  BY <1>6, TreeFacts
<1>10. CASE m.type = "block"
  <2>1. newChain = <<m.new>> /\ m.new /= Genesis BY <1>5, <1>7, <1>10
  <2>2. Height[m.new] >= 1
    <3>1. Height[m.new] = Height[Parent[m.new]] + 1 /\ Height[Parent[m.new]] \in Nat
      BY <1>6, <2>1, TreeFacts
    <3>. QED BY <3>1
  <2>3. newChain \in Seq(Blocks) /\ Len(newChain) = 1 BY <2>1, <1>6
  <2>4. AncestorHeight(m.new, newChain) \in Nat BY <2>2, <2>3, <1>9 DEF AncestorHeight
  <2>5. job' \in [sync : BOOLEAN, new : Blocks, to : Nat, conn : Seq(Blocks), diff : Diff]
    BY <2>3, <2>4, <1>6, <1>8, NoJobFacts
  <2>6. job'.new = m.new /\ ~job'.sync /\ job'.conn = <<m.new>> BY <2>1, <1>8, NoJobFacts
  <2>7. pc' = "connect" BY <1>8, <1>10
  <2>8. Taken(m) BY <2>5, <2>6, <2>7, <1>2, <1>3, <1>4, <1>5, <1>8, <1>10 DEF Taken
  <2>. QED BY <2>8
<1>11. CASE m.type = "reorg"
  <2>1. Reorganizes(m.old, m.new) BY <1>5, <1>11
  <2>2. newChain = SubSeq(Path[m.new], PartAt(m.old, m.new) + 1, Len(Path[m.new]))
    BY <2>1, <1>6, <1>7, <1>11, ForksAssumption
  <2>3. PICK p : p = PartAt(m.old, m.new) OBVIOUS
  <2>4. p \in 1 .. Height[m.new] BY <2>1, <2>3, <1>6, PartFacts
  <2>5. p + 1 \in 1 .. Len(Path[m.new]) + 1 BY <2>4, <1>9
  <2>6. newChain \in Seq(Blocks) /\ Len(newChain) = Len(Path[m.new]) - (p + 1) + 1
    BY <2>2, <2>3, <2>5, <1>9, Suffix
  <2>7. AncestorHeight(m.new, newChain) = p - 1 BY <2>4, <2>6, <1>9 DEF AncestorHeight
  <2>8. p - 1 \in Nat BY <2>4
  <2>9. job' \in [sync : BOOLEAN, new : Blocks, to : Nat, conn : Seq(Blocks), diff : Diff]
    BY <2>6, <2>7, <2>8, <1>6, <1>8, NoJobFacts
  <2>10. job'.new = m.new /\ ~job'.sync /\ job'.conn = newChain /\ job'.to = p - 1
    BY <2>7, <1>8, NoJobFacts
  <2>11. pc' = "disconnect" BY <1>8, <1>11
  <2>12. Taken(m)
    BY <2>1, <2>2, <2>3, <2>9, <2>10, <2>11, <1>2, <1>3, <1>4, <1>5, <1>8, <1>11 DEF Taken
  <2>. QED BY <2>12
<1>. QED BY <1>6, <1>10, <1>11

LEMMA ReceiveBasic == ASSUME Basic, Receive PROVE Basic'
<1>1. TypeOK /\ InboxOK /\ JobOK /\ Modes /\ HeightsOK BY DEF Basic
<1>2. PICK m : Taken(m) BY ReceiveFacts
<1>3. UNCHANGED <<env, tip, happened, chainDB, chain, diffDB, diffs, liveTicketCache, blockCache>> /\ pc = "idle"
  BY DEF Receive, dcrd, mem
<1>4. /\ inbox' \in Seq(Message) /\ Len(inbox) \in Nat /\ Len(inbox') = Len(inbox) - 1
      /\ \A i \in 1 .. Len(inbox') : inbox'[i] = inbox[i + 1]
  BY <1>2 DEF Taken
<1>5. pc' \in {"connect", "disconnect"} /\ (pc' = "disconnect" => has("reorgs")) /\ ~job'.sync
  BY <1>2 DEF Taken
<1>6. job' \in [sync : BOOLEAN, new : Blocks, to : Nat, conn : Seq(Blocks), diff : Diff]
  BY <1>2 DEF Taken
<1>7. TypeOK' BY <1>1, <1>3, <1>4, <1>5, <1>6 DEF TypeOK, PCs
<1>8. InboxOK'
  <2>1. ASSUME NEW i \in 1 .. Len(inbox') PROVE i + 1 \in 1 .. Len(inbox) BY <1>4
  <2>. QED BY <2>1, <1>1, <1>3, <1>4 DEF InboxOK, has
<1>9. JobOK'
  <2>1. job'.new = m.new /\ Height[m.new] <= Height[tip] /\ m.new \in Blocks /\ m.old \in Blocks
        /\ Height[tip] \in Nat
    BY <1>1, <1>2, TypeFacts DEF Taken, Message
  <2>2. /\ Height[m.new] \in Nat /\ Len(Path[m.new]) = Height[m.new] + 1
        /\ Path[m.new] \in Seq(Blocks)
    BY <2>1, TreeFacts
  <2>3. ASSUME NEW i \in 1 .. Len(job'.conn)
        PROVE  job'.conn[i] /= Genesis /\ Height[job'.conn[i]] <= Height[tip]
    <3>1. CASE job'.conn = <<m.new>> /\ m.new /= Genesis BY <3>1, <2>1
    <3>2. CASE /\ Reorganizes(m.old, m.new)
               /\ job'.conn = SubSeq(Path[m.new], PartAt(m.old, m.new) + 1, Len(Path[m.new]))
      <4>1. PICK p : p = PartAt(m.old, m.new) OBVIOUS
      <4>2. p \in 1 .. Height[m.new] BY <4>1, <3>2, <2>1, PartFacts
      <4>3. p + 1 \in 1 .. Len(Path[m.new]) + 1 BY <4>2, <2>2
      <4>4. /\ Len(job'.conn) = Len(Path[m.new]) - (p + 1) + 1
            /\ \A k \in 1 .. Len(Path[m.new]) - (p + 1) + 1 :
                 job'.conn[k] = Path[m.new][p + 1 + k - 1]
        <5>1. job'.conn = SubSeq(Path[m.new], p + 1, Len(Path[m.new])) BY <4>1, <3>2
        <5>. QED BY <5>1, <4>3, <2>2, Suffix
      <4>5. PICK x : x = p + i OBVIOUS
      <4>6. x \in 1 .. Height[m.new] + 1 /\ x > 1 /\ job'.conn[i] = Path[m.new][x]
        <5>1. p \in Nat /\ i \in Nat /\ p >= 1 /\ i >= 1 /\ i <= Height[m.new] + 1 - p
          BY <4>2, <4>4, <2>2
        <5>2. p + 1 + i - 1 = x /\ i \in 1 .. Len(Path[m.new]) - (p + 1) + 1
          BY <5>1, <4>4, <4>5
        <5>3. job'.conn[i] = Path[m.new][x] BY <5>2, <4>4
        <5>. QED BY <5>1, <5>3, <4>5, <2>2
      <4>7. PathIsPaths(m.new) BY <2>1, PathsOnPath
      <4>8. Path[m.new][x] /= Genesis /\ Height[Path[m.new][x]] = x - 1
        BY <4>6, <4>7 DEF PathIsPaths
      <4>. QED BY <4>6, <4>8, <2>1, <2>2
    <3>. QED BY <3>1, <3>2, <1>2 DEF Taken
  <2>. QED BY <2>1, <2>3, <1>3 DEF JobOK
<1>10. Modes' BY <1>1, <1>3, <1>5 DEF Modes, has
<1>11. HeightsOK' BY <1>1, <1>3, <1>5 DEF HeightsOK
<1>. QED BY <1>7, <1>8, <1>9, <1>10, <1>11 DEF Basic

\* The tickets looked up for block b, and the cache of blocks after it.
MaturingAt(b) ==
    IF Height[b] - TicketMaturity >= 0 THEN Bought[MaturingBlock(Height[b] - TicketMaturity)] ELSE {}
CachedBy(b) ==
    [k \in (DOMAIN blockCache \ {Height[b] - TicketMaturity}) \cup {Height[b]} |->
       IF k = Height[b] THEN b ELSE blockCache[k]]

Connecting(b) ==
    /\ Height[b] > NodeHeight(chain) /\ Staying(chain) \cap MaturingAt(b) = {}
    /\ chain' = connectNode(chain, b, MaturingAt(b))
    /\ blockCache' = CachedBy(b)
    /\ job' = [job EXCEPT !.conn = Tail(@), !.diff = PoolDiff(chain, MaturingAt(b))]
    /\ pc' = "append"
    /\ UNCHANGED <<inbox, diffs, liveTicketCache>>
Refusing(b) ==
    /\ ~(Height[b] > NodeHeight(chain) /\ Staying(chain) \cap MaturingAt(b) = {})
    /\ \/ job.sync /\ Ends /\ UNCHANGED chain
       \/ /\ ~job.sync /\ pc' = "store" /\ UNCHANGED job /\ blockCache' = CachedBy(b)
          /\ UNCHANGED <<inbox, chain, diffs, liveTicketCache>>

\* ConnectBlock connects the block or refuses it.
LEMMA ConnectStep ==
    ASSUME Basic, ConnectBlock, NEW b, b = Head(job.conn)
    PROVE  /\ b \in Blocks /\ b /= Genesis /\ Height[b] \in Nat /\ Height[b] <= Height[tip]
           /\ MaturingAt(b) \subseteq Tickets
           /\ happened' = [happened EXCEPT !.misplaced = @ \/ Parent[b] /= Best]
           /\ Connecting(b) \/ Refusing(b)
<1>1. TypeOK /\ JobOK BY DEF Basic
<1>2. job.conn \in Seq(Blocks) /\ job.conn /= <<>> BY <1>1 DEF TypeOK, ConnectBlock
<1>3. b = job.conn[1] /\ 1 \in 1 .. Len(job.conn) /\ b \in Blocks BY <1>2
<1>4. b /= Genesis /\ Height[b] <= Height[tip] BY <1>1, <1>3 DEF JobOK
<1>5. Height[b] \in Nat /\ Height[tip] \in Nat BY <1>1, <1>3, TreeFacts, TypeFacts
<1>6. MaturingAt(b) \subseteq Tickets
  <2>1. CASE ~(Height[b] - TicketMaturity >= 0) BY <2>1 DEF MaturingAt
  <2>2. CASE Height[b] - TicketMaturity >= 0
    <3>1. PICK m : m = Height[b] - TicketMaturity OBVIOUS
    <3>2. m \in Nat /\ m + 1 \in 1 .. Height[tip] + 1 BY <3>1, <2>2, <1>4, <1>5, MaturityAssumption
    <3>3. tip \in Blocks /\ \A h \in DOMAIN blockCache : blockCache[h] \in Blocks BY <1>1 DEF TypeOK
    <3>4. Path[tip][m + 1] \in Blocks BY <3>2, <3>3, OnPath
    <3>5. MaturingBlock(m) \in Blocks BY <3>3, <3>4 DEF MaturingBlock
    <3>6. Bought[MaturingBlock(m)] \subseteq Tickets BY <3>5, BoughtFacts
    <3>. QED BY <3>1, <3>6, <2>2 DEF MaturingAt
  <2>. QED BY <2>1, <2>2
<1>7. happened' = [happened EXCEPT !.misplaced = @ \/ Parent[b] /= Best] BY DEF ConnectBlock, Best
<1>8. Connecting(b) \/ Refusing(b)
  BY DEF ConnectBlock, Connecting, Refusing, MaturingAt, CachedBy, HandlerFails
<1>. QED BY <1>3, <1>4, <1>5, <1>6, <1>7, <1>8

LEMMA PoolDiffType ==
    ASSUME NEW c \in Chains, NEW m \in SUBSET Tickets PROVE PoolDiff(c, m) \in Diff
<1>1. BestNode(c).live \subseteq Tickets /\ BestNode(c).winners \subseteq Tickets BY ChainFacts
<1>2. ExpiredByBlock(c) \subseteq Tickets BY <1>1 DEF ExpiredByBlock
<1>. QED BY <1>1, <1>2 DEF PoolDiff, Diff

LEMMA ConnectBasic == ASSUME Basic, ConnectBlock PROVE Basic'
<1>1. TypeOK /\ InboxOK /\ JobOK /\ Modes /\ HeightsOK BY DEF Basic
<1>2. PICK b : b = Head(job.conn) OBVIOUS
<1>3. /\ b \in Blocks /\ b /= Genesis /\ Height[b] \in Nat /\ Height[b] <= Height[tip]
      /\ MaturingAt(b) \subseteq Tickets
      /\ happened' = [happened EXCEPT !.misplaced = @ \/ Parent[b] /= Best]
      /\ Connecting(b) \/ Refusing(b)
  BY <1>2, ConnectStep
<1>4. UNCHANGED <<env, tip, chainDB, diffDB>> /\ pc = "connect" /\ job.conn /= <<>>
  BY DEF ConnectBlock, dcrd
<1>5. happened' \in [reorgs : 0 .. env.maxReorgs, stops : 0 .. env.maxStops, misplaced : BOOLEAN]
  BY <1>1, <1>3 DEF TypeOK
<1>6. /\ DOMAIN CachedBy(b) \subseteq Nat
      /\ \A h \in DOMAIN CachedBy(b) : CachedBy(b)[h] \in Blocks
  BY <1>1, <1>3 DEF CachedBy, TypeOK
<1>7. CASE job.sync /\ Ends /\ UNCHANGED chain
  <2>1. chainDB' \in Blocks BY <1>1, <1>4 DEF TypeOK
  <2>. QED BY <2>1, <1>4, <1>5, <1>7, EndsFacts
<1>8. CASE /\ ~job.sync /\ pc' = "store" /\ UNCHANGED job /\ blockCache' = CachedBy(b)
           /\ UNCHANGED <<inbox, chain, diffs, liveTicketCache>>
  <2>1. TypeOK' BY <1>1, <1>4, <1>5, <1>6, <1>8 DEF TypeOK, PCs
  <2>2. InboxOK' /\ JobOK' BY <1>1, <1>4, <1>8 DEF InboxOK, JobOK, has
  <2>3. Modes' /\ HeightsOK' BY <1>1, <1>4, <1>8 DEF Modes, HeightsOK, has
  <2>. QED BY <2>1, <2>2, <2>3 DEF Basic
<1>9. CASE Connecting(b)
  <2>1. chain \in Chains /\ Drawn(chain) /\ Len(chain) \in Nat BY <1>1, TypeFacts
  <2>2. PICK m \in SUBSET Tickets : m = MaturingAt(b) BY <1>3
  <2>3. chain' = connectNode(chain, b, m) BY <2>2, <1>9 DEF Connecting
  <2>4. chain' \in Chains /\ Drawn(chain') /\ Len(chain') = Len(chain) + 1
    BY <2>1, <2>2, <2>3, <1>3, ConnectFacts
  <2>5. /\ chain' \in Seq(Node) /\ chain' /= <<>>
        /\ \A i \in DOMAIN chain' : chain'[i].winners \subseteq chain'[i].live
    BY <2>4 DEF Chains, Drawn
  <2>6. PICK d \in Diff : d = PoolDiff(chain, m) BY <2>1, <2>2, PoolDiffType
  <2>7. job' = [job EXCEPT !.conn = Tail(@), !.diff = d] /\ pc' = "append" /\ blockCache' = CachedBy(b)
        /\ UNCHANGED <<inbox, diffs, liveTicketCache>>
    BY <2>2, <2>6, <1>9 DEF Connecting
  <2>8. job \in [sync : BOOLEAN, new : Blocks, to : Nat, conn : Seq(Blocks), diff : Diff]
    BY <1>1 DEF TypeOK
  <2>9. job.conn \in Seq(Blocks) BY <2>8
  <2>10. /\ Tail(job.conn) \in Seq(Blocks) /\ Len(Tail(job.conn)) = Len(job.conn) - 1
         /\ Len(job.conn) \in Nat /\ \A i \in 1 .. Len(job.conn) - 1 : Tail(job.conn)[i] = job.conn[i + 1]
    BY <2>9, <1>4
  <2>11. /\ job' \in [sync : BOOLEAN, new : Blocks, to : Nat, conn : Seq(Blocks), diff : Diff]
         /\ job'.conn = Tail(job.conn) /\ job'.new = job.new /\ job'.sync = job.sync
    BY <2>7, <2>8, <2>10
  <2>12. TypeOK' BY <2>5, <2>7, <2>11, <1>1, <1>4, <1>5, <1>6 DEF TypeOK, PCs
  <2>13. InboxOK' BY <2>7, <1>1, <1>4 DEF InboxOK, has
  <2>14. JobOK'
    <3>1. ASSUME NEW i \in 1 .. Len(job'.conn)
          PROVE  i + 1 \in 1 .. Len(job.conn) /\ job'.conn[i] = job.conn[i + 1]
      BY <2>10, <2>11
    <3>. QED BY <3>1, <2>11, <1>1, <1>4 DEF JobOK
  <2>15. Modes' BY <2>7, <2>11, <1>1, <1>4 DEF Modes, has
  <2>16. HeightsOK' BY <2>1, <2>4, <2>7, <1>1, <1>4 DEF HeightsOK, NodeHeight
  <2>. QED BY <2>12, <2>13, <2>14, <2>15, <2>16 DEF Basic
<1>. QED BY <1>3, <1>7, <1>8, <1>9 DEF Refusing

\* The diff goes where the node is, in memory and on disk.
LEMMA AppendedDisk ==
    ASSUME Basic, AppendDiff
    PROVE  /\ Len(diffs) + 1 = NodeHeight(chain) /\ pc = "append" /\ pc' = "connect"
           /\ diffs' = Append(diffs, job.diff) /\ job.diff \in Diff
           /\ diffDB' \in Seq(Diff)
           /\ Len(diffDB') = IF NodeHeight(chain) > Len(diffDB) THEN Len(diffDB) + 1 ELSE Len(diffDB)
           /\ \A h \in 1 .. Len(diffDB') :
                diffDB'[h] = IF h = NodeHeight(chain) THEN job.diff ELSE diffDB[h]
           /\ liveTicketCache' = applyDiff(liveTicketCache, job.diff.in, job.diff.out)
           /\ job' = [job EXCEPT !.diff = NoJob.diff]
           /\ UNCHANGED <<env, tip, happened, inbox, chainDB, chain, blockCache>>
<1>1. TypeOK /\ HeightsOK BY DEF Basic
<1>2. pc = "append" /\ pc' = "connect" BY DEF AppendDiff
<1>3. Len(diffs) + 1 = NodeHeight(chain) /\ Len(diffs) <= Len(diffDB) BY <1>1, <1>2 DEF HeightsOK
<1>4. diffs \in Seq(Diff) /\ diffDB \in Seq(Diff) /\ job.diff \in Diff BY <1>1 DEF TypeOK
<1>5. PICK n : n = NodeHeight(chain) OBVIOUS
<1>6. PICK k : k = Len(diffDB) OBVIOUS
<1>7. n \in Nat /\ n >= 1 /\ k \in Nat /\ n <= k + 1 BY <1>3, <1>4, <1>5, <1>6
<1>8. PICK d : d = job.diff OBVIOUS
<1>9. diffDB' = [h \in 1 .. k \cup {n} |-> IF h = n THEN d ELSE diffDB[h]]
  BY <1>3, <1>5, <1>6, <1>8 DEF AppendDiff
<1>10. PICK l : l = IF n > k THEN k + 1 ELSE k OBVIOUS
<1>11. 1 .. k \cup {n} = 1 .. l /\ l \in Nat BY <1>7, <1>10
<1>12. \A h \in 1 .. l : (IF h = n THEN d ELSE diffDB[h]) \in Diff
  BY <1>4, <1>6, <1>7, <1>8, <1>10
<1>13. diffDB' = [h \in 1 .. l |-> IF h = n THEN d ELSE diffDB[h]] BY <1>9, <1>11
<1>14. diffDB' \in Seq(Diff) /\ Len(diffDB') = l BY <1>11, <1>12, <1>13
<1>. QED BY <1>2, <1>3, <1>4, <1>5, <1>6, <1>8, <1>10, <1>13, <1>14 DEF AppendDiff, dcrd

LEMMA AppendBasic == ASSUME Basic, AppendDiff PROVE Basic'
<1>1. TypeOK /\ InboxOK /\ JobOK /\ Modes /\ HeightsOK BY DEF Basic
<1>2. /\ Len(diffs) + 1 = NodeHeight(chain) /\ pc = "append" /\ pc' = "connect"
      /\ diffs' = Append(diffs, job.diff) /\ job.diff \in Diff
      /\ diffDB' \in Seq(Diff)
      /\ Len(diffDB') = IF NodeHeight(chain) > Len(diffDB) THEN Len(diffDB) + 1 ELSE Len(diffDB)
      /\ liveTicketCache' = applyDiff(liveTicketCache, job.diff.in, job.diff.out)
      /\ job' = [job EXCEPT !.diff = NoJob.diff]
      /\ UNCHANGED <<env, tip, happened, inbox, chainDB, chain, blockCache>>
  BY AppendedDisk
<1>3. diffs \in Seq(Diff) /\ diffDB \in Seq(Diff) BY <1>1 DEF TypeOK
<1>4. diffs' \in Seq(Diff) /\ Len(diffs') = Len(diffs) + 1 /\ Len(diffs) \in Nat /\ Len(diffDB) \in Nat
  BY <1>2, <1>3
<1>5. liveTicketCache' \subseteq Tickets BY <1>1, <1>2 DEF applyDiff, TypeOK, Diff
<1>6. job \in [sync : BOOLEAN, new : Blocks, to : Nat, conn : Seq(Blocks), diff : Diff]
  BY <1>1 DEF TypeOK
<1>7. /\ job' \in [sync : BOOLEAN, new : Blocks, to : Nat, conn : Seq(Blocks), diff : Diff]
      /\ job'.conn = job.conn /\ job'.new = job.new /\ job'.sync = job.sync
  BY <1>2, <1>6, NoJobFacts
<1>8. TypeOK' BY <1>1, <1>2, <1>4, <1>5, <1>7 DEF TypeOK, PCs
<1>9. InboxOK' /\ JobOK' /\ Modes' BY <1>1, <1>2, <1>7 DEF InboxOK, JobOK, Modes, has
<1>10. HeightsOK'
  <2>1. Len(diffs) <= Len(diffDB) BY <1>1 DEF HeightsOK
  <2>2. Len(diffs') <= Len(diffDB') BY <2>1, <1>2, <1>4
  <2>. QED BY <2>2, <1>2, <1>4 DEF HeightsOK
<1>. QED BY <1>8, <1>9, <1>10 DEF Basic

\* The steps that move on without touching the databases.
Moves ==
    /\ UNCHANGED <<env, tip, happened, inbox, chain, diffDB, blockCache>>
    /\ chainDB' \in Blocks /\ liveTicketCache' \subseteq Tickets
    /\ diffs' \in Seq(Diff) /\ Len(diffs') = NodeHeight(chain) /\ Len(diffs') <= Len(diffDB)
    /\ pc' \in PCs \ {"down", "load", "append", "disconnect"}
    /\ job' \in [sync : BOOLEAN, new : Blocks, to : Nat, conn : Seq(Blocks), diff : Diff]
    /\ Height[job'.new] <= Height[tip]
    /\ \A i \in 1 .. Len(job'.conn) : job'.conn[i] /= Genesis /\ Height[job'.conn[i]] <= Height[tip]
    /\ has("crashes") \/ (pc' \in {"idle", "connect", "store"} /\ ~job'.sync)

LEMMA MoveBasic == ASSUME Basic, Moves PROVE Basic'
<1>1. TypeOK /\ InboxOK /\ JobOK /\ Modes /\ HeightsOK BY DEF Basic
<1>2. TypeOK' BY <1>1 DEF TypeOK, Moves
<1>3. InboxOK' /\ JobOK' BY <1>1 DEF InboxOK, JobOK, has, Moves
<1>4. Modes' BY <1>1 DEF Modes, has, Moves
<1>5. HeightsOK' BY <1>1 DEF HeightsOK, Moves
<1>. QED BY <1>2, <1>3, <1>4, <1>5 DEF Basic

LEMMA OrdinaryBasic ==
    ASSUME Basic, Disconnected \/ Connected \/ StoreBlock \/ Rewound \/ GetBlockFails
    PROVE  Basic'
<1>1. TypeOK /\ JobOK /\ Modes /\ HeightsOK BY DEF Basic
<1>2. /\ UNCHANGED <<env, tip, happened, chain, diffDB>>
      /\ pc \in {"disconnect", "connect", "store", "rewind"}
  BY DEF Disconnected, Connected, StoreBlock, Rewound, GetBlockFails, HandlerFails, dcrd
<1>3. happened' \in [reorgs : 0 .. env.maxReorgs, stops : 0 .. env.maxStops, misplaced : BOOLEAN]
  BY <1>1, <1>2 DEF TypeOK
<1>4. CASE Ends /\ GetBlockFails
  <2>1. chainDB' \in Blocks BY <1>1, <1>4 DEF TypeOK, GetBlockFails
  <2>. QED BY <2>1, <1>2, <1>3, <1>4, EndsFacts
<1>5. CASE ~(Ends /\ GetBlockFails)
  <2>1. /\ UNCHANGED <<inbox, diffs, liveTicketCache, blockCache>> /\ chainDB' \in {chainDB, job.new}
        /\ job' \in {job, NoJob}
        /\ pc' \in {"connect", "store", "idle", "sync"}
        /\ pc' = "sync" => pc = "rewind" \/ job.sync
    BY <1>2, <1>5
       DEF Disconnected, Connected, StoreBlock, Rewound, GetBlockFails, HandlerFails, dcrd, mem
  <2>2. /\ diffs \in Seq(Diff) /\ liveTicketCache \subseteq Tickets /\ chainDB \in Blocks
        /\ job \in [sync : BOOLEAN, new : Blocks, to : Nat, conn : Seq(Blocks), diff : Diff]
        /\ job.new \in Blocks
    BY <1>1 DEF TypeOK
  <2>3. Len(diffs) = NodeHeight(chain) /\ Len(diffs) <= Len(diffDB) BY <1>1, <1>2 DEF HeightsOK
  <2>4. Height[tip] \in Nat BY <1>1, TypeFacts
  <2>5. /\ job' \in [sync : BOOLEAN, new : Blocks, to : Nat, conn : Seq(Blocks), diff : Diff]
        /\ Height[job'.new] <= Height[tip]
        /\ \A i \in 1 .. Len(job'.conn) : job'.conn[i] /= Genesis /\ Height[job'.conn[i]] <= Height[tip]
    <3>1. CASE job' = job BY <3>1, <2>2, <1>1 DEF JobOK
    <3>2. CASE job' = NoJob BY <3>2, <2>4, NoJobFacts
    <3>. QED BY <3>1, <3>2, <2>1
  <2>6. has("crashes") \/ (pc' \in {"idle", "connect", "store"} /\ ~job'.sync)
    <3>1. SUFFICES ASSUME ~has("crashes")
                   PROVE  pc' \in {"idle", "connect", "store"} /\ ~job'.sync
      BY DEF has
    <3>2. ~job.sync /\ pc /= "rewind" BY <3>1, <1>1 DEF Modes
    <3>3. ~NoJob.sync BY NoJobFacts
    <3>. QED BY <3>2, <3>3, <2>1
  <2>7. pc' \in PCs \ {"down", "load", "append", "disconnect"} BY <2>1 DEF PCs
  <2>8. chainDB' \in Blocks /\ diffs' \in Seq(Diff) /\ Len(diffs') = NodeHeight(chain)
        /\ Len(diffs') <= Len(diffDB) /\ liveTicketCache' \subseteq Tickets
    BY <2>1, <2>2, <2>3
  <2>9. Moves BY <2>1, <2>5, <2>6, <2>7, <2>8, <1>2 DEF Moves, has
  <2>. QED BY <2>9, MoveBasic
<1>. QED BY <1>4, <1>5

LEMMA StopBasic == ASSUME Basic, Stop \/ MaturingBlockFails PROVE Basic'
<1>1. TypeOK BY DEF Basic
<1>2. Ends /\ UNCHANGED <<env, tip, chainDB, chain, diffDB>> /\ chainDB' \in Blocks
  BY <1>1 DEF Stop, MaturingBlockFails, dcrd, TypeOK
<1>3. happened \in [reorgs : 0 .. env.maxReorgs, stops : 0 .. env.maxStops, misplaced : BOOLEAN]
      /\ env.maxStops \in Nat
  BY <1>1, TypeFacts DEF TypeOK
<1>4. happened' \in [reorgs : 0 .. env.maxReorgs, stops : 0 .. env.maxStops, misplaced : BOOLEAN]
  BY <1>3 DEF Stop, MaturingBlockFails
<1>. QED BY <1>2, <1>4, EndsFacts

LEMMA OpenBasic == ASSUME Basic, Open PROVE Basic'
<1>1. TypeOK /\ InboxOK /\ JobOK /\ Modes /\ HeightsOK BY DEF Basic
<1>2. /\ diffs' = diffDB /\ pc' = "load" /\ pc = "down" /\ has("crashes")
      /\ UNCHANGED <<env, tip, happened, inbox, chainDB, chain, diffDB, liveTicketCache, blockCache, job>>
  BY DEF Open, dcrd
<1>3. TypeOK' BY <1>1, <1>2 DEF TypeOK, PCs
<1>4. InboxOK' /\ JobOK' /\ Modes' BY <1>1, <1>2 DEF InboxOK, JobOK, Modes, has
<1>5. Len(diffDB) \in Nat BY <1>1 DEF TypeOK
<1>6. HeightsOK' BY <1>2, <1>5 DEF HeightsOK
<1>. QED BY <1>3, <1>4, <1>6 DEF Basic

\* Trimming leaves the diffs up to the stake node.
LEMMA TrimmedFacts ==
    ASSUME TypeOK, NodeHeight(chain) <= Len(diffs)
    PROVE  /\ Trimmed(diffs) \in Seq(Diff) /\ Len(Trimmed(diffs)) = NodeHeight(chain)
           /\ \A i \in 1 .. NodeHeight(chain) : Trimmed(diffs)[i] = diffs[i]
<1>1. diffs \in Seq(Diff) /\ Len(diffs) \in Nat /\ NodeHeight(chain) \in Nat BY TypeFacts DEF TypeOK
<1>2. PICK n : n = NodeHeight(chain) OBVIOUS
<1>3. n \in 0 .. Len(diffs) BY <1>1, <1>2
<1>. QED BY <1>1, <1>2, <1>3, Prefix DEF Trimmed

\* A set of numbers has a least one: what AdvanceToTip reports.
LEMMA Least ==
    ASSUME NEW S \in SUBSET Nat, S /= {}
    PROVE  (CHOOSE h \in S : \A k \in S : h <= k) \in S
<1>1. PICK x \in S : \A y \in S : ~(<<y, x>> \in OpToRel(<, Nat))
  <2>1. IsWellFoundedOn(OpToRel(<, Nat), Nat) BY NatLessThanWellFounded
  <2>. QED BY <2>1, WFMin
<1>2. \A y \in S : ~(y < x)
  <2>1. \A y \in S : y < x => <<y, x>> \in OpToRel(<, Nat) BY DEF OpToRel
  <2>. QED BY <2>1, <1>1
<1>3. \A y \in S : x <= y BY <1>2
<1>. QED BY <1>3

LEMMA StartingBasic ==
    ASSUME Basic, AdvanceToTip \/ Recovered \/ PurgeBestBlocks \/ SyncChainDB
    PROVE  Basic'
<1>1. TypeOK /\ JobOK /\ Modes /\ HeightsOK BY DEF Basic
<1>2. UNCHANGED <<env, tip, happened, chain, diffDB>> /\ pc \in {"load", "recover", "purge", "sync"}
  BY DEF AdvanceToTip, Recovered, PurgeBestBlocks, SyncChainDB, dcrd
<1>3. has("crashes") BY <1>1, <1>2 DEF Modes
<1>4. /\ diffs \in Seq(Diff) /\ liveTicketCache \subseteq Tickets /\ chainDB \in Blocks /\ tip \in Blocks
      /\ job \in [sync : BOOLEAN, new : Blocks, to : Nat, conn : Seq(Blocks), diff : Diff]
      /\ happened \in [reorgs : 0 .. env.maxReorgs, stops : 0 .. env.maxStops, misplaced : BOOLEAN]
  BY <1>1 DEF TypeOK
<1>5. /\ Height[tip] \in Nat /\ Height[chainDB] \in Nat /\ NodeHeight(chain) \in Nat
      /\ Len(chain) \in Nat
  BY <1>1, TypeFacts
<1>6. BestNode(chain).live \subseteq Tickets BY <1>1, TypeFacts, ChainFacts
<1>7. /\ Len(diffs) <= Len(diffDB) /\ Len(diffDB) \in Nat
      /\ pc /= "load" => Len(diffs) = NodeHeight(chain)
  BY <1>1, <1>2 DEF HeightsOK, TypeOK
<1>8. /\ Height[job.new] <= Height[tip]
      /\ \A i \in 1 .. Len(job.conn) : job.conn[i] /= Genesis /\ Height[job.conn[i]] <= Height[tip]
  BY <1>1 DEF JobOK
<1>9. CASE AdvanceToTip
  <2>1. /\ diffs' = Trimmed(diffs) /\ NodeHeight(chain) <= Len(diffs)
        /\ UNCHANGED <<inbox, blockCache, chainDB>>
    BY <1>9 DEF AdvanceToTip
  <2>2. Trimmed(diffs) \in Seq(Diff) /\ Len(Trimmed(diffs)) = NodeHeight(chain)
    BY <2>1, <1>1, TrimmedFacts
  <2>3. Len(diffs') <= Len(diffDB) BY <2>1, <2>2, <1>4, <1>5, <1>7
  <2>4. CASE BadDiffs(Trimmed(diffs)) = {}
    <3>1. liveTicketCache' = BestNode(chain).live /\ pc' = "purge" /\ job' = job
      BY <2>4, <1>9 DEF AdvanceToTip, PopulateLiveTicketCache
    <3>2. pc' \in PCs \ {"down", "load", "append", "disconnect"} BY <3>1 DEF PCs
    <3>3. chainDB' \in Blocks /\ liveTicketCache' \subseteq Tickets BY <3>1, <2>1, <1>4, <1>6
    <3>4. diffs' \in Seq(Diff) /\ Len(diffs') = NodeHeight(chain) BY <2>1, <2>2
    <3>20. Moves BY <3>1, <3>2, <3>3, <3>4, <2>1, <2>3, <1>2, <1>3, <1>4, <1>8 DEF Moves, has
    <3>. QED BY <3>20, MoveBasic
  <2>5. CASE BadDiffs(Trimmed(diffs)) /= {}
    <3>1. PICK stop : stop = CHOOSE h \in BadDiffs(Trimmed(diffs)) :
                               \A k \in BadDiffs(Trimmed(diffs)) : h <= k
      OBVIOUS
    <3>2. PICK to : to = IF stop > RecoverDepth THEN stop - RecoverDepth ELSE 0 OBVIOUS
    <3>3. pc' = "recover" /\ job' = [NoJob EXCEPT !.to = to] /\ UNCHANGED liveTicketCache
      BY <2>5, <3>1, <3>2, <1>9 DEF AdvanceToTip
    <3>4. BadDiffs(Trimmed(diffs)) \in SUBSET Nat BY <2>2, <1>5 DEF BadDiffs
    <3>5. stop \in Nat BY <3>1, <3>4, <2>5, Least
    <3>6. to \in Nat BY <3>2, <3>5, MaturityAssumption
    <3>7. /\ job' \in [sync : BOOLEAN, new : Blocks, to : Nat, conn : Seq(Blocks), diff : Diff]
          /\ job'.new = Genesis /\ job'.conn = <<>>
      BY <3>3, <3>6, NoJobFacts
    <3>8. Height[job'.new] <= Height[tip] BY <3>7, <1>5, NoJobFacts
    <3>9. \A i \in 1 .. Len(job'.conn) : job'.conn[i] /= Genesis /\ Height[job'.conn[i]] <= Height[tip]
      BY <3>7
    <3>10. pc' \in PCs \ {"down", "load", "append", "disconnect"} BY <3>3 DEF PCs
    <3>11. chainDB' \in Blocks /\ liveTicketCache' \subseteq Tickets BY <3>3, <2>1, <1>4
    <3>12. diffs' \in Seq(Diff) /\ Len(diffs') = NodeHeight(chain) BY <2>1, <2>2
    <3>20. Moves BY <3>7, <3>8, <3>9, <3>10, <3>11, <3>12, <2>1, <2>3, <1>2, <1>3 DEF Moves, has
    <3>. QED BY <3>20, MoveBasic
  <2>. QED BY <2>4, <2>5
<1>10. CASE Recovered
  <2>1. /\ liveTicketCache' = BestNode(chain).live /\ pc' = "purge" /\ pc = "recover" /\ job' = NoJob
        /\ UNCHANGED <<inbox, diffs, blockCache, chainDB>>
    BY <1>10 DEF Recovered, PopulateLiveTicketCache
  <2>2. Height[job'.new] <= Height[tip] BY <2>1, <1>5, NoJobFacts
  <2>3. \A i \in 1 .. Len(job'.conn) : job'.conn[i] /= Genesis /\ Height[job'.conn[i]] <= Height[tip]
    BY <2>1, NoJobFacts
  <2>4. pc' \in PCs \ {"down", "load", "append", "disconnect"} BY <2>1 DEF PCs
  <2>5. chainDB' \in Blocks /\ liveTicketCache' \subseteq Tickets BY <2>1, <1>4, <1>6
  <2>6. diffs' \in Seq(Diff) /\ Len(diffs') = NodeHeight(chain) /\ Len(diffs') <= Len(diffDB)
    BY <2>1, <1>4, <1>7
  <2>7. job' \in [sync : BOOLEAN, new : Blocks, to : Nat, conn : Seq(Blocks), diff : Diff]
    BY <2>1, NoJobFacts
  <2>9. Moves BY <2>1, <2>2, <2>3, <2>4, <2>5, <2>6, <2>7, <1>2, <1>3 DEF Moves, has
  <2>. QED BY <2>9, MoveBasic
<1>11. CASE PurgeBestBlocks
  <2>1. PICK o : o = OrphanedTipLength(Path[chainDB], Path[tip]) OBVIOUS
  <2>2. PICK height : height = Height[chainDB] - o OBVIOUS
  <2>3. /\ pc = "purge" /\ o >= 0 /\ chainDB' = Path[chainDB][height + 1]
        /\ Ends \/ (pc' = "rewind" /\ UNCHANGED <<inbox, mem, job>>)
    BY <2>1, <2>2, <1>11 DEF PurgeBestBlocks
  <2>4. o \in -1 .. Height[chainDB] BY <2>1, <1>4, OrphanedFacts
  <2>5. height + 1 \in 1 .. Height[chainDB] + 1 BY <2>2, <2>3, <2>4, <1>5
  <2>6. chainDB' \in Blocks BY <2>3, <2>5, <1>4, OnPath
  <2>7. CASE Ends BY <2>6, <2>7, <1>2, <1>4, EndsFacts
  <2>8. CASE pc' = "rewind" /\ UNCHANGED <<inbox, mem, job>>
    <3>1. pc' \in PCs \ {"down", "load", "append", "disconnect"} BY <2>8 DEF PCs
    <3>2. UNCHANGED <<inbox, diffs, liveTicketCache, blockCache, job>> BY <2>8 DEF mem
    <3>3. diffs' \in Seq(Diff) /\ Len(diffs') = NodeHeight(chain) /\ Len(diffs') <= Len(diffDB)
          /\ liveTicketCache' \subseteq Tickets
      BY <3>2, <2>3, <1>4, <1>7
    <3>20. Moves BY <3>1, <3>2, <3>3, <2>6, <1>2, <1>3, <1>4, <1>8 DEF Moves, has
    <3>. QED BY <3>20, MoveBasic
  <2>. QED BY <2>3, <2>7, <2>8
<1>12. CASE SyncChainDB
  <2>1. PICK ib : ib = Height[chainDB] + 1 OBVIOUS
  <2>2. PICK b : b = Path[tip][ib + 1] OBVIOUS
  <2>3. PICK behind : behind = ib - NodeHeight(chain) OBVIOUS
  <2>4. /\ UNCHANGED <<inbox, chainDB, diffs, liveTicketCache, blockCache>> /\ pc = "sync"
        /\ \/ pc' \in {"idle", "corrupt"} /\ job' = job
           \/ /\ pc' = "connect" /\ ~(ib > Height[tip])
              /\ job' = [NoJob EXCEPT !.sync = TRUE, !.new = b,
                                      !.conn = IF behind = 1 THEN <<b>> ELSE <<>>]
    BY <2>1, <2>2, <2>3, <1>12 DEF SyncChainDB, mem
  <2>5. chainDB' \in Blocks /\ liveTicketCache' \subseteq Tickets BY <2>4, <1>4
  <2>6. diffs' \in Seq(Diff) /\ Len(diffs') = NodeHeight(chain) /\ Len(diffs') <= Len(diffDB)
    BY <2>4, <1>4, <1>7
  <2>7. CASE pc' \in {"idle", "corrupt"} /\ job' = job
    <3>1. pc' \in PCs \ {"down", "load", "append", "disconnect"} BY <2>7 DEF PCs
    <3>20. Moves BY <3>1, <2>4, <2>5, <2>6, <2>7, <1>2, <1>3, <1>4, <1>8 DEF Moves, has
    <3>. QED BY <3>20, MoveBasic
  <2>8. CASE /\ pc' = "connect" /\ ~(ib > Height[tip])
             /\ job' = [NoJob EXCEPT !.sync = TRUE, !.new = b,
                                     !.conn = IF behind = 1 THEN <<b>> ELSE <<>>]
    <3>1. ib + 1 \in 1 .. Height[tip] + 1 /\ ib + 1 > 1 BY <2>1, <2>8, <1>5
    <3>2. b \in Blocks /\ b /= Genesis /\ Height[b] = (ib + 1) - 1
      <4>1. PathIsPaths(tip) BY <1>4, PathsOnPath
      <4>. QED BY <4>1, <3>1, <2>2 DEF PathIsPaths
    <3>3. Height[b] <= Height[tip] BY <3>1, <3>2, <1>5
    <3>4. PICK conn : conn \in Seq(Blocks) /\ conn = IF behind = 1 THEN <<b>> ELSE <<>>
      <4>1. <<b>> \in Seq(Blocks) /\ <<>> \in Seq(Blocks) BY <3>2
      <4>. QED BY <4>1
    <3>5. job' = [NoJob EXCEPT !.sync = TRUE, !.new = b, !.conn = conn] BY <3>4, <2>8
    <3>6. /\ job' \in [sync : BOOLEAN, new : Blocks, to : Nat, conn : Seq(Blocks), diff : Diff]
          /\ job'.new = b /\ job'.conn = conn
      BY <3>2, <3>4, <3>5, NoJobFacts
    <3>7. \A i \in 1 .. Len(job'.conn) : job'.conn[i] /= Genesis /\ Height[job'.conn[i]] <= Height[tip]
      <4>1. CASE behind = 1 BY <4>1, <3>2, <3>3, <3>4, <3>6
      <4>2. CASE behind /= 1 BY <4>2, <3>4, <3>6
      <4>. QED BY <4>1, <4>2
    <3>8. pc' \in PCs \ {"down", "load", "append", "disconnect"} BY <2>8 DEF PCs
    <3>9. Height[job'.new] <= Height[tip] BY <3>3, <3>6
    <3>20. Moves BY <3>6, <3>7, <3>8, <3>9, <2>4, <2>5, <2>6, <1>2, <1>3 DEF Moves, has
    <3>. QED BY <3>20, MoveBasic
  <2>. QED BY <2>4, <2>7, <2>8
<1>. QED BY <1>9, <1>10, <1>11, <1>12

LEMMA DisconnectingBasic ==
    ASSUME Basic, Disconnect \/ RollBack \/ LoadAndRecover \/ RewindStakeDB
    PROVE  Basic'
<1>1. TypeOK /\ JobOK /\ Modes /\ HeightsOK BY DEF Basic
<1>2. /\ UNCHANGED <<env, tip, happened, chainDB, diffDB>>
      /\ pc \in {"disconnect", "load", "recover", "rewind"}
      /\ pc = "load" => NodeHeight(chain) > Len(diffs)
  BY DEF Disconnect, RollBack, LoadAndRecover, RewindStakeDB, dcrd
<1>3. NodeHeight(chain) > 0
  <2>1. /\ NodeHeight(chain) \in Nat /\ job.to \in Nat /\ Len(diffs) \in Nat
        /\ Height[chainDB] \in Nat
    BY <1>1, TypeFacts DEF TypeOK
  <2>2. \/ NodeHeight(chain) > job.to
        \/ NodeHeight(chain) > Len(diffs)
        \/ NodeHeight(chain) > Height[chainDB]
    BY DEF Disconnect, RollBack, LoadAndRecover, RewindStakeDB
  <2>. QED BY <2>1, <2>2
<1>4. CASE \E neglect \in BOOLEAN : disconnectBlock(neglect) BY <1>2, <1>3, <1>4, DisconnectsBasic
<1>5. CASE /\ pc' = "store" /\ UNCHANGED <<job, inbox, chain, mem>> /\ pc = "disconnect"
  <2>1. /\ diffs \in Seq(Diff) /\ liveTicketCache \subseteq Tickets /\ chainDB \in Blocks
        /\ job \in [sync : BOOLEAN, new : Blocks, to : Nat, conn : Seq(Blocks), diff : Diff]
    BY <1>1 DEF TypeOK
  <2>2. Len(diffs) = NodeHeight(chain) /\ Len(diffs) <= Len(diffDB) BY <1>1, <1>5 DEF HeightsOK
  <2>3. has("crashes") \/ ~job.sync BY <1>1 DEF Modes, has
  <2>4. UNCHANGED <<diffs, liveTicketCache, blockCache>> BY <1>5 DEF mem
  <2>5. Moves BY <2>1, <2>2, <2>3, <2>4, <1>1, <1>2, <1>5 DEF Moves, has, JobOK, PCs
  <2>. QED BY <2>5, MoveBasic
<1>6. \/ \E neglect \in BOOLEAN : disconnectBlock(neglect)
      \/ pc' = "store" /\ UNCHANGED <<job, inbox, chain, mem>> /\ pc = "disconnect"
  BY DEF Disconnect, RollBack, LoadAndRecover, RewindStakeDB, HandlerFails
<1>. QED BY <1>4, <1>5, <1>6

LEMMA BasicInit == Init => Basic
<1>1. SUFFICES ASSUME Init PROVE Basic OBVIOUS
<1>2. Start \in Blocks BY TreeAssumption
<1>3. /\ Synced[Start] \in Chains /\ Drawn(Synced[Start]) /\ Len(Synced[Start]) = Height[Start] + 1
      /\ Height[Start] \in Nat
  BY <1>2, SyncedFacts, TreeFacts DEF SyncedOK
<1>4. BestNode(Synced[Start]).live \subseteq Tickets BY <1>3, ChainFacts
<1>5. SyncedDiffs(Start) \in Seq(Diff) /\ Len(SyncedDiffs(Start)) = Height[Start]
  BY <1>2, SyncedDiffsFacts
<1>6. env \in [kinds : SUBSET EnvKinds, maxReorgs : Nat, maxStops : Nat]
  BY <1>1, ScenariosAssumption DEF Init
<1>7. happened \in [reorgs : 0 .. env.maxReorgs, stops : 0 .. env.maxStops, misplaced : BOOLEAN]
  BY <1>1, <1>6 DEF Init
<1>8. chain \in Seq(Node) /\ chain /= <<>> /\ \A i \in DOMAIN chain : chain[i].winners \subseteq chain[i].live
  BY <1>1, <1>3 DEF Init, Chains, Drawn
<1>9. TypeOK BY <1>1, <1>2, <1>4, <1>5, <1>7, <1>8, NoJobFacts DEF Init, TypeOK, PCs
<1>10. InboxOK /\ JobOK BY <1>1, <1>3, NoJobFacts DEF Init, InboxOK, JobOK
<1>11. Modes BY <1>1, NoJobFacts DEF Init, Modes
<1>12. HeightsOK BY <1>1, <1>3, <1>5 DEF Init, HeightsOK, NodeHeight
<1>. QED BY <1>9, <1>10, <1>11, <1>12 DEF Basic

\* Basic is inductive by itself, whatever fails.
LEMMA BasicNext == Basic /\ [Next]_vars => Basic'
<1>1. SUFFICES ASSUME Basic, [Next]_vars PROVE Basic' OBVIOUS
<1>2. CASE UNCHANGED vars
  BY <1>1, <1>2 DEF vars, dcrd, mem, Basic, TypeOK, InboxOK, JobOK, Modes, HeightsOK, has
<1>3. CASE \E b \in Blocks : dcrdConnects(b) \/ dcrdReorganizes(b) BY <1>1, <1>3, TipBasic
<1>4. CASE Run
  <2>1. CASE Receive BY <2>1, <1>1, ReceiveBasic
  <2>2. CASE Disconnect \/ RollBack \/ LoadAndRecover \/ RewindStakeDB
    BY <2>2, <1>1, DisconnectingBasic
  <2>3. CASE Disconnected \/ Connected \/ StoreBlock \/ Rewound BY <2>3, <1>1, OrdinaryBasic
  <2>4. CASE ConnectBlock BY <2>4, <1>1, ConnectBasic
  <2>5. CASE AppendDiff BY <2>5, <1>1, AppendBasic
  <2>6. CASE Open BY <2>6, <1>1, OpenBasic
  <2>7. CASE AdvanceToTip \/ Recovered \/ PurgeBestBlocks \/ SyncChainDB
    BY <2>7, <1>1, StartingBasic
  <2>. QED BY <2>1, <2>2, <2>3, <2>4, <2>5, <2>6, <2>7, <1>4 DEF Run
<1>5. CASE GetBlockFails BY <1>1, <1>5, OrdinaryBasic
<1>6. CASE MaturingBlockFails \/ Stop BY <1>1, <1>6, StopBasic
<1>. QED BY <1>1, <1>2, <1>3, <1>4, <1>5, <1>6 DEF Next

-----------------------------------------------------------------------------
(* The stores, as long as every block is connected to its parent. *)

Calm == ~(has("reorgs") /\ has("crashes")) /\ ~happened.misplaced

StoresOK ==
    /\ chain = Synced[Best] /\ pc /= "recover"
    /\ pc \notin {"down", "load", "append"} =>
         diffs = SyncedDiffs(Best) /\ liveTicketCache = BestNode(chain).live
    /\ pc = "append" =>
         /\ Best /= Genesis /\ job.diff = DiffOf(Best)
         /\ diffs = SyncedDiffs(Parent[Best])
         /\ liveTicketCache = LiveAt(Parent[Best])

\* The disk may hold diffs above the stake node, also of another branch.
DiskOK ==
    \A h \in 1 .. Len(diffDB) :
      h <= NodeHeight(chain) /\ (pc = "append" => h < NodeHeight(chain)) =>
        diffDB[h] = SyncedDiffs(Best)[h]

\* So may the cache of blocks.
BlocksOK ==
    \A k \in DOMAIN blockCache : k <= NodeHeight(chain) => blockCache[k] = Path[Best][k + 1]

\* Without reorganizations nothing is off the branch of dcrd's best block.
OneBranch ==
    /\ Best \in On(tip)
    /\ \A i \in 1 .. Len(inbox) : inbox[i].new \in On(tip)
    /\ \A i \in 1 .. Len(job.conn) : job.conn[i] \in On(tip)
    /\ \A h \in 1 .. Len(diffDB) : h <= Height[tip] /\ diffDB[h] = SyncedDiffs(tip)[h]

Stored == StoresOK /\ DiskOK /\ BlocksOK /\ (~has("reorgs") => OneBranch)

\* The height of the best node is that of its block.
LEMMA StoredFacts ==
    ASSUME TypeOK, StoresOK
    PROVE  /\ Best \in Blocks /\ NodeHeight(chain) = Height[Best] /\ Height[Best] \in Nat
           /\ chain = Synced[Best] /\ chain \in Chains /\ Len(chain) = Height[Best] + 1
           /\ BestNode(chain).live = LiveAt(Best)
<1>1. Best \in Blocks /\ chain \in Chains /\ chain = Synced[Best] BY TypeFacts DEF StoresOK
<1>2. Len(Synced[Best]) = Height[Best] + 1 BY <1>1, SyncedFacts DEF SyncedOK
<1>3. Height[Best] \in Nat BY <1>1, TreeFacts
<1>4. LiveAt(Best) = BestNode(Synced[Best]).live BY DEF LiveAt
<1>5. Len(chain) = NodeHeight(chain) + 1 /\ NodeHeight(chain) \in Nat BY TypeFacts
<1>. QED BY <1>1, <1>2, <1>3, <1>4, <1>5

LEMMA TipStored ==
    ASSUME Basic, Stored, NEW b \in Blocks, dcrdConnects(b) \/ dcrdReorganizes(b)
    PROVE  Stored'
<1>1. TypeOK /\ StoresOK /\ DiskOK /\ BlocksOK BY DEF Basic, Stored
<1>2. UNCHANGED <<env, chainDB, chain, diffDB, diffs, liveTicketCache, blockCache, pc, job>> /\ tip' = b
  BY DEF dcrdConnects, dcrdReorganizes, mem
<1>3. Best' = Best BY <1>2 DEF Best
<1>4. StoresOK' BY <1>1, <1>2, <1>3 DEF StoresOK
<1>5. DiskOK' /\ BlocksOK' BY <1>1, <1>2, <1>3 DEF DiskOK, BlocksOK
<1>6. ASSUME ~has("reorgs") PROVE OneBranch'
  <2>1. OneBranch /\ dcrdConnects(b) BY <1>6 DEF Stored, dcrdReorganizes
  <2>2. /\ b /= Genesis /\ Parent[b] = tip /\ tip \in Blocks
        /\ inbox' = inbox \/ inbox' = Append(inbox, [type |-> "block", old |-> tip, new |-> b])
    BY <2>1, <1>1 DEF dcrdConnects, Notify, TypeOK
  <2>3. \A a \in On(tip) : a \in On(b) BY <2>2, OnChild
  <2>4. Height[b] \in Nat /\ Path[b][Height[b] + 1] = b /\ Height[b] = Height[tip] + 1
        /\ Height[tip] \in Nat
    BY <2>2, TreeFacts
  <2>5. b \in On(b)
    <3>1. Height[b] + 1 \in 1 .. Height[b] + 1 BY <2>4
    <3>2. Path[b][Height[b] + 1] \in On(b) BY <3>1, OnPath
    <3>. QED BY <3>2, <2>4
  <2>6. tip \in On(b)
    <3>1. Height[tip] + 1 \in 1 .. Height[tip] + 1 BY <2>4
    <3>2. Path[tip][Height[tip] + 1] \in On(tip) /\ Path[tip][Height[tip] + 1] = tip
      BY <3>1, <2>2, OnPath, TreeFacts
    <3>. QED BY <3>2, <2>3
  <2>7. inbox \in Seq(Message) BY <1>1 DEF TypeOK
  <2>8. ASSUME NEW i \in 1 .. Len(inbox') PROVE inbox'[i].new \in On(b)
    <3>1. CASE i \in 1 .. Len(inbox) /\ inbox'[i] = inbox[i]
      <4>1. inbox[i].new \in On(tip) BY <3>1, <2>1 DEF OneBranch
      <4>. QED BY <4>1, <3>1, <2>3
    <3>2. CASE inbox'[i] = [type |-> "block", old |-> tip, new |-> b] BY <3>2, <2>5
    <3>3. \/ i \in 1 .. Len(inbox) /\ inbox'[i] = inbox[i]
          \/ inbox'[i] = [type |-> "block", old |-> tip, new |-> b]
      <4>1. PICK m : m = [type |-> "block", old |-> tip, new |-> b] OBVIOUS
      <4>2. m \in Message BY <4>1, <2>2 DEF Message
      <4>. QED BY <4>1, <4>2, <2>2, <2>7
    <3>. QED BY <3>1, <3>2, <3>3
  <2>9. ASSUME NEW h \in 1 .. Len(diffDB)
        PROVE  h <= Height[b] /\ diffDB[h] = SyncedDiffs(b)[h]
    <3>1. h <= Height[tip] /\ diffDB[h] = SyncedDiffs(tip)[h] BY <2>1 DEF OneBranch
    <3>2. h \in 1 .. Height[tip] BY <3>1, <2>4
    <3>3. SyncedDiffs(tip)[h] = SyncedDiffs(b)[h] BY <3>2, <2>6, SyncedDiffsOn
    <3>. QED BY <3>1, <3>2, <3>3, <2>4
  <2>10. Best \in On(b) /\ \A i \in 1 .. Len(job.conn) : job.conn[i] \in On(b)
    BY <2>1, <2>3 DEF OneBranch
  <2>. QED BY <2>8, <2>9, <2>10, <1>2, <1>3 DEF OneBranch
<1>. QED BY <1>2, <1>4, <1>5, <1>6 DEF Stored, has

\* Steps that only move on.
LEMMA KeepStored ==
    ASSUME Stored, UNCHANGED <<env, tip, inbox, chain, diffDB, diffs, liveTicketCache>>,
           pc \notin {"down", "load", "append"}, pc' \notin {"down", "load", "append", "recover"},
           \A k \in DOMAIN blockCache' :
              k <= NodeHeight(chain) => k \in DOMAIN blockCache /\ blockCache'[k] = blockCache[k],
           ~has("reorgs") => \A i \in 1 .. Len(job'.conn) : job'.conn[i] \in On(tip)
    PROVE  Stored'
<1>1. StoresOK /\ DiskOK /\ BlocksOK /\ (~has("reorgs") => OneBranch) BY DEF Stored
<1>2. Best' = Best BY DEF Best
<1>3. StoresOK' BY <1>1, <1>2 DEF StoresOK
<1>4. DiskOK' BY <1>1, <1>2 DEF DiskOK
<1>5. BlocksOK' BY <1>1, <1>2 DEF BlocksOK
<1>6. ~has("reorgs") => OneBranch' BY <1>1, <1>2 DEF OneBranch
<1>. QED BY <1>3, <1>4, <1>5, <1>6 DEF Stored, has

\* Stopping half way through a block leaves the node ahead of its diff, no more.
LEMMA EndsStored ==
    ASSUME Basic, Calm, Stored, Ends, UNCHANGED <<env, tip, chain, diffDB>>,
           pc = "append" => has("crashes")
    PROVE  Stored'
<1>1. TypeOK /\ StoresOK /\ DiskOK /\ BlocksOK /\ (~has("reorgs") => OneBranch) BY DEF Basic, Stored
<1>2. Best' = Best /\ pc' = "down" BY DEF Best, Ends
<1>3. StoresOK' BY <1>1, <1>2 DEF StoresOK
<1>4. BlocksOK' BY <1>2 DEF BlocksOK, Ends
<1>5. ~has("reorgs") => OneBranch' BY <1>1, <1>2 DEF OneBranch, Ends, NoJob
<1>6. CASE pc /= "append" BY <1>1, <1>2, <1>3, <1>4, <1>5, <1>6 DEF DiskOK, Stored, has
<1>7. CASE pc = "append"
  <2>1. OneBranch BY <1>1, <1>7 DEF Calm
  <2>2. Best \in On(tip) /\ tip \in Blocks BY <2>1, <1>1 DEF OneBranch, TypeOK
  <2>3. NodeHeight(chain) = Height[Best] /\ Height[Best] \in Nat BY <1>1, StoredFacts
  <2>4. ASSUME NEW h \in 1 .. Len(diffDB), h <= NodeHeight(chain)
        PROVE  diffDB[h] = SyncedDiffs(Best)[h]
    <3>1. h \in 1 .. Height[Best] BY <2>3, <2>4
    <3>2. SyncedDiffs(Best)[h] = SyncedDiffs(tip)[h] BY <3>1, <2>2, SyncedDiffsOn
    <3>. QED BY <3>2, <2>1 DEF OneBranch
  <2>5. DiskOK' BY <2>4, <1>2 DEF DiskOK
  <2>. QED BY <2>5, <1>3, <1>4, <1>5 DEF Stored, has
<1>. QED BY <1>6, <1>7

\* Disconnecting a block of a fresh sync leaves a fresh sync of its parent.
LEMMA PopChain ==
    ASSUME TypeOK, StoresOK, Popped, NodeHeight(chain) > 0
    PROVE  /\ Best /= Genesis /\ Parent[Best] \in Blocks /\ Height[Best] = Height[Parent[Best]] + 1
           /\ chain' = Synced[Parent[Best]] /\ Best' = Parent[Best]
           /\ NodeHeight(chain') = Height[Parent[Best]]
           /\ Parent[Best] \in On(Best)
<1>1. PICK b : b = Best OBVIOUS
<1>2. b \in Blocks /\ NodeHeight(chain) = Height[b] /\ Height[b] \in Nat /\ chain = Synced[b]
      /\ Len(chain) = Height[b] + 1
  BY <1>1, StoredFacts
<1>3. b /= Genesis BY <1>2, TreeFacts
<1>4. PICK p : p = Parent[b] OBVIOUS
<1>5. p \in Blocks /\ Height[b] = Height[p] + 1 /\ Height[p] \in Nat BY <1>2, <1>3, <1>4, TreeFacts
<1>6. Synced[p] \in Chains /\ Synced[b] = connectNode(Synced[p], b, Matured(b))
  BY <1>2, <1>3, <1>4, SyncedStep
<1>7. SyncedOK(p) BY <1>5, SyncedFacts
<1>8. Len(Synced[p]) = Height[p] + 1 /\ BestNode(Synced[p]).block = p BY <1>7 DEF SyncedOK
<1>9. Matured(b) \in SUBSET Tickets BY <1>2, MaturedFacts
<1>10. PICK s : s = Synced[p] OBVIOUS
<1>11. s \in Chains /\ Len(s) = Height[p] + 1 /\ BestNode(s).block = p BY <1>6, <1>8, <1>10
<1>12. \A i \in 1 .. Len(s) : chain[i] = s[i]
  <2>1. chain = connectNode(s, b, Matured(b)) BY <1>2, <1>6, <1>10
  <2>2. \A i \in 1 .. Len(s) : connectNode(s, b, Matured(b))[i] = s[i]
    <3>1. PICK m \in SUBSET Tickets : m = Matured(b) BY <1>9
    <3>2. \A i \in 1 .. Len(s) : connectNode(s, b, m)[i] = s[i] BY <1>2, <1>11, ConnectFacts
    <3>. QED BY <3>1, <3>2
  <2>. QED BY <2>1, <2>2
<1>13. /\ chain' \in Chains /\ Len(chain') = Len(chain) - 1
       /\ \A i \in 1 .. Len(chain) - 1 :
            chain'[i] = IF i = Len(chain) - 1 THEN [chain[i] EXCEPT !.block = p] ELSE chain[i]
  BY <1>1, <1>4 DEF Popped
<1>14. s \in Seq(Node) /\ chain' \in Seq(Node) /\ Len(s) \in Nat /\ Len(s) >= 1
  BY <1>11, <1>13, ChainFacts
<1>15. Len(chain) - 1 = Len(s) /\ Len(chain') = Len(s) BY <1>2, <1>5, <1>11, <1>13
<1>16. s[Len(s)].block = p /\ s[Len(s)] \in Node BY <1>11, <1>14 DEF BestNode
<1>17. [s[Len(s)] EXCEPT !.block = p] = s[Len(s)] BY <1>16 DEF Node
<1>18. \A i \in 1 .. Len(s) : chain'[i] = s[i] BY <1>12, <1>13, <1>15, <1>17
<1>19. chain' = s BY <1>14, <1>15, <1>18
<1>20. Best' = p BY <1>11, <1>19 DEF Best
<1>21. NodeHeight(chain') = Height[p] BY <1>5, <1>11, <1>19 DEF NodeHeight
<1>22. p \in On(b)
  <2>1. Height[b] \in 1 .. Height[b] + 1 /\ Height[b] \in 1 .. Height[b] BY <1>2, <1>5
  <2>2. Path[b][Height[b]] \in On(b) BY <2>1, <1>2, OnPath
  <2>3. Path[b][Height[b]] = Path[p][Height[b]] /\ Path[p][Height[p] + 1] = p
    BY <2>1, <1>2, <1>3, <1>4, <1>5, TreeFacts
  <2>. QED BY <2>2, <2>3, <1>5
<1>. QED BY <1>1, <1>3, <1>4, <1>5, <1>10, <1>19, <1>20, <1>21, <1>22

\* Undoing the last diff undoes its block.
LEMMA UndoLast ==
    ASSUME NEW b \in Blocks, b /= Genesis, diffs = SyncedDiffs(b), liveTicketCache = LiveAt(b),
           undoDiffs(Height[b] - 1)
    PROVE  liveTicketCache' = LiveAt(Parent[b])
<1>1. PICK n : n = Height[b] OBVIOUS
<1>2. PICK d : d = DiffOf(b) OBVIOUS
<1>3. n \in Nat /\ n >= 1 /\ Path[b][n + 1] = b
  <2>1. Height[b] = Height[Parent[b]] + 1 /\ Height[Parent[b]] \in Nat BY TreeFacts
  <2>. QED BY <2>1, <1>1, TreeFacts
<1>4. Len(diffs) = n /\ diffs[n] = d
  <2>1. n \in 1 .. Height[b] BY <1>1, <1>3
  <2>2. Len(SyncedDiffs(b)) = Height[b] /\ SyncedDiffs(b)[n] = DiffOf(Path[b][n + 1])
    BY <2>1, SyncedDiffsFacts
  <2>. QED BY <2>2, <1>1, <1>2, <1>3
<1>5. (n - 1) + 1 .. Len(diffs) = {n} /\ \A i \in {n} : (n - 1) + 1 .. i = {n} BY <1>3, <1>4
<1>6. liveTicketCache' =
        {t \in Tickets :
           \/ t \in liveTicketCache /\ \A k \in {n} : t \notin diffs[k].in
           \/ \E i \in {n} : t \in diffs[i].out /\ \A k \in {n} : t \notin diffs[k].in}
  <2>1. undoDiffs(n - 1) BY <1>1
  <2>. QED BY <2>1, <1>5 DEF undoDiffs
<1>7. liveTicketCache' = {t \in Tickets : (t \in LiveAt(b) \/ t \in d.out) /\ t \notin d.in}
  BY <1>4, <1>6
<1>8. LiveAt(Parent[b]) = (LiveAt(b) \cup d.out) \ d.in BY <1>2, DiffFacts DEF applyDiff
<1>9. d \in Diff BY <1>2, DiffFacts
<1>10. LiveAt(b) \subseteq Tickets
  <2>1. Synced[b] \in Chains BY SyncedFacts DEF SyncedOK
  <2>. QED BY <2>1, ChainFacts DEF LiveAt
<1>. QED BY <1>7, <1>8, <1>9, <1>10 DEF Diff

\* Every step keeps Stored, disconnecting first: the pool and the cache go back
\* with the node.
LEMMA PopStored ==
    ASSUME Basic, Stored, Popped, NodeHeight(chain) > 0, UNCHANGED <<env, tip, diffDB>>,
           pc \in {"disconnect", "load", "rewind"},
           pc /= "load" => undoDiffs(NodeHeight(chain) - 1)
    PROVE  Stored'
<1>1. /\ TypeOK /\ HeightsOK
      /\ StoresOK /\ DiskOK /\ BlocksOK /\ (~has("reorgs") => OneBranch)
  BY DEF Basic, Stored
<1>2. PICK b : b = Best OBVIOUS
<1>3. PICK p : p = Parent[b] OBVIOUS
<1>4. /\ b /= Genesis /\ p \in Blocks /\ Height[b] = Height[p] + 1 /\ chain' = Synced[p]
      /\ Best' = p /\ NodeHeight(chain') = Height[p] /\ p \in On(b)
  BY <1>1, <1>2, <1>3, PopChain
<1>5. b \in Blocks /\ NodeHeight(chain) = Height[b] /\ Height[b] \in Nat /\ Height[p] \in Nat
  BY <1>1, <1>2, <1>4, StoredFacts, TreeFacts
<1>6. UNCHANGED <<inbox, blockCache, pc, job>> BY DEF Popped
<1>7. StoresOK'
  <2>1. CASE pc = "load" BY <2>1, <1>4, <1>6 DEF StoresOK
  <2>2. CASE pc \in {"disconnect", "rewind"}
    <3>1. diffs = SyncedDiffs(b) /\ liveTicketCache = LiveAt(b)
      BY <2>2, <1>1, <1>2, StoredFacts DEF StoresOK
    <3>2. liveTicketCache' = LiveAt(p)
      <4>1. undoDiffs(Height[b] - 1) BY <2>2, <1>5
      <4>. QED BY <4>1, <3>1, <1>3, <1>4, <1>5, UndoLast
    <3>3. SyncedDiffs(p) \in Seq(Diff) /\ Len(SyncedDiffs(p)) = Height[p] BY <1>4, SyncedDiffsFacts
    <3>4. Len(diffs) = Height[b] BY <3>1, <1>5, SyncedDiffsFacts
    <3>5. /\ diffs' \in Seq(Diff) /\ Len(diffs') = Height[p]
          /\ \A i \in 1 .. Len(diffs') : diffs'[i] = diffs[i]
      BY <3>4, <1>4, <1>5 DEF Popped
    <3>6. \A i \in 1 .. Height[p] : SyncedDiffs(p)[i] = SyncedDiffs(b)[i]
      BY <1>4, <1>5, SyncedDiffsOn
    <3>7. diffs' = SyncedDiffs(p) BY <3>1, <3>3, <3>5, <3>6
    <3>8. BestNode(chain').live = LiveAt(p) BY <1>4 DEF LiveAt
    <3>. QED BY <3>2, <3>7, <3>8, <2>2, <1>4, <1>6 DEF StoresOK
  <2>. QED BY <2>1, <2>2
<1>8. DiskOK'
  <2>1. ASSUME NEW h \in 1 .. Len(diffDB), h <= Height[p] PROVE diffDB[h] = SyncedDiffs(p)[h]
    <3>1. h \in 1 .. Height[p] BY <2>1, <1>5
    <3>2. SyncedDiffs(p)[h] = SyncedDiffs(b)[h] BY <3>1, <1>4, <1>5, SyncedDiffsOn
    <3>3. h <= NodeHeight(chain) /\ h < NodeHeight(chain) BY <3>1, <1>4, <1>5
    <3>4. diffDB[h] = SyncedDiffs(b)[h] BY <3>3, <1>1, <1>2 DEF DiskOK
    <3>. QED BY <3>2, <3>4
  <2>. QED BY <2>1, <1>4 DEF DiskOK
<1>9. BlocksOK'
  <2>1. ASSUME NEW k \in DOMAIN blockCache, k <= Height[p] PROVE blockCache[k] = Path[p][k + 1]
    <3>1. k \in Nat BY <1>1 DEF TypeOK
    <3>2. k <= NodeHeight(chain) BY <3>1, <2>1, <1>4, <1>5
    <3>3. blockCache[k] = Path[b][k + 1] BY <3>2, <1>1, <1>2 DEF BlocksOK
    <3>4. k + 1 \in 1 .. Height[p] + 1 BY <3>1, <2>1, <1>5
    <3>. QED BY <3>3, <3>4, <1>4, <1>5, OnFacts
  <2>. QED BY <2>1, <1>4, <1>6 DEF BlocksOK
<1>10. ~has("reorgs") => OneBranch'
  <2>1. tip \in Blocks BY <1>1 DEF TypeOK
  <2>2. b \in On(tip) => p \in On(tip) BY <2>1, <1>3, <1>4, OnFacts
  <2>. QED BY <2>2, <1>1, <1>2, <1>4, <1>6 DEF OneBranch
<1>. QED BY <1>7, <1>8, <1>9, <1>10 DEF Stored, has

LEMMA DisconnectingStored ==
    ASSUME Basic, Calm, Stored, Disconnect \/ RollBack \/ LoadAndRecover \/ RewindStakeDB
    PROVE  Stored'
<1>1. TypeOK /\ HeightsOK /\ StoresOK /\ (~has("reorgs") => OneBranch) BY DEF Basic, Stored
<1>2. UNCHANGED <<env, tip, happened, chainDB, diffDB>> /\ pc \in {"disconnect", "load", "rewind"}
  BY <1>1 DEF Disconnect, RollBack, LoadAndRecover, RewindStakeDB, dcrd, StoresOK
<1>3. NodeHeight(chain) > 0
  <2>1. /\ NodeHeight(chain) \in Nat /\ job.to \in Nat /\ Len(diffs) \in Nat
        /\ Height[chainDB] \in Nat
    BY <1>1, TypeFacts DEF TypeOK
  <2>2. \/ NodeHeight(chain) > job.to
        \/ NodeHeight(chain) > Len(diffs)
        \/ NodeHeight(chain) > Height[chainDB]
    BY DEF Disconnect, RollBack, LoadAndRecover, RewindStakeDB
  <2>. QED BY <2>1, <2>2
<1>4. CASE pc' = "store" /\ UNCHANGED <<job, inbox, chain, mem>> /\ pc = "disconnect"
  <2>1. UNCHANGED <<diffs, liveTicketCache, blockCache, job, inbox, chain>> BY <1>4 DEF mem
  <2>2. ~has("reorgs") => \A i \in 1 .. Len(job'.conn) : job'.conn[i] \in On(tip)
    BY <2>1, <1>1 DEF OneBranch
  <2>. QED BY <2>1, <2>2, <1>2, <1>4, KeepStored
<1>5. ASSUME NEW neglect \in BOOLEAN, disconnectBlock(neglect), pc /= "load" => ~neglect
      PROVE  Stored'
  <2>1. CASE Ends /\ UNCHANGED chain BY <2>1, <1>2, EndsStored
  <2>2. CASE Popped /\ ~(Ends /\ UNCHANGED chain)
    <3>1. pc /= "load" => undoDiffs(Len(chain) - 1 - 1) BY <2>2, <1>5 DEF disconnectBlock
    <3>2. NodeHeight(chain) - 1 = Len(chain) - 1 - 1 BY DEF NodeHeight
    <3>3. pc /= "load" => undoDiffs(NodeHeight(chain) - 1) BY <3>1, <3>2
    <3>. QED BY <3>3, <2>2, <1>2, <1>3, PopStored
  <2>. QED BY <2>1, <2>2, <1>1, <1>3, <1>5, DisconnectFacts
<1>6. \/ \E neglect \in BOOLEAN : disconnectBlock(neglect) /\ (pc /= "load" => ~neglect)
      \/ pc' = "store" /\ UNCHANGED <<job, inbox, chain, mem>> /\ pc = "disconnect"
  BY <1>2 DEF Disconnect, RollBack, LoadAndRecover, RewindStakeDB, HandlerFails
<1>. QED BY <1>4, <1>5, <1>6

\* The tickets looked up by height are those of the block's own branch.
LEMMA MaturingIsMatured ==
    ASSUME TypeOK, StoresOK, BlocksOK, NEW b \in Blocks, b /= Genesis, Parent[b] = Best,
           Height[b] <= Height[tip]
    PROVE  MaturingAt(b) = Matured(b)
<1>1. /\ Height[b] \in Nat /\ Height[b] = Height[Best] + 1 /\ Height[Best] \in Nat
      /\ \A i \in 1 .. Height[b] : Path[b][i] = Path[Best][i]
  BY TreeFacts
<1>2. NodeHeight(chain) = Height[Best] BY StoredFacts
<1>3. TicketMaturity \in Nat \ {0} BY MaturityAssumption
<1>4. CASE ~(Height[b] >= TicketMaturity) BY <1>1, <1>3, <1>4 DEF MaturingAt, Matured
<1>5. CASE Height[b] >= TicketMaturity
  <2>1. PICK m : m = Height[b] - TicketMaturity OBVIOUS
  <2>2. m \in Nat /\ m <= NodeHeight(chain) /\ m + 1 \in 1 .. Height[b] BY <2>1, <1>1, <1>2, <1>3, <1>5
  <2>3. tip \in Blocks BY DEF TypeOK
  <2>4. Path[tip][m + 1] = Path[b][m + 1]
    <3>1. Height[tip] >= Height[b] BY <1>1, <2>3, TreeFacts
    <3>2. Path[b][Height[b] - TicketMaturity + 1] = Path[tip][Height[b] - TicketMaturity + 1]
      BY <3>1, <2>3, <1>5, MaturityAssumption
    <3>. QED BY <3>2, <2>1
  <2>5. m \in DOMAIN blockCache => blockCache[m] = Path[b][m + 1]
    <3>1. m \in DOMAIN blockCache => blockCache[m] = Path[Best][m + 1] BY <2>2 DEF BlocksOK
    <3>. QED BY <3>1, <2>2, <1>1
  <2>6. MaturingBlock(m) = Path[b][m + 1] BY <2>4, <2>5 DEF MaturingBlock
  <2>7. Height[b] - TicketMaturity >= 0 BY <2>1, <2>2
  <2>. QED BY <2>1, <2>6, <2>7, <1>5 DEF MaturingAt, Matured
<1>. QED BY <1>4, <1>5

\* Connecting a block to its parent's node extends the fresh sync.
LEMMA ConnectStored ==
    ASSUME Basic, Calm, Stored, ConnectBlock, Calm' PROVE Stored'
<1>1. /\ TypeOK /\ HeightsOK /\ Modes
      /\ StoresOK /\ DiskOK /\ BlocksOK /\ (~has("reorgs") => OneBranch)
  BY DEF Basic, Stored
<1>2. PICK b : b = Head(job.conn) OBVIOUS
<1>3. /\ b \in Blocks /\ b /= Genesis /\ Height[b] \in Nat /\ Height[b] <= Height[tip]
      /\ happened' = [happened EXCEPT !.misplaced = @ \/ Parent[b] /= Best]
      /\ Connecting(b) \/ Refusing(b)
  BY <1>2, ConnectStep
<1>4. UNCHANGED <<env, tip, chainDB, diffDB>> /\ pc = "connect" /\ job.conn /= <<>>
  BY DEF ConnectBlock, dcrd
<1>5. Parent[b] = Best
  <2>1. happened \in [reorgs : 0 .. env.maxReorgs, stops : 0 .. env.maxStops, misplaced : BOOLEAN]
    BY <1>1 DEF TypeOK
  <2>2. ~happened'.misplaced BY DEF Calm
  <2>. QED BY <2>1, <2>2, <1>3
<1>6. PICK p : p = Best OBVIOUS
<1>7. /\ p \in Blocks /\ NodeHeight(chain) = Height[p] /\ Height[p] \in Nat /\ chain = Synced[p]
      /\ chain \in Chains
  BY <1>1, <1>6, StoredFacts
<1>8. /\ Height[b] = Height[p] + 1 /\ Path[b][Height[b] + 1] = b
      /\ \A i \in 1 .. Height[b] : Path[b][i] = Path[p][i]
  BY <1>3, <1>5, <1>6, TreeFacts
<1>9. MaturingAt(b) = Matured(b) BY <1>1, <1>3, <1>5, MaturingIsMatured
<1>10. ASSUME NEW k \in DOMAIN CachedBy(b), k /= Height[b]
       PROVE  k \in DOMAIN blockCache /\ CachedBy(b)[k] = blockCache[k]
  BY <1>10 DEF CachedBy
<1>11. job.conn \in Seq(Blocks) BY <1>1 DEF TypeOK
<1>12. CASE job.sync /\ Ends /\ UNCHANGED chain BY <1>4, <1>12, EndsStored
<1>13. CASE /\ ~job.sync /\ pc' = "store" /\ UNCHANGED job /\ blockCache' = CachedBy(b)
            /\ UNCHANGED <<inbox, chain, diffs, liveTicketCache>>
  <2>1. ASSUME NEW k \in DOMAIN blockCache', k <= NodeHeight(chain)
        PROVE  k \in DOMAIN blockCache /\ blockCache'[k] = blockCache[k]
    <3>1. k /= Height[b] BY <2>1, <1>7, <1>8
    <3>. QED BY <3>1, <1>10, <1>13
  <2>2. ~has("reorgs") => \A i \in 1 .. Len(job'.conn) : job'.conn[i] \in On(tip)
    BY <1>1, <1>13 DEF OneBranch
  <2>. QED BY <2>1, <2>2, <1>4, <1>13, KeepStored
<1>14. CASE Connecting(b)
  <2>1. chain' = Synced[b]
    <3>1. chain' = connectNode(chain, b, Matured(b)) BY <1>9, <1>14 DEF Connecting
    <3>2. Synced[b] = connectNode(Synced[Parent[b]], b, Matured(b)) BY <1>3, SyncedStep
    <3>. QED BY <3>1, <3>2, <1>5, <1>6, <1>7
  <2>2. Len(chain') = Height[b] + 1 /\ Best' = b /\ BestNode(chain').live = LiveAt(b)
    <3>1. SyncedOK(b) BY <1>3, SyncedFacts
    <3>. QED BY <3>1, <2>1 DEF SyncedOK, Best, LiveAt
  <2>3. NodeHeight(chain') = Height[b] BY <2>2, <1>3 DEF NodeHeight
  <2>4. /\ job' = [job EXCEPT !.conn = Tail(@), !.diff = PoolDiff(chain, Matured(b))] /\ pc' = "append"
        /\ blockCache' = CachedBy(b) /\ UNCHANGED <<inbox, diffs, liveTicketCache>>
    BY <1>9, <1>14 DEF Connecting
  <2>5. job \in [sync : BOOLEAN, new : Blocks, to : Nat, conn : Seq(Blocks), diff : Diff]
    BY <1>1 DEF TypeOK
  <2>6. job'.diff = PoolDiff(chain, Matured(b)) /\ job'.conn = Tail(job.conn) BY <2>4, <2>5
  <2>7. job'.diff = DiffOf(b) BY <2>6, <1>5, <1>6, <1>7 DEF DiffOf
  <2>8. diffs = SyncedDiffs(p) /\ liveTicketCache = LiveAt(p)
    BY <1>1, <1>4, <1>6, StoredFacts DEF StoresOK
  <2>9. StoresOK' BY <2>1, <2>2, <2>4, <2>7, <2>8, <1>3, <1>5, <1>6 DEF StoresOK
  <2>10. p \in On(b)
    <3>1. Height[b] \in 1 .. Height[b] + 1 /\ Height[b] \in 1 .. Height[b] BY <1>3, <1>7, <1>8
    <3>2. Path[b][Height[b]] \in On(b) BY <3>1, <1>3, OnPath
    <3>3. Path[p][Height[p] + 1] = p BY <1>7, TreeFacts
    <3>. QED BY <3>1, <3>2, <3>3, <1>8
  <2>11. DiskOK'
    <3>1. ASSUME NEW h \in 1 .. Len(diffDB), h < Height[b] PROVE diffDB[h] = SyncedDiffs(b)[h]
      <4>1. h \in 1 .. Height[p] BY <3>1, <1>7, <1>8
      <4>2. SyncedDiffs(p)[h] = SyncedDiffs(b)[h] BY <4>1, <2>10, <1>3, SyncedDiffsOn
      <4>3. diffDB[h] = SyncedDiffs(p)[h] BY <4>1, <1>1, <1>4, <1>6, <1>7 DEF DiskOK
      <4>. QED BY <4>2, <4>3
    <3>. QED BY <3>1, <2>2, <2>3, <2>4, <1>4 DEF DiskOK
  <2>12. BlocksOK'
    <3>1. ASSUME NEW k \in DOMAIN CachedBy(b), k <= Height[b]
          PROVE  CachedBy(b)[k] = Path[b][k + 1]
      <4>1. CASE k = Height[b] BY <4>1, <1>8 DEF CachedBy
      <4>2. CASE k /= Height[b]
        <5>1. k \in DOMAIN blockCache /\ CachedBy(b)[k] = blockCache[k] BY <4>2, <1>10
        <5>2. k \in Nat BY <5>1, <1>1 DEF TypeOK
        <5>3. k <= NodeHeight(chain) /\ k + 1 \in 1 .. Height[b] BY <5>2, <4>2, <3>1, <1>7, <1>8
        <5>4. blockCache[k] = Path[p][k + 1] BY <5>1, <5>3, <1>1, <1>6 DEF BlocksOK
        <5>. QED BY <5>1, <5>3, <5>4, <1>8
      <4>. QED BY <4>1, <4>2
    <3>. QED BY <3>1, <2>2, <2>3, <2>4 DEF BlocksOK
  <2>13. ~has("reorgs") => OneBranch'
    <3>1. SUFFICES ASSUME ~has("reorgs") PROVE OneBranch' BY DEF has
    <3>2. OneBranch BY <3>1, <1>1
    <3>3. b \in On(tip)
      <4>1. b = job.conn[1] /\ 1 \in 1 .. Len(job.conn) BY <1>2, <1>4, <1>11
      <4>. QED BY <4>1, <3>2 DEF OneBranch
    <3>4. ASSUME NEW i \in 1 .. Len(job'.conn) PROVE job'.conn[i] \in On(tip)
      <4>1. i + 1 \in 1 .. Len(job.conn) /\ job'.conn[i] = job.conn[i + 1]
        BY <2>6, <1>4, <1>11
      <4>. QED BY <4>1, <3>2 DEF OneBranch
    <3>. QED BY <3>2, <3>3, <3>4, <2>2, <2>4, <1>4 DEF OneBranch
  <2>. QED BY <2>9, <2>11, <2>12, <2>13, <1>4 DEF Stored, has
<1>. QED BY <1>3, <1>12, <1>13, <1>14 DEF Refusing

\* The diff appended is that of the block just connected, over what the disk
\* held.
LEMMA AppendStored == ASSUME Basic, Stored, AppendDiff PROVE Stored'
<1>1. /\ TypeOK /\ HeightsOK
      /\ StoresOK /\ DiskOK /\ BlocksOK /\ (~has("reorgs") => OneBranch)
  BY DEF Basic, Stored
<1>2. /\ Len(diffs) + 1 = NodeHeight(chain) /\ pc = "append" /\ pc' = "connect"
      /\ diffs' = Append(diffs, job.diff) /\ job.diff \in Diff
      /\ diffDB' \in Seq(Diff)
      /\ Len(diffDB') = IF NodeHeight(chain) > Len(diffDB) THEN Len(diffDB) + 1 ELSE Len(diffDB)
      /\ \A h \in 1 .. Len(diffDB') :
           diffDB'[h] = IF h = NodeHeight(chain) THEN job.diff ELSE diffDB[h]
      /\ liveTicketCache' = applyDiff(liveTicketCache, job.diff.in, job.diff.out)
      /\ job' = [job EXCEPT !.diff = NoJob.diff]
      /\ UNCHANGED <<env, tip, happened, inbox, chainDB, chain, blockCache>>
  BY AppendedDisk
<1>3. PICK b : b = Best OBVIOUS
<1>4. /\ b \in Blocks /\ NodeHeight(chain) = Height[b] /\ Height[b] \in Nat
      /\ BestNode(chain).live = LiveAt(b)
  BY <1>1, <1>3, StoredFacts
<1>5. /\ b /= Genesis /\ job.diff = DiffOf(b) /\ diffs = SyncedDiffs(Parent[b])
      /\ liveTicketCache = LiveAt(Parent[b]) /\ chain = Synced[b]
  BY <1>1, <1>2, <1>3 DEF StoresOK
<1>6. Best' = b BY <1>2, <1>3 DEF Best
<1>7. diffs' = SyncedDiffs(b) BY <1>2, <1>4, <1>5, SyncedDiffsFacts
<1>8. liveTicketCache' = LiveAt(b)
  <2>1. LiveAt(b) = applyDiff(LiveAt(Parent[b]), DiffOf(b).in, DiffOf(b).out)
    BY <1>4, <1>5, DiffFacts
  <2>. QED BY <2>1, <1>2, <1>5
<1>9. StoresOK' BY <1>2, <1>4, <1>5, <1>6, <1>7, <1>8 DEF StoresOK
<1>10. Height[b] >= 1 /\ SyncedDiffs(b)[Height[b]] = DiffOf(b)
  <2>1. Height[b] = Height[Parent[b]] + 1 /\ Height[Parent[b]] \in Nat /\ Path[b][Height[b] + 1] = b
    BY <1>4, <1>5, TreeFacts
  <2>2. Height[b] \in 1 .. Height[b] BY <2>1
  <2>3. SyncedDiffs(b)[Height[b]] = DiffOf(Path[b][Height[b] + 1]) BY <2>2, <1>4, SyncedDiffsFacts
  <2>. QED BY <2>1, <2>3
<1>11. Len(diffDB) \in Nat BY <1>1 DEF TypeOK
<1>12. \A h \in 1 .. Len(diffDB') : h /= Height[b] => h \in 1 .. Len(diffDB) /\ diffDB'[h] = diffDB[h]
  <2>1. Len(diffs) <= Len(diffDB) /\ Len(diffs) \in Nat BY <1>1 DEF HeightsOK, TypeOK
  <2>2. Height[b] <= Len(diffDB) + 1 BY <2>1, <1>2, <1>4, <1>11
  <2>. QED BY <2>2, <1>2, <1>4, <1>11
<1>13. \A h \in 1 .. Len(diffDB') : h = Height[b] => diffDB'[h] = SyncedDiffs(b)[h]
  BY <1>2, <1>4, <1>5, <1>10
<1>14. DiskOK'
  <2>1. ASSUME NEW h \in 1 .. Len(diffDB'), h <= Height[b] PROVE diffDB'[h] = SyncedDiffs(b)[h]
    <3>1. CASE h = Height[b] BY <3>1, <1>13
    <3>2. CASE h /= Height[b]
      <4>1. h \in 1 .. Len(diffDB) /\ diffDB'[h] = diffDB[h] /\ h < Height[b]
        BY <3>2, <2>1, <1>4, <1>12
      <4>. QED BY <4>1, <2>1, <1>1, <1>3, <1>4 DEF DiskOK
    <3>. QED BY <3>1, <3>2
  <2>. QED BY <2>1, <1>2, <1>4, <1>6 DEF DiskOK
<1>15. BlocksOK' BY <1>1, <1>2, <1>3, <1>6 DEF BlocksOK
<1>16. ~has("reorgs") => OneBranch'
  <2>1. SUFFICES ASSUME ~has("reorgs") PROVE OneBranch' BY DEF has
  <2>2. OneBranch /\ tip \in Blocks BY <2>1, <1>1 DEF TypeOK
  <2>3. b \in On(tip) BY <2>2, <1>3 DEF OneBranch
  <2>4. ASSUME NEW h \in 1 .. Len(diffDB') PROVE h <= Height[tip] /\ diffDB'[h] = SyncedDiffs(tip)[h]
    <3>1. CASE h = Height[b]
      <4>1. h \in 1 .. Height[b] BY <3>1, <1>4, <1>10
      <4>2. SyncedDiffs(b)[h] = SyncedDiffs(tip)[h] BY <4>1, <2>2, <2>3, SyncedDiffsOn
      <4>3. Height[b] <= Height[tip] BY <2>2, <2>3, OnFacts
      <4>. QED BY <4>2, <4>3, <3>1, <1>13
    <3>2. CASE h /= Height[b] BY <3>2, <2>2, <1>12 DEF OneBranch
    <3>. QED BY <3>1, <3>2
  <2>5. job \in [sync : BOOLEAN, new : Blocks, to : Nat, conn : Seq(Blocks), diff : Diff]
    BY <1>1 DEF TypeOK
  <2>6. job'.conn = job.conn BY <2>5, <1>2
  <2>. QED BY <2>2, <2>3, <2>4, <2>6, <1>2, <1>6 DEF OneBranch
<1>. QED BY <1>2, <1>9, <1>14, <1>15, <1>16 DEF Stored, has

LEMMA ReceiveStored == ASSUME Basic, Stored, Receive PROVE Stored'
<1>1. StoresOK /\ DiskOK /\ BlocksOK /\ (~has("reorgs") => OneBranch) BY DEF Stored
<1>2. PICK m : Taken(m) BY ReceiveFacts
<1>3. /\ UNCHANGED <<env, tip, chain, diffDB, diffs, liveTicketCache, blockCache>> /\ pc = "idle"
      /\ pc' \in {"connect", "disconnect"}
  BY DEF Receive, dcrd, mem
<1>4. Best' = Best BY <1>3 DEF Best
<1>5. StoresOK' BY <1>1, <1>3, <1>4 DEF StoresOK
<1>6. DiskOK' /\ BlocksOK' BY <1>1, <1>3, <1>4 DEF DiskOK, BlocksOK
<1>7. ~has("reorgs") => OneBranch'
  <2>1. SUFFICES ASSUME ~has("reorgs") PROVE OneBranch' BY DEF has
  <2>2. OneBranch BY <2>1, <1>1
  <2>3. /\ inbox \in Seq(Message) /\ inbox /= <<>> /\ m = Head(inbox) /\ inbox' = Tail(inbox)
        /\ job'.conn = <<m.new>>
    BY <2>1, <1>2 DEF Taken
  <2>4. /\ m = inbox[1] /\ 1 \in 1 .. Len(inbox)
        /\ \A i \in 1 .. Len(inbox') : i + 1 \in 1 .. Len(inbox) /\ inbox'[i] = inbox[i + 1]
    BY <2>3
  <2>5. m.new \in On(tip) /\ \A i \in 1 .. Len(inbox') : inbox'[i].new \in On(tip)
    BY <2>2, <2>4 DEF OneBranch
  <2>6. \A i \in 1 .. Len(job'.conn) : job'.conn[i] \in On(tip) BY <2>3, <2>5
  <2>. QED BY <2>2, <2>5, <2>6, <1>3, <1>4 DEF OneBranch
<1>. QED BY <1>3, <1>5, <1>6, <1>7 DEF Stored, has

LEMMA OrdinaryStored ==
    ASSUME Basic, Calm, Stored,
           Disconnected \/ Connected \/ StoreBlock \/ Rewound \/ GetBlockFails
    PROVE  Stored'
<1>1. TypeOK /\ StoresOK /\ (~has("reorgs") => OneBranch) BY DEF Basic, Stored
<1>2. /\ UNCHANGED <<env, tip, happened, chain, diffDB>>
      /\ pc \in {"disconnect", "connect", "store", "rewind"}
  BY DEF Disconnected, Connected, StoreBlock, Rewound, GetBlockFails, HandlerFails, dcrd
<1>3. CASE Ends /\ GetBlockFails BY <1>2, <1>3, EndsStored
<1>4. CASE ~(Ends /\ GetBlockFails)
  <2>1. /\ UNCHANGED <<inbox, diffs, liveTicketCache, blockCache>> /\ job' \in {job, NoJob}
        /\ pc' \in {"connect", "store", "idle", "sync"}
    BY <1>2, <1>4
       DEF Disconnected, Connected, StoreBlock, Rewound, GetBlockFails, HandlerFails, dcrd, mem
  <2>2. ~has("reorgs") => \A i \in 1 .. Len(job'.conn) : job'.conn[i] \in On(tip)
    <3>1. CASE job' = job BY <3>1, <1>1 DEF OneBranch
    <3>2. CASE job' = NoJob BY <3>2, NoJobFacts
    <3>. QED BY <3>1, <3>2, <2>1
  <2>. QED BY <2>1, <2>2, <1>2, KeepStored
<1>. QED BY <1>3, <1>4

LEMMA StopStored ==
    ASSUME Basic, Calm, Stored, Stop \/ MaturingBlockFails PROVE Stored'
<1>1. Ends /\ UNCHANGED <<env, tip, chain, diffDB>> /\ (pc = "append" => has("crashes"))
  BY DEF Stop, MaturingBlockFails, dcrd
<1>. QED BY <1>1, EndsStored

LEMMA OpenStored == ASSUME Stored, Open PROVE Stored'
<1>1. StoresOK /\ DiskOK /\ BlocksOK /\ (~has("reorgs") => OneBranch) BY DEF Stored
<1>2. /\ pc' = "load" /\ pc = "down"
      /\ UNCHANGED <<env, tip, inbox, chain, diffDB, blockCache, job>>
  BY DEF Open, dcrd
<1>3. Best' = Best BY <1>2 DEF Best
<1>4. StoresOK' BY <1>1, <1>2, <1>3 DEF StoresOK
<1>5. DiskOK' /\ BlocksOK' BY <1>1, <1>2, <1>3 DEF DiskOK, BlocksOK
<1>6. ~has("reorgs") => OneBranch' BY <1>1, <1>2, <1>3 DEF OneBranch
<1>. QED BY <1>2, <1>4, <1>5, <1>6 DEF Stored, has

\* Every diff that start-up loads and keeps is right: nothing is recovered.
LEMMA AdvanceStored == ASSUME Basic, Stored, AdvanceToTip PROVE Stored'
<1>1. /\ TypeOK /\ HeightsOK
      /\ StoresOK /\ DiskOK /\ BlocksOK /\ (~has("reorgs") => OneBranch)
  BY DEF Basic, Stored
<1>2. /\ pc = "load" /\ NodeHeight(chain) <= Len(diffs) /\ diffs' = Trimmed(diffs)
      /\ UNCHANGED <<env, tip, inbox, chainDB, chain, diffDB, blockCache>>
  BY DEF AdvanceToTip, dcrd
<1>3. PICK b : b = Best OBVIOUS
<1>4. b \in Blocks /\ NodeHeight(chain) = Height[b] /\ Height[b] \in Nat
  BY <1>1, <1>3, StoredFacts
<1>5. diffs = diffDB BY <1>1, <1>2 DEF HeightsOK
<1>6. /\ Trimmed(diffs) \in Seq(Diff) /\ Len(Trimmed(diffs)) = Height[b]
      /\ \A i \in 1 .. Height[b] : Trimmed(diffs)[i] = diffDB[i]
  BY <1>1, <1>2, <1>4, <1>5, TrimmedFacts
<1>7. Len(diffDB) \in Nat /\ Height[b] <= Len(diffDB) BY <1>1, <1>2, <1>4, <1>5 DEF TypeOK
<1>8. \A i \in 1 .. Height[b] : diffDB[i] = SyncedDiffs(b)[i]
  BY <1>1, <1>2, <1>3, <1>4, <1>7 DEF DiskOK
<1>9. SyncedDiffs(b) \in Seq(Diff) /\ Len(SyncedDiffs(b)) = Height[b] BY <1>4, SyncedDiffsFacts
<1>10. Trimmed(diffs) = SyncedDiffs(b)
  <2>1. PICK d : d = Trimmed(diffs) OBVIOUS
  <2>2. PICK e : e = SyncedDiffs(b) OBVIOUS
  <2>3. d \in Seq(Diff) /\ e \in Seq(Diff) /\ Len(d) = Len(e) BY <2>1, <2>2, <1>6, <1>9
  <2>4. \A i \in 1 .. Len(e) : d[i] = e[i] BY <2>1, <2>2, <1>6, <1>8, <1>9
  <2>5. d = e BY <2>3, <2>4
  <2>. QED BY <2>1, <2>2, <2>5
<1>11. BadDiffs(Trimmed(diffs)) = {} BY <1>4, <1>10, NoBadDiffs
<1>12. liveTicketCache' = BestNode(chain).live /\ pc' = "purge" /\ job' = job
  BY <1>11 DEF AdvanceToTip, PopulateLiveTicketCache
<1>13. Best' = Best BY <1>2 DEF Best
<1>14. StoresOK' BY <1>1, <1>2, <1>3, <1>10, <1>12, <1>13 DEF StoresOK
<1>15. DiskOK' /\ BlocksOK' BY <1>1, <1>2, <1>12, <1>13 DEF DiskOK, BlocksOK
<1>16. ~has("reorgs") => OneBranch' BY <1>1, <1>2, <1>12, <1>13 DEF OneBranch
<1>. QED BY <1>2, <1>14, <1>15, <1>16 DEF Stored, has

LEMMA StartingStored ==
    ASSUME Basic, Calm, Stored, Recovered \/ PurgeBestBlocks \/ SyncChainDB PROVE Stored'
<1>1. TypeOK /\ Modes /\ StoresOK /\ (~has("reorgs") => OneBranch) BY DEF Basic, Stored
<1>2. UNCHANGED <<env, tip, happened, chain, diffDB>> /\ pc \in {"purge", "sync"}
  BY <1>1 DEF Recovered, PurgeBestBlocks, SyncChainDB, dcrd, StoresOK
<1>3. CASE Ends BY <1>2, <1>3, EndsStored
<1>4. CASE ~Ends
  <2>1. UNCHANGED <<inbox, diffs, liveTicketCache, blockCache>> /\ pc' \in {"rewind", "idle", "corrupt", "connect"}
    BY <1>2, <1>4 DEF Recovered, PurgeBestBlocks, SyncChainDB, mem
  <2>2. ~has("reorgs") => \A i \in 1 .. Len(job'.conn) : job'.conn[i] \in On(tip)
    <3>1. CASE job' = job BY <3>1, <1>1 DEF OneBranch
    <3>2. CASE SyncChainDB /\ job' /= job
      <4>1. PICK ib : ib = Height[chainDB] + 1 OBVIOUS
      <4>2. PICK b : b = Path[tip][ib + 1] OBVIOUS
      <4>3. PICK conn : conn = IF ib - NodeHeight(chain) = 1 THEN <<b>> ELSE <<>> OBVIOUS
      <4>4. ~(ib > Height[tip]) /\ job' = [NoJob EXCEPT !.sync = TRUE, !.new = b, !.conn = conn]
        BY <4>1, <4>2, <4>3, <3>2 DEF SyncChainDB
      <4>5. job'.conn = conn BY <4>4, NoJobFacts
      <4>6. tip \in Blocks /\ Height[chainDB] \in Nat /\ Height[tip] \in Nat BY <1>1, TypeFacts DEF TypeOK
      <4>7. ib + 1 \in 1 .. Height[tip] + 1 BY <4>1, <4>4, <4>6
      <4>8. b \in On(tip) BY <4>2, <4>6, <4>7, OnPath
      <4>9. conn = <<b>> \/ conn = <<>> BY <4>3
      <4>. QED BY <4>5, <4>8, <4>9
    <3>. QED BY <3>1, <3>2, <1>2, <1>4 DEF Recovered, PurgeBestBlocks
  <2>. QED BY <2>1, <2>2, <1>2, KeepStored
<1>. QED BY <1>3, <1>4

LEMMA StoredInit == Init => Stored
<1>1. SUFFICES ASSUME Init PROVE Stored OBVIOUS
<1>2. Start \in Blocks /\ Height[Start] \in Nat BY TreeAssumption, TreeFacts
<1>3. SyncedOK(Start) BY <1>2, SyncedFacts
<1>4. Best = Start /\ chain = Synced[Start] /\ pc = "idle" BY <1>1, <1>3 DEF Init, Best, SyncedOK
<1>5. StoresOK BY <1>1, <1>4 DEF Init, StoresOK
<1>6. DiskOK /\ BlocksOK BY <1>1, <1>4 DEF Init, DiskOK, BlocksOK
<1>7. Start \in On(Start)
  <2>1. Height[Start] + 1 \in 1 .. Height[Start] + 1 BY <1>2
  <2>2. Path[Start][Height[Start] + 1] \in On(Start) BY <2>1, <1>2, OnPath
  <2>. QED BY <2>2, <1>2, TreeFacts
<1>8. Len(SyncedDiffs(Start)) = Height[Start] BY <1>2, SyncedDiffsFacts
<1>9. OneBranch BY <1>1, <1>2, <1>4, <1>7, <1>8, NoJobFacts DEF Init, OneBranch
<1>. QED BY <1>5, <1>6, <1>9 DEF Stored

\* What has been misplaced stays so.
LEMMA CalmBefore == ASSUME Basic, [Next]_vars, Calm' PROVE Calm
<1>1. happened \in [reorgs : 0 .. env.maxReorgs, stops : 0 .. env.maxStops, misplaced : BOOLEAN]
  BY DEF Basic, TypeOK
<1>2. env' = env /\ (happened.misplaced => happened'.misplaced)
  <2>1. CASE UNCHANGED vars BY <2>1 DEF vars, dcrd
  <2>2. CASE \E b \in Blocks : dcrdConnects(b) \/ dcrdReorganizes(b)
    BY <2>2, <1>1 DEF dcrdConnects, dcrdReorganizes
  <2>3. CASE ConnectBlock
    <3>1. env' = env /\ \E p \in BOOLEAN : happened' = [happened EXCEPT !.misplaced = @ \/ p]
      BY <2>3 DEF ConnectBlock, dcrd
    <3>. QED BY <3>1, <1>1
  <2>4. CASE Stop BY <2>4, <1>1 DEF Stop, dcrd
  <2>5. CASE \/ Receive \/ Disconnect \/ Disconnected \/ AppendDiff \/ Connected \/ StoreBlock
             \/ Open \/ RollBack \/ AdvanceToTip \/ LoadAndRecover \/ Recovered
             \/ PurgeBestBlocks \/ RewindStakeDB \/ Rewound \/ SyncChainDB
             \/ GetBlockFails \/ MaturingBlockFails
    <3>1. env' = env /\ happened' = happened
      BY <2>5 DEF Receive, Disconnect, Disconnected, AppendDiff, Connected, StoreBlock,
                  Open, RollBack, AdvanceToTip, LoadAndRecover, Recovered, PurgeBestBlocks,
                  RewindStakeDB, Rewound, SyncChainDB, GetBlockFails, MaturingBlockFails, dcrd
    <3>. QED BY <3>1
  <2>. QED BY <2>1, <2>2, <2>3, <2>4, <2>5 DEF Next, Run
<1>. QED BY <1>2 DEF Calm, has

\* Stored is kept as long as every block is connected to its parent.
LEMMA StoredNext ==
    ASSUME Basic, Calm => Stored, [Next]_vars PROVE Calm' => Stored'
<1>1. SUFFICES ASSUME Calm' PROVE Stored' OBVIOUS
<1>2. Calm /\ Stored BY <1>1, CalmBefore
<1>3. CASE UNCHANGED vars
  BY <1>2, <1>3 DEF vars, dcrd, mem, Stored, StoresOK, DiskOK, BlocksOK, OneBranch, has, Best
<1>4. CASE \E b \in Blocks : dcrdConnects(b) \/ dcrdReorganizes(b) BY <1>2, <1>4, TipStored
<1>5. CASE Run
  <2>1. CASE Receive BY <2>1, <1>2, ReceiveStored
  <2>2. CASE Disconnect \/ RollBack \/ LoadAndRecover \/ RewindStakeDB
    BY <2>2, <1>2, DisconnectingStored
  <2>3. CASE Disconnected \/ Connected \/ StoreBlock \/ Rewound BY <2>3, <1>2, OrdinaryStored
  <2>4. CASE ConnectBlock BY <2>4, <1>1, <1>2, ConnectStored
  <2>5. CASE AppendDiff BY <2>5, <1>2, AppendStored
  <2>6. CASE Open BY <2>6, <1>2, OpenStored
  <2>7. CASE AdvanceToTip BY <2>7, <1>2, AdvanceStored
  <2>8. CASE Recovered \/ PurgeBestBlocks \/ SyncChainDB BY <2>8, <1>2, StartingStored
  <2>. QED BY <2>1, <2>2, <2>3, <2>4, <2>5, <2>6, <2>7, <2>8, <1>5 DEF Run
<1>6. CASE GetBlockFails BY <1>2, <1>6, OrdinaryStored
<1>7. CASE MaturingBlockFails \/ Stop BY <1>2, <1>7, StopStored
<1>. QED BY <1>3, <1>4, <1>5, <1>6, <1>7 DEF Next

-----------------------------------------------------------------------------
(* Without failing RPCs every block is connected to its parent. *)

Linked(q, from, to) ==
    IF q = <<>> THEN from = to
    ELSE /\ q[1].old = from /\ q[Len(q)].new = to
         /\ \A i \in 1 .. Len(q) - 1 : q[i + 1].old = q[i].new

\* The handlers are on the way from the best node to the block announced.
OnTheWay ==
    /\ pc \in {"connect", "append"} =>
         /\ Best \in On(job.new)
         /\ job.conn = SubSeq(Path[job.new], NodeHeight(chain) + 2, Height[job.new] + 1)
    /\ pc = "disconnect" =>
         /\ job.to <= NodeHeight(chain) /\ job.to < Height[job.new]
         /\ Path[job.new][job.to + 1] = Path[Best][job.to + 1]
         /\ job.conn = SubSeq(Path[job.new], job.to + 2, Height[job.new] + 1)
    /\ pc = "store" => Best = job.new

\* The notifier's queue leads from there to dcrd's best block.
QueueOK == IF Listening THEN Linked(inbox, IF pc = "idle" THEN Best ELSE job.new, tip)
                        ELSE inbox = <<>>

\* The chain database is never ahead, and the node one block at most.
Restarting ==
    /\ chainDB \in On(tip)
    /\ Height[chainDB] <= NodeHeight(chain) /\ Height[chainDB] <= Len(diffDB)
    /\ NodeHeight(chain) <= Len(diffDB) + 1
    /\ pc \in {"purge", "rewind", "sync", "load", "down"} => ~job.sync
    /\ pc = "sync" => NodeHeight(chain) = Height[chainDB]
    /\ pc /= "corrupt"

Served == ~(has("reorgs") /\ has("crashes")) /\ ~has("rpc")
Followed == ~happened.misplaced /\ OnTheWay /\ QueueOK /\ (~has("reorgs") => Restarting)

\* A queue that leads from one block to another, and its ends.
LEMMA LinkedAppend ==
    ASSUME NEW q \in Seq(Message), NEW from, NEW to, Linked(q, from, to), NEW m \in Message, m.old = to
    PROVE  Linked(Append(q, m), from, m.new)
<1>1. PICK r : r = Append(q, m) OBVIOUS
<1>2. /\ Len(q) \in Nat /\ Len(r) = Len(q) + 1 /\ r[Len(q) + 1] = m /\ r /= <<>>
      /\ \A i \in 1 .. Len(q) : r[i] = q[i]
  BY <1>1
<1>3. CASE q = <<>>
  <2>1. from = to /\ Len(q) = 0 BY <1>3 DEF Linked
  <2>2. r[1] = m /\ Len(r) = 1 BY <2>1, <1>2
  <2>. QED BY <2>1, <2>2, <1>1, <1>2 DEF Linked
<1>4. CASE q /= <<>>
  <2>1. /\ q[1].old = from /\ q[Len(q)].new = to /\ Len(q) >= 1
        /\ \A i \in 1 .. Len(q) - 1 : q[i + 1].old = q[i].new
    BY <1>4 DEF Linked
  <2>2. r[1] = q[1] /\ r[Len(q)] = q[Len(q)] BY <2>1, <1>2
  <2>3. ASSUME NEW i \in 1 .. Len(r) - 1 PROVE r[i + 1].old = r[i].new
    <3>1. CASE i = Len(q) BY <3>1, <2>1, <2>2, <1>2
    <3>2. CASE i \in 1 .. Len(q) - 1
      <4>1. r[i] = q[i] /\ r[i + 1] = q[i + 1] BY <3>2, <1>2
      <4>. QED BY <4>1, <3>2, <2>1
    <3>. QED BY <3>1, <3>2, <1>2
  <2>. QED BY <2>1, <2>2, <2>3, <1>1, <1>2 DEF Linked
<1>. QED BY <1>3, <1>4

LEMMA LinkedTail ==
    ASSUME NEW q \in Seq(Message), q /= <<>>, NEW from, NEW to, Linked(q, from, to)
    PROVE  Head(q).old = from /\ Linked(Tail(q), Head(q).new, to)
<1>1. PICK r : r = Tail(q) OBVIOUS
<1>2. /\ Len(q) \in Nat /\ Len(q) >= 1 /\ r \in Seq(Message) /\ Len(r) = Len(q) - 1 /\ Head(q) = q[1]
      /\ \A i \in 1 .. Len(q) - 1 : r[i] = q[i + 1]
  BY <1>1
<1>3. /\ q[1].old = from /\ q[Len(q)].new = to
      /\ \A i \in 1 .. Len(q) - 1 : q[i + 1].old = q[i].new
  BY DEF Linked
<1>4. CASE r = <<>>
  <2>1. Len(q) = 1 BY <1>2, <1>4
  <2>. QED BY <2>1, <1>1, <1>2, <1>3, <1>4 DEF Linked
<1>5. CASE r /= <<>>
  <2>1. Len(r) >= 1 BY <1>2, <1>5
  <2>2. r[1] = q[2] /\ r[Len(r)] = q[Len(q)] BY <2>1, <1>2
  <2>3. q[2].old = q[1].new
    <3>1. 1 \in 1 .. Len(q) - 1 /\ 1 + 1 = 2 BY <2>1, <1>2
    <3>. QED BY <3>1, <1>3
  <2>4. ASSUME NEW i \in 1 .. Len(r) - 1 PROVE r[i + 1].old = r[i].new
    <3>1. /\ i \in 1 .. Len(q) - 1 /\ i + 1 \in 1 .. Len(q) - 1 BY <1>2
    <3>2. r[i] = q[i + 1] /\ r[i + 1] = q[(i + 1) + 1] BY <3>1, <1>2
    <3>. QED BY <3>1, <3>2, <1>3
  <2>. QED BY <2>2, <2>3, <2>4, <1>1, <1>2, <1>3, <1>5 DEF Linked
<1>. QED BY <1>4, <1>5

\* The way from a parent to its child.
LEMMA OneStep ==
    ASSUME NEW b \in Blocks, b /= Genesis
    PROVE  /\ Parent[b] \in On(b) /\ Height[Parent[b]] \in Nat /\ Height[b] = Height[Parent[b]] + 1
           /\ SubSeq(Path[b], Height[Parent[b]] + 2, Height[b] + 1) = <<b>>
<1>1. /\ Height[b] = Height[Parent[b]] + 1 /\ Height[Parent[b]] \in Nat /\ Parent[b] \in Blocks
      /\ Path[b] \in Seq(Blocks) /\ Len(Path[b]) = Height[b] + 1 /\ Path[b][Height[b] + 1] = b
      /\ \A i \in 1 .. Height[b] : Path[b][i] = Path[Parent[b]][i]
  BY TreeFacts
<1>2. Path[Parent[b]][Height[Parent[b]] + 1] = Parent[b] BY <1>1, TreeFacts
<1>3. Height[b] \in 1 .. Height[b] + 1 /\ Height[b] \in 1 .. Height[b] BY <1>1
<1>4. Path[b][Height[b]] \in On(b) BY <1>3, OnPath
<1>5. Parent[b] \in On(b) BY <1>1, <1>2, <1>3, <1>4
<1>6. PICK n : n = Height[b] + 1 OBVIOUS
<1>7. n \in 1 .. Len(Path[b]) + 1 /\ n = Len(Path[b]) /\ Path[b][n] = b BY <1>1, <1>6
<1>8. /\ SubSeq(Path[b], n, Len(Path[b])) \in Seq(Blocks)
      /\ Len(SubSeq(Path[b], n, Len(Path[b]))) = Len(Path[b]) - n + 1
      /\ \A i \in 1 .. Len(Path[b]) - n + 1 : SubSeq(Path[b], n, Len(Path[b]))[i] = Path[b][n + i - 1]
  <2>1. n \in 1 .. Len(Path[b]) + 1 /\ Path[b] \in Seq(Blocks) BY <1>1, <1>7
  <2>. QED BY <2>1, Suffix
<1>9. PICK s : s = SubSeq(Path[b], n, n) OBVIOUS
<1>10. s \in Seq(Blocks) /\ Len(s) = 1 /\ s[1] = b
  <2>1. Len(Path[b]) - n + 1 = 1 /\ n + 1 - 1 = n /\ 1 \in 1 .. 1 BY <1>1, <1>6, <1>7
  <2>2. s \in Seq(Blocks) /\ Len(s) = 1 BY <2>1, <1>7, <1>8, <1>9
  <2>3. s[1] = Path[b][n + 1 - 1] BY <2>1, <1>7, <1>8, <1>9
  <2>. QED BY <2>1, <2>2, <2>3, <1>7
<1>11. s = <<b>> BY <1>10
<1>12. Height[Parent[b]] + 2 = n BY <1>1, <1>6
<1>. QED BY <1>1, <1>5, <1>6, <1>9, <1>11, <1>12

LEMMA SuffixTail ==
    ASSUME NEW S, NEW s \in Seq(S), NEW m \in 1 .. Len(s)
    PROVE  /\ SubSeq(s, m, Len(s)) \in Seq(S) /\ Len(SubSeq(s, m, Len(s))) = Len(s) - m + 1
           /\ Head(SubSeq(s, m, Len(s))) = s[m]
           /\ Tail(SubSeq(s, m, Len(s))) = SubSeq(s, m + 1, Len(s))
<1>1. SubSeq(s, m, Len(s)) \in Seq(S) /\ Len(SubSeq(s, m, Len(s))) = Len(s) - m + 1 OBVIOUS
<1>2. Tail(SubSeq(s, m, Len(s))) = SubSeq(s, m + 1, Len(s)) OBVIOUS
<1>3. SubSeq(s, m, Len(s))[1] = s[m] OBVIOUS
<1>4. PICK q : q = SubSeq(s, m, Len(s)) OBVIOUS
<1>5. Len(q) >= 1 /\ q \in Seq(S) BY <1>1, <1>4
<1>6. Head(q) = q[1] BY <1>5
<1>. QED BY <1>1, <1>2, <1>3, <1>4, <1>6

\* The rest of the way, from a block on it.
LEMMA Way ==
    ASSUME NEW b \in Blocks, NEW n \in Nat, n <= Height[b]
    PROVE  /\ n = Height[b] => SubSeq(Path[b], n + 2, Height[b] + 1) = <<>>
           /\ n < Height[b] => /\ SubSeq(Path[b], n + 2, Height[b] + 1) /= <<>>
                               /\ Head(SubSeq(Path[b], n + 2, Height[b] + 1)) = Path[b][n + 2]
                               /\ Tail(SubSeq(Path[b], n + 2, Height[b] + 1)) =
                                    SubSeq(Path[b], n + 3, Height[b] + 1)
<1>1. PICK s : s = Path[b] OBVIOUS
<1>2. Height[b] \in Nat /\ s \in Seq(Blocks) /\ Len(s) = Height[b] + 1 BY <1>1, TreeFacts
<1>3. PICK m : m = n + 2 OBVIOUS
<1>4. m \in Nat /\ n + 3 = m + 1 BY <1>3
<1>5. ASSUME n = Height[b] PROVE SubSeq(s, m, Len(s)) = <<>>
  <2>1. m \in 1 .. Len(s) + 1 /\ Len(s) - m + 1 = 0 BY <1>2, <1>3, <1>5
  <2>2. PICK q : q = SubSeq(s, m, Len(s)) OBVIOUS
  <2>3. q \in Seq(Blocks) /\ Len(q) = 0 BY <2>1, <2>2, <1>2, Suffix
  <2>. QED BY <2>2, <2>3
<1>6. ASSUME n < Height[b]
      PROVE  /\ SubSeq(s, m, Len(s)) /= <<>> /\ Head(SubSeq(s, m, Len(s))) = s[m]
             /\ Tail(SubSeq(s, m, Len(s))) = SubSeq(s, m + 1, Len(s))
  <2>1. m \in 1 .. Len(s) /\ Len(s) - m + 1 >= 1 BY <1>2, <1>3, <1>6
  <2>2. PICK q : q = SubSeq(s, m, Len(s)) OBVIOUS
  <2>3. Len(q) >= 1 /\ q \in Seq(Blocks) /\ Head(q) = s[m] /\ Tail(q) = SubSeq(s, m + 1, Len(s))
    BY <2>1, <2>2, <1>2, SuffixTail
  <2>4. q /= <<>> BY <2>3
  <2>. QED BY <2>2, <2>3, <2>4
<1>. QED BY <1>1, <1>2, <1>3, <1>4, <1>5, <1>6

\* Every step keeps Followed. What dcrd announces leads on.
LEMMA TipFollowed ==
    ASSUME Basic, Followed, NEW b \in Blocks, dcrdConnects(b) \/ dcrdReorganizes(b)
    PROVE  Followed'
<1>1. TypeOK /\ OnTheWay /\ QueueOK BY DEF Basic, Followed
<1>2. UNCHANGED <<env, chainDB, chain, diffDB, diffs, liveTicketCache, blockCache, pc, job>> /\ tip' = b
  BY DEF dcrdConnects, dcrdReorganizes, mem
<1>3. Best' = Best /\ (Listening <=> Listening') BY <1>2 DEF Best, Listening
<1>4. ~happened'.misplaced
  <2>1. happened \in [reorgs : 0 .. env.maxReorgs, stops : 0 .. env.maxStops, misplaced : BOOLEAN]
        /\ ~happened.misplaced
    BY <1>1 DEF TypeOK, Followed
  <2>. QED BY <2>1 DEF dcrdConnects, dcrdReorganizes
<1>5. OnTheWay' BY <1>1, <1>2, <1>3 DEF OnTheWay
<1>6. PICK m \in Message : m.old = tip /\ m.new = b /\ Notify(m)
  <2>1. tip \in Blocks BY <1>1 DEF TypeOK
  <2>2. CASE dcrdConnects(b)
    <3>. DEFINE m == [type |-> "block", old |-> tip, new |-> b]
    <3>1. m \in Message /\ m.old = tip /\ m.new = b BY <2>1 DEF Message
    <3>2. Notify(m) BY <2>2 DEF dcrdConnects
    <3>. QED BY <3>1, <3>2
  <2>3. CASE dcrdReorganizes(b)
    <3>. DEFINE m == [type |-> "reorg", old |-> tip, new |-> b]
    <3>1. m \in Message /\ m.old = tip /\ m.new = b BY <2>1 DEF Message
    <3>2. Notify(m) BY <2>3 DEF dcrdReorganizes
    <3>. QED BY <3>1, <3>2
  <2>. QED BY <2>2, <2>3
<1>7. QueueOK'
  <2>1. PICK from : from = IF pc = "idle" THEN Best ELSE job.new OBVIOUS
  <2>2. CASE Listening
    <3>1. Linked(inbox, from, tip) /\ inbox' = Append(inbox, m) /\ inbox \in Seq(Message)
      BY <2>1, <2>2, <1>1, <1>6 DEF QueueOK, Notify, TypeOK
    <3>2. Linked(inbox', from, b) BY <3>1, <1>6, LinkedAppend
    <3>. QED BY <3>2, <2>1, <2>2, <1>2, <1>3 DEF QueueOK
  <2>3. CASE ~Listening BY <2>3, <1>1, <1>3, <1>6 DEF QueueOK, Notify
  <2>. QED BY <2>2, <2>3
<1>8. ~has("reorgs") => Restarting'
  <2>1. SUFFICES ASSUME ~has("reorgs") PROVE Restarting' BY DEF has
  <2>2. Restarting /\ dcrdConnects(b) BY <2>1 DEF Followed, dcrdReorganizes
  <2>3. b /= Genesis /\ Parent[b] = tip BY <2>2 DEF dcrdConnects
  <2>4. chainDB \in On(tip) BY <2>2 DEF Restarting
  <2>5. chainDB \in On(b) BY <2>3, <2>4, OnChild
  <2>. QED BY <2>2, <2>5, <1>2 DEF Restarting
<1>. QED BY <1>2, <1>4, <1>5, <1>7, <1>8 DEF Followed, has

LEMMA EndsFollowed ==
    ASSUME Basic, Followed, Ends, UNCHANGED <<env, tip, chainDB, chain, diffDB>>,
           ~happened'.misplaced
    PROVE  Followed'
<1>1. ~has("reorgs") => Restarting BY DEF Followed
<1>2. pc' = "down" /\ inbox' = <<>> /\ job' = NoJob BY DEF Ends
<1>3. OnTheWay' BY <1>2 DEF OnTheWay
<1>4. QueueOK' BY <1>2 DEF QueueOK, Listening
<1>5. ~has("reorgs") => Restarting' BY <1>1, <1>2, NoJobFacts DEF Restarting
<1>. QED BY <1>3, <1>4, <1>5 DEF Followed, has

\* The message received starts where the node is.
LEMMA ReceiveFollowed == ASSUME Basic, Stored, Followed, Receive PROVE Followed'
<1>1. TypeOK /\ StoresOK /\ QueueOK BY DEF Basic, Stored, Followed
<1>2. PICK m : Taken(m) BY ReceiveFacts
<1>3. /\ UNCHANGED <<env, tip, happened, chainDB, chain, diffDB>> /\ pc = "idle"
      /\ pc' \in {"connect", "disconnect"}
  BY DEF Receive, dcrd
<1>4. PICK b : b = Best OBVIOUS
<1>5. b \in Blocks /\ NodeHeight(chain) = Height[b] /\ Height[b] \in Nat BY <1>1, <1>4, StoredFacts
<1>6. Best' = b BY <1>3, <1>4 DEF Best
<1>7. /\ m \in Message /\ m = Head(inbox) /\ inbox \in Seq(Message) /\ inbox /= <<>>
      /\ inbox' = Tail(inbox) /\ job'.new = m.new /\ ~job'.sync
  BY <1>2 DEF Taken
<1>8. Linked(inbox, b, tip) BY <1>1, <1>3, <1>4, <1>7 DEF QueueOK
<1>9. m.old = b /\ Linked(inbox', m.new, tip) BY <1>7, <1>8, LinkedTail
<1>10. Listening' BY <1>3, <1>7 DEF Listening
<1>11. QueueOK' BY <1>3, <1>7, <1>9, <1>10 DEF QueueOK
<1>12. m.new \in Blocks BY <1>7 DEF Message
<1>13. OnTheWay'
  <2>1. CASE /\ m.new /= Genesis /\ Parent[m.new] = m.old /\ job'.conn = <<m.new>>
             /\ pc' = "connect"
    <3>1. /\ b \in On(m.new)
          /\ SubSeq(Path[m.new], Height[b] + 2, Height[m.new] + 1) = <<m.new>>
      BY <2>1, <1>9, <1>12, OneStep
    <3>. QED BY <3>1, <2>1, <1>3, <1>5, <1>6, <1>7 DEF OnTheWay
  <2>2. CASE /\ Reorganizes(m.old, m.new) /\ pc' = "disconnect"
             /\ job'.conn = SubSeq(Path[m.new], PartAt(m.old, m.new) + 1, Len(Path[m.new]))
             /\ job'.to = PartAt(m.old, m.new) - 1
    <3>1. PICK p : p = PartAt(b, m.new) OBVIOUS
    <3>2. p \in 1 .. Height[m.new] /\ p <= Height[b] /\ Path[b][p] = Path[m.new][p]
      BY <3>1, <2>2, <1>5, <1>9, <1>12, PartFacts
    <3>3. Height[m.new] \in Nat /\ Len(Path[m.new]) = Height[m.new] + 1 BY <1>12, TreeFacts
    <3>4. job'.to = p - 1 /\ job'.conn = SubSeq(Path[m.new], p + 1, Height[m.new] + 1)
      BY <3>1, <3>3, <2>2, <1>9
    <3>5. /\ job'.to + 1 = p /\ job'.to + 2 = p + 1 /\ job'.to <= Height[b]
          /\ job'.to < Height[m.new]
      BY <3>2, <3>3, <3>4, <1>5
    <3>. QED BY <3>2, <3>4, <3>5, <2>2, <1>3, <1>5, <1>6, <1>7 DEF OnTheWay
  <2>. QED BY <2>1, <2>2, <1>2 DEF Taken
<1>14. ~has("reorgs") => Restarting' BY <1>3 DEF Followed, Restarting
<1>. QED BY <1>3, <1>11, <1>13, <1>14 DEF Followed, has

\* Disconnecting stops at the block where the branches part.
LEMMA DisconnectingFollowed ==
    ASSUME Basic, Stored, Served, Followed,
           Disconnect \/ RollBack \/ LoadAndRecover \/ RewindStakeDB
    PROVE  Followed'
<1>1. TypeOK /\ HeightsOK /\ Modes /\ StoresOK /\ OnTheWay /\ QueueOK
      /\ (~has("reorgs") => Restarting) /\ ~happened.misplaced
  BY DEF Basic, Stored, Followed
<1>2. UNCHANGED <<env, tip, happened, chainDB, diffDB>> /\ pc \in {"disconnect", "load", "rewind"}
  BY <1>1 DEF Disconnect, RollBack, LoadAndRecover, RewindStakeDB, dcrd, StoresOK
<1>3. /\ NodeHeight(chain) \in Nat /\ job.to \in Nat /\ Len(diffs) \in Nat /\ Len(diffDB) \in Nat
      /\ Height[chainDB] \in Nat /\ job.new \in Blocks
  BY <1>1, TypeFacts DEF TypeOK
<1>4. /\ pc = "disconnect" => NodeHeight(chain) > job.to
      /\ pc = "load" => NodeHeight(chain) > Len(diffs)
      /\ pc = "rewind" => NodeHeight(chain) > Height[chainDB]
  BY <1>2 DEF Disconnect, RollBack, LoadAndRecover, RewindStakeDB
<1>5. NodeHeight(chain) > 0 BY <1>2, <1>3, <1>4
<1>6. PICK neglect \in BOOLEAN : disconnectBlock(neglect)
  BY <1>2 DEF Disconnect, RollBack, LoadAndRecover, RewindStakeDB, Served
<1>7. CASE Ends /\ UNCHANGED chain BY <1>1, <1>2, <1>7, EndsFollowed
<1>8. CASE Popped
  <2>1. UNCHANGED <<inbox, pc, job>> BY <1>8 DEF Popped
  <2>2. PICK b : b = Best OBVIOUS
  <2>3. PICK p : p = Parent[b] OBVIOUS
  <2>4. /\ b /= Genesis /\ p \in Blocks /\ Height[b] = Height[p] + 1
        /\ Best' = p /\ NodeHeight(chain') = Height[p] /\ p \in On(b)
    BY <2>2, <2>3, <1>1, <1>5, <1>8, PopChain
  <2>5. b \in Blocks /\ NodeHeight(chain) = Height[b] /\ Height[b] \in Nat /\ Height[p] \in Nat
    BY <2>2, <2>4, <1>1, StoredFacts, TreeFacts
  <2>6. OnTheWay'
    <3>1. CASE pc = "disconnect"
      <4>1. /\ job.to < Height[job.new] /\ Path[job.new][job.to + 1] = Path[b][job.to + 1]
            /\ job.conn = SubSeq(Path[job.new], job.to + 2, Height[job.new] + 1)
        BY <3>1, <2>2, <1>1 DEF OnTheWay
      <4>2. job.to <= Height[p] /\ job.to + 1 \in 1 .. Height[p] + 1 BY <3>1, <2>4, <2>5, <1>3, <1>4
      <4>3. Path[p][job.to + 1] = Path[b][job.to + 1] BY <4>2, <2>4, <2>5, OnFacts
      <4>. QED BY <4>1, <4>2, <4>3, <3>1, <2>1, <2>4 DEF OnTheWay
    <3>2. CASE pc \in {"load", "rewind"} BY <3>2, <2>1 DEF OnTheWay
    <3>. QED BY <3>1, <3>2, <1>2
  <2>7. QueueOK' BY <2>1, <1>1, <1>2 DEF QueueOK, Listening
  <2>8. ~has("reorgs") => Restarting'
    <3>1. SUFFICES ASSUME ~has("reorgs") PROVE Restarting' BY DEF has
    <3>2. Restarting BY <3>1, <1>1
    <3>3. pc \in {"load", "rewind"} BY <3>1, <1>1, <1>2 DEF Modes
    <3>4. Height[chainDB] <= Len(diffDB) BY <3>2 DEF Restarting
    <3>5. Height[chainDB] <= Height[p]
      <4>1. CASE pc = "load"
        <5>1. diffs = diffDB BY <4>1, <1>1 DEF HeightsOK
        <5>. QED BY <5>1, <4>1, <3>4, <2>4, <2>5, <1>3, <1>4
      <4>2. CASE pc = "rewind" BY <4>2, <2>4, <2>5, <1>3, <1>4
      <4>. QED BY <4>1, <4>2, <3>3
    <3>6. Height[p] <= Len(diffDB) + 1
      <4>1. Height[b] <= Len(diffDB) + 1 BY <3>2, <2>5 DEF Restarting
      <4>. QED BY <4>1, <2>4, <2>5, <1>3
    <3>. QED BY <3>2, <3>3, <3>5, <3>6, <2>1, <2>4, <1>2 DEF Restarting
  <2>. QED BY <2>6, <2>7, <2>8, <1>1, <1>2 DEF Followed, has
<1>. QED BY <1>1, <1>5, <1>6, <1>7, <1>8, DisconnectFacts

\* A block on the way is the child of the best node, and no ticket is live twice.
LEMMA ConnectFollowed == ASSUME Basic, Stored, Followed, ConnectBlock PROVE Followed'
<1>1. TypeOK /\ HeightsOK /\ StoresOK /\ BlocksOK /\ OnTheWay /\ QueueOK
      /\ (~has("reorgs") => Restarting) /\ ~happened.misplaced
  BY DEF Basic, Stored, Followed
<1>2. PICK b : b = Head(job.conn) OBVIOUS
<1>3. /\ b \in Blocks /\ b /= Genesis /\ Height[b] \in Nat /\ Height[b] <= Height[tip]
      /\ MaturingAt(b) \subseteq Tickets
      /\ happened' = [happened EXCEPT !.misplaced = @ \/ Parent[b] /= Best]
      /\ Connecting(b) \/ Refusing(b)
  BY <1>2, ConnectStep
<1>4. UNCHANGED <<env, tip, chainDB, diffDB>> /\ pc = "connect" /\ job.conn /= <<>>
  BY DEF ConnectBlock, dcrd
<1>5. PICK p : p = Best OBVIOUS
<1>6. p \in Blocks /\ NodeHeight(chain) = Height[p] /\ Height[p] \in Nat /\ chain = Synced[p]
      /\ chain \in Chains
  BY <1>1, <1>5, StoredFacts
<1>7. PICK n : n = job.new OBVIOUS
<1>8. n \in Blocks /\ Height[n] \in Nat BY <1>1, <1>7, TreeFacts DEF TypeOK
<1>9. p \in On(n) /\ job.conn = SubSeq(Path[n], Height[p] + 2, Height[n] + 1)
  BY <1>1, <1>4, <1>5, <1>6, <1>7 DEF OnTheWay
<1>10. Height[p] <= Height[n] /\ Path[n][Height[p] + 1] = p BY <1>8, <1>9, OnFacts
<1>11. Height[p] < Height[n]
  <2>1. Height[p] /= Height[n] BY <1>4, <1>6, <1>8, <1>9, <1>10, Way
  <2>. QED BY <2>1, <1>6, <1>8, <1>10
<1>12. /\ b = Path[n][Height[p] + 2]
       /\ Tail(job.conn) = SubSeq(Path[n], Height[p] + 3, Height[n] + 1)
  BY <1>2, <1>6, <1>8, <1>9, <1>10, <1>11, Way
<1>13. Parent[b] = p /\ Height[b] = Height[p] + 1 /\ b \in On(n)
  <2>1. PICK i : i = Height[p] + 2 OBVIOUS
  <2>2. i \in 1 .. Height[n] + 1 /\ i > 1 /\ i - 1 = Height[p] + 1 BY <2>1, <1>6, <1>8, <1>11
  <2>3. PathIsPaths(n) BY <1>8, PathsOnPath
  <2>4. Parent[b] = Path[n][i - 1] /\ Height[b] = i - 1 BY <2>1, <2>2, <2>3, <1>12 DEF PathIsPaths
  <2>5. b \in On(n) BY <2>1, <2>2, <1>8, <1>12, OnPath
  <2>. QED BY <2>2, <2>4, <2>5, <1>10
<1>14. ~happened'.misplaced
  <2>1. happened \in [reorgs : 0 .. env.maxReorgs, stops : 0 .. env.maxStops, misplaced : BOOLEAN]
    BY <1>1 DEF TypeOK
  <2>. QED BY <2>1, <1>1, <1>3, <1>5, <1>13
<1>15. Connecting(b)
  <2>1. MaturingAt(b) = Matured(b) BY <1>1, <1>3, <1>5, <1>13, MaturingIsMatured
  <2>2. Staying(Synced[Parent[b]]) \cap Matured(b) = {} BY <1>3, DiffFacts
  <2>3. Staying(chain) \cap MaturingAt(b) = {} BY <2>1, <2>2, <1>6, <1>13
  <2>4. Height[b] > NodeHeight(chain) BY <1>6, <1>13
  <2>. QED BY <2>3, <2>4, <1>3 DEF Refusing
<1>16. PICK m \in SUBSET Tickets : m = MaturingAt(b) BY <1>3
<1>17. chain' = connectNode(chain, b, m) BY <1>15, <1>16 DEF Connecting
<1>18. Len(chain') = Len(chain) + 1 /\ Best' = b
  BY <1>3, <1>6, <1>16, <1>17, ConnectFacts DEF Best
<1>19. NodeHeight(chain') = Height[p] + 1
  <2>1. Len(chain) \in Nat BY <1>6, ChainFacts
  <2>. QED BY <2>1, <1>6, <1>18 DEF NodeHeight
<1>20. job \in [sync : BOOLEAN, new : Blocks, to : Nat, conn : Seq(Blocks), diff : Diff]
  BY <1>1 DEF TypeOK
<1>21. /\ job'.new = n /\ job'.conn = Tail(job.conn) /\ job'.sync = job.sync /\ pc' = "append"
       /\ inbox' = inbox
  BY <1>7, <1>15, <1>20 DEF Connecting
<1>22. OnTheWay'
  <2>1. (Height[p] + 1) + 2 = Height[p] + 3 BY <1>6
  <2>. QED BY <2>1, <1>12, <1>13, <1>18, <1>19, <1>21 DEF OnTheWay
<1>23. QueueOK' BY <1>1, <1>4, <1>7, <1>21 DEF QueueOK, Listening
<1>24. ~has("reorgs") => Restarting'
  <2>1. SUFFICES ASSUME ~has("reorgs") PROVE Restarting' BY DEF has
  <2>2. Restarting BY <2>1, <1>1
  <2>3. Len(diffs) = NodeHeight(chain) /\ Len(diffs) <= Len(diffDB) /\ Len(diffDB) \in Nat
    BY <1>1, <1>4 DEF HeightsOK, TypeOK
  <2>4. Height[chainDB] \in Nat BY <1>1, TypeFacts
  <2>5. /\ Height[chainDB] <= NodeHeight(chain') /\ NodeHeight(chain') <= Len(diffDB) + 1
    BY <2>2, <2>3, <2>4, <1>6, <1>19 DEF Restarting
  <2>. QED BY <2>2, <2>5, <1>4, <1>21 DEF Restarting
<1>. QED BY <1>4, <1>14, <1>22, <1>23, <1>24 DEF Followed, has

LEMMA AppendFollowed == ASSUME Basic, Followed, AppendDiff PROVE Followed'
<1>1. TypeOK /\ OnTheWay /\ QueueOK /\ (~has("reorgs") => Restarting) /\ ~happened.misplaced
  BY DEF Basic, Followed
<1>2. /\ pc = "append" /\ pc' = "connect"
      /\ Len(diffDB') = IF NodeHeight(chain) > Len(diffDB) THEN Len(diffDB) + 1 ELSE Len(diffDB)
      /\ job' = [job EXCEPT !.diff = NoJob.diff]
      /\ UNCHANGED <<env, tip, happened, inbox, chainDB, chain, blockCache>>
  BY AppendedDisk
<1>3. job \in [sync : BOOLEAN, new : Blocks, to : Nat, conn : Seq(Blocks), diff : Diff]
  BY <1>1 DEF TypeOK
<1>4. job'.new = job.new /\ job'.conn = job.conn /\ job'.sync = job.sync /\ Best' = Best
  BY <1>2, <1>3 DEF Best
<1>5. OnTheWay' BY <1>1, <1>2, <1>4 DEF OnTheWay
<1>6. QueueOK' BY <1>1, <1>2, <1>4 DEF QueueOK, Listening
<1>7. ~has("reorgs") => Restarting'
  <2>1. /\ Len(diffDB) \in Nat /\ Len(diffDB') \in Nat /\ Len(diffDB') >= Len(diffDB)
        /\ NodeHeight(chain) \in Nat /\ Height[chainDB] \in Nat
    BY <1>1, <1>2, TypeFacts DEF TypeOK
  <2>2. SUFFICES ASSUME ~has("reorgs") PROVE Restarting' BY DEF has
  <2>3. Restarting BY <2>2, <1>1
  <2>4. Height[chainDB] <= Len(diffDB') /\ NodeHeight(chain) <= Len(diffDB') + 1
    BY <2>1, <2>3 DEF Restarting
  <2>. QED BY <2>3, <2>4, <1>2, <1>4 DEF Restarting
<1>. QED BY <1>1, <1>2, <1>5, <1>6, <1>7 DEF Followed, has

\* From there the new branch is the way.
LEMMA DisconnectedFollowed == ASSUME Basic, Stored, Followed, Disconnected PROVE Followed'
<1>1. TypeOK /\ StoresOK /\ OnTheWay /\ QueueOK /\ (~has("reorgs") => Restarting)
      /\ ~happened.misplaced
  BY DEF Basic, Stored, Followed
<1>2. PICK b : b = Best OBVIOUS
<1>3. PICK n : n = job.new OBVIOUS
<1>4. /\ b \in Blocks /\ NodeHeight(chain) = Height[b] /\ Height[b] \in Nat
      /\ n \in Blocks /\ Height[n] \in Nat /\ job.to \in Nat
  BY <1>1, <1>2, <1>3, StoredFacts, TreeFacts DEF TypeOK
<1>5. /\ pc = "disconnect" /\ Height[b] <= job.to
      /\ UNCHANGED <<env, tip, happened, inbox, chainDB, chain, diffDB>>
  BY <1>4 DEF Disconnected, dcrd
<1>6. /\ job.to <= Height[b] /\ job.to < Height[n] /\ Path[n][job.to + 1] = Path[b][job.to + 1]
      /\ job.conn = SubSeq(Path[n], job.to + 2, Height[n] + 1)
  BY <1>1, <1>2, <1>3, <1>4, <1>5 DEF OnTheWay
<1>7. job.to = Height[b] BY <1>4, <1>5, <1>6
<1>8. pc' = "connect" /\ job' = job BY <1>4, <1>7 DEF Disconnected
<1>9. Path[b][Height[b] + 1] = b BY <1>4, TreeFacts
<1>10. b \in On(n)
  <2>1. Height[b] + 1 \in 1 .. Height[n] + 1 BY <1>4, <1>6, <1>7
  <2>2. Path[n][Height[b] + 1] \in On(n) BY <2>1, <1>4, OnPath
  <2>. QED BY <2>2, <1>6, <1>7, <1>9
<1>11. Best' = b BY <1>2, <1>5 DEF Best
<1>12. OnTheWay' BY <1>3, <1>4, <1>5, <1>6, <1>7, <1>8, <1>10, <1>11 DEF OnTheWay
<1>13. QueueOK' BY <1>1, <1>5, <1>8 DEF QueueOK, Listening
<1>14. ~has("reorgs") => Restarting' BY <1>1, <1>5, <1>8 DEF Restarting
<1>. QED BY <1>1, <1>5, <1>12, <1>13, <1>14 DEF Followed, has

LEMMA ConnectedFollowed == ASSUME Basic, Stored, Followed, Connected PROVE Followed'
<1>1. TypeOK /\ StoresOK /\ OnTheWay /\ QueueOK /\ (~has("reorgs") => Restarting)
      /\ ~happened.misplaced
  BY DEF Basic, Stored, Followed
<1>2. PICK b : b = Best OBVIOUS
<1>3. PICK n : n = job.new OBVIOUS
<1>4. /\ b \in Blocks /\ NodeHeight(chain) = Height[b] /\ Height[b] \in Nat
      /\ n \in Blocks /\ Height[n] \in Nat
  BY <1>1, <1>2, <1>3, StoredFacts, TreeFacts DEF TypeOK
<1>5. /\ pc = "connect" /\ job.conn = <<>> /\ pc' = "store"
      /\ UNCHANGED <<env, tip, happened, inbox, chainDB, chain, diffDB, job>>
  BY DEF Connected, dcrd
<1>6. b \in On(n) /\ job.conn = SubSeq(Path[n], Height[b] + 2, Height[n] + 1)
  BY <1>1, <1>2, <1>3, <1>4, <1>5 DEF OnTheWay
<1>7. Height[b] <= Height[n] BY <1>4, <1>6, OnFacts
<1>8. ~(Height[b] < Height[n]) BY <1>4, <1>5, <1>6, <1>7, Way
<1>9. Height[b] = Height[n] BY <1>4, <1>7, <1>8
<1>10. b = n BY <1>4, <1>6, <1>9, OnFacts
<1>11. Best' = b BY <1>2, <1>5 DEF Best
<1>12. OnTheWay' BY <1>3, <1>5, <1>10, <1>11 DEF OnTheWay
<1>13. QueueOK' BY <1>1, <1>5 DEF QueueOK, Listening
<1>14. ~has("reorgs") => Restarting' BY <1>1, <1>5 DEF Restarting
<1>. QED BY <1>1, <1>5, <1>12, <1>13, <1>14 DEF Followed, has

LEMMA StoreFollowed == ASSUME Basic, Stored, Followed, StoreBlock PROVE Followed'
<1>1. TypeOK /\ HeightsOK /\ StoresOK /\ OnTheWay /\ QueueOK
      /\ (~has("reorgs") => OneBranch /\ Restarting) /\ ~happened.misplaced
  BY DEF Basic, Stored, Followed
<1>2. /\ pc = "store" /\ chainDB' = job.new /\ pc' = (IF job.sync THEN "sync" ELSE "idle") /\ job' = NoJob
      /\ UNCHANGED <<env, tip, happened, inbox, chain, diffDB>>
  BY DEF StoreBlock, dcrd
<1>3. Best' = Best /\ Best = job.new BY <1>1, <1>2 DEF Best, OnTheWay
<1>4. OnTheWay' BY <1>2 DEF OnTheWay
<1>5. QueueOK'
  <2>1. CASE job.sync BY <2>1, <1>1, <1>2 DEF QueueOK, Listening
  <2>2. CASE ~job.sync
    <3>1. Linked(inbox, job.new, tip) BY <2>2, <1>1, <1>2 DEF QueueOK, Listening
    <3>2. pc' = "idle" /\ Listening' BY <2>2, <1>2, NoJobFacts DEF Listening
    <3>. QED BY <3>1, <3>2, <1>2, <1>3 DEF QueueOK
  <2>. QED BY <2>1, <2>2
<1>6. ~has("reorgs") => Restarting'
  <2>1. SUFFICES ASSUME ~has("reorgs") PROVE Restarting' BY DEF has
  <2>2. OneBranch /\ Restarting BY <2>1, <1>1
  <2>3. NodeHeight(chain) = Height[Best] /\ Height[Best] \in Nat BY <1>1, StoredFacts
  <2>4. Len(diffs) = NodeHeight(chain) /\ Len(diffs) <= Len(diffDB) BY <1>1, <1>2 DEF HeightsOK
  <2>5. Best \in On(tip) BY <2>2 DEF OneBranch
  <2>6. ~NoJob.sync BY NoJobFacts
  <2>7. chainDB' = Best /\ pc' /= "corrupt" BY <1>2, <1>3
  <2>8. Height[chainDB'] <= NodeHeight(chain) /\ Height[chainDB'] <= Len(diffDB) BY <2>3, <2>4, <2>7
  <2>. QED BY <2>2, <2>3, <2>5, <2>6, <2>7, <2>8, <1>2 DEF Restarting
<1>. QED BY <1>1, <1>2, <1>4, <1>5, <1>6 DEF Followed, has

LEMMA StartingFollowed ==
    ASSUME Basic, Stored, Served, Followed, Stored',
           Open \/ AdvanceToTip \/ Recovered \/ PurgeBestBlocks \/ Rewound
    PROVE  Followed'
<1>1. TypeOK /\ Modes /\ StoresOK /\ QueueOK /\ (~has("reorgs") => Restarting) /\ ~happened.misplaced
      /\ pc' /= "recover"
  BY DEF Basic, Stored, Followed, StoresOK
<1>2. /\ UNCHANGED <<env, tip, happened, chain, diffDB>>
      /\ pc \in {"down", "load", "purge", "rewind"} /\ pc /= "recover" /\ has("crashes")
  BY <1>1 DEF Open, AdvanceToTip, Recovered, PurgeBestBlocks, Rewound, dcrd, StoresOK, Modes, has
<1>3. ~has("reorgs") /\ Restarting BY <1>1, <1>2 DEF Served
<1>4. inbox = <<>> BY <1>1, <1>2 DEF QueueOK, Listening
<1>5. chainDB \in Blocks /\ tip \in Blocks /\ chainDB \in On(tip) BY <1>1, <1>3 DEF TypeOK, Restarting
<1>6. chainDB' = chainDB
  <2>1. CASE PurgeBestBlocks
    <3>1. OrphanedTipLength(Path[chainDB], Path[tip]) = 0 BY <1>5, OrphanedFacts
    <3>2. Height[chainDB] \in Nat /\ Path[chainDB][Height[chainDB] + 1] = chainDB BY <1>5, TreeFacts
    <3>3. chainDB' = Path[chainDB][Height[chainDB] - 0 + 1] BY <3>1, <2>1 DEF PurgeBestBlocks
    <3>4. Height[chainDB] - 0 + 1 = Height[chainDB] + 1 BY <3>2
    <3>. QED BY <3>2, <3>3, <3>4
  <2>. QED BY <2>1, <1>2 DEF Open, AdvanceToTip, Recovered, Rewound
<1>7. CASE Ends BY <1>1, <1>2, <1>6, <1>7, EndsFollowed
<1>8. CASE ~Ends
  <2>1. /\ pc' \in {"load", "purge", "rewind", "sync"} /\ job' = job /\ inbox' = inbox
        /\ pc' = "sync" => NodeHeight(chain) <= Height[chainDB]
    BY <1>1, <1>2, <1>8 DEF Open, AdvanceToTip, Recovered, PurgeBestBlocks, Rewound
  <2>2. OnTheWay' BY <2>1 DEF OnTheWay
  <2>3. QueueOK' BY <2>1, <1>4 DEF QueueOK, Listening
  <2>4. pc' = "sync" => NodeHeight(chain) = Height[chainDB]
    <3>1. NodeHeight(chain) \in Nat /\ Height[chainDB] \in Nat BY <1>1, TypeFacts
    <3>. QED BY <3>1, <2>1, <1>3 DEF Restarting
  <2>5. Restarting' BY <2>1, <2>4, <1>2, <1>3, <1>6 DEF Restarting
  <2>. QED BY <2>2, <2>3, <2>5, <1>1, <1>2 DEF Followed
<1>. QED BY <1>7, <1>8

\* After a restart the next block of dcrd's main chain is the node's child.
LEMMA SyncFollowed == ASSUME Basic, Stored, Served, Followed, SyncChainDB PROVE Followed'
<1>1. TypeOK /\ Modes /\ StoresOK /\ QueueOK /\ ~happened.misplaced
      /\ (~has("reorgs") => OneBranch /\ Restarting)
  BY DEF Basic, Stored, Followed
<1>2. UNCHANGED <<env, tip, happened, inbox, chainDB, chain, diffDB>> /\ pc = "sync"
  BY DEF SyncChainDB, dcrd
<1>3. ~has("reorgs") /\ OneBranch /\ Restarting BY <1>1, <1>2 DEF Served, Modes
<1>4. inbox = <<>> /\ inbox' = <<>> BY <1>1, <1>2 DEF QueueOK, Listening
<1>5. PICK a : a = Best OBVIOUS
<1>6. /\ a \in Blocks /\ NodeHeight(chain) = Height[a] /\ Height[a] \in Nat
      /\ tip \in Blocks /\ Height[tip] \in Nat /\ Height[chainDB] \in Nat
  BY <1>1, <1>5, StoredFacts, TypeFacts DEF TypeOK
<1>7. a \in On(tip) /\ Height[chainDB] = Height[a] /\ ~job.sync
  BY <1>2, <1>3, <1>5, <1>6 DEF OneBranch, Restarting
<1>8. Height[a] <= Height[tip] /\ Path[tip][Height[a] + 1] = a BY <1>6, <1>7, OnFacts
<1>9. Best' = a BY <1>2, <1>5 DEF Best
<1>10. CASE Height[chainDB] + 1 > Height[tip]
  <2>1. pc' = "idle" /\ job' = job BY <1>10 DEF SyncChainDB
  <2>2. Height[a] = Height[tip] BY <1>6, <1>7, <1>8, <1>10
  <2>3. a = tip BY <2>2, <1>6, <1>7, OnFacts
  <2>4. OnTheWay' BY <2>1 DEF OnTheWay
  <2>5. QueueOK' BY <2>1, <2>3, <1>2, <1>4, <1>9 DEF QueueOK, Linked
  <2>6. Restarting' BY <2>1, <1>2, <1>3 DEF Restarting
  <2>. QED BY <2>4, <2>5, <2>6, <1>1, <1>2 DEF Followed
<1>11. CASE ~(Height[chainDB] + 1 > Height[tip])
  <2>1. PICK i : i = Height[chainDB] + 1 + 1 OBVIOUS
  <2>2. PICK b : b = Path[tip][i] OBVIOUS
  <2>3. (Height[chainDB] + 1) - NodeHeight(chain) = 1 BY <1>6, <1>7
  <2>4. pc' = "connect" /\ job' = [NoJob EXCEPT !.sync = TRUE, !.new = b, !.conn = <<b>>]
    BY <2>1, <2>2, <2>3, <1>11 DEF SyncChainDB
  <2>5. job'.sync /\ job'.new = b /\ job'.conn = <<b>> BY <2>4, NoJobFacts
  <2>6. i \in 1 .. Height[tip] + 1 /\ i > 1 /\ i - 1 = Height[a] + 1 BY <2>1, <1>6, <1>7, <1>11
  <2>7. PathIsPaths(tip) BY <1>6, PathsOnPath
  <2>8. b \in Blocks /\ b /= Genesis /\ Parent[b] = Path[tip][i - 1]
    BY <2>2, <2>6, <2>7 DEF PathIsPaths
  <2>9. Parent[b] = a BY <2>6, <2>8, <1>8
  <2>10. a \in On(b) /\ SubSeq(Path[b], Height[a] + 2, Height[b] + 1) = <<b>> BY <2>8, <2>9, OneStep
  <2>11. OnTheWay' BY <2>4, <2>5, <2>10, <1>2, <1>6, <1>9 DEF OnTheWay
  <2>12. QueueOK' BY <2>5, <1>4 DEF QueueOK, Listening
  <2>13. Restarting' BY <2>4, <1>2, <1>3 DEF Restarting
  <2>. QED BY <2>11, <2>12, <2>13, <1>1, <1>2 DEF Followed
<1>. QED BY <1>10, <1>11

LEMMA StopFollowed == ASSUME Basic, Followed, Stop PROVE Followed'
<1>1. /\ happened \in [reorgs : 0 .. env.maxReorgs, stops : 0 .. env.maxStops, misplaced : BOOLEAN]
      /\ ~happened.misplaced
  BY DEF Basic, TypeOK, Followed
<1>2. Ends /\ UNCHANGED <<env, tip, chainDB, chain, diffDB>> BY DEF Stop, dcrd
<1>3. ~happened'.misplaced BY <1>1 DEF Stop
<1>. QED BY <1>2, <1>3, EndsFollowed

LEMMA FollowedInit == Init => Followed
<1>1. SUFFICES ASSUME Init PROVE Followed OBVIOUS
<1>2. Start \in Blocks /\ Height[Start] \in Nat BY TreeAssumption, TreeFacts
<1>3. SyncedOK(Start) BY <1>2, SyncedFacts
<1>4. Best = Start /\ pc = "idle" BY <1>1, <1>3 DEF Init, Best, SyncedOK
<1>5. OnTheWay BY <1>4 DEF OnTheWay
<1>6. QueueOK BY <1>1, <1>4 DEF Init, QueueOK, Linked
<1>7. Start \in On(Start)
  <2>1. Height[Start] + 1 \in 1 .. Height[Start] + 1 BY <1>2
  <2>2. Path[Start][Height[Start] + 1] \in On(Start) BY <2>1, <1>2, OnPath
  <2>. QED BY <2>2, <1>2, TreeFacts
<1>8. Len(diffDB) = Height[Start] BY <1>1, <1>2, SyncedDiffsFacts DEF Init
<1>9. NodeHeight(chain) = Height[Start]
  <2>1. Len(chain) = Height[Start] + 1 BY <1>1, <1>3 DEF Init, SyncedOK
  <2>. QED BY <2>1, <1>2 DEF NodeHeight
<1>10. chainDB = Start /\ tip = Start BY <1>1 DEF Init
<1>11. Restarting BY <1>2, <1>4, <1>7, <1>8, <1>9, <1>10 DEF Restarting
<1>12. ~happened.misplaced BY <1>1 DEF Init
<1>. QED BY <1>5, <1>6, <1>11, <1>12 DEF Followed

\* Followed is inductive, given that the stores are right.
LEMMA FollowedNext ==
    ASSUME Basic, Calm => Stored, Calm' => Stored', Served => Followed, [Next]_vars
    PROVE  Served' => Followed'
<1>1. SUFFICES ASSUME Served' PROVE Followed' OBVIOUS
<1>2. env' = env
  BY DEF Next, Run, vars, dcrd, dcrdConnects, dcrdReorganizes, Receive, Disconnect, Disconnected,
         ConnectBlock, AppendDiff, Connected, StoreBlock, Open, RollBack, AdvanceToTip,
         LoadAndRecover, Recovered, PurgeBestBlocks, RewindStakeDB, Rewound, SyncChainDB,
         GetBlockFails, MaturingBlockFails, Stop
<1>3. Served /\ ~has("rpc") BY <1>1, <1>2 DEF Served, has
<1>4. Followed /\ Calm BY <1>3 DEF Followed, Served, Calm
<1>5. Stored BY <1>4
<1>6. CASE UNCHANGED vars
  BY <1>4, <1>6 DEF vars, dcrd, mem, Followed, OnTheWay, QueueOK, Listening, Restarting, has, Best
<1>7. CASE \E b \in Blocks : dcrdConnects(b) \/ dcrdReorganizes(b) BY <1>4, <1>7, TipFollowed
<1>8. CASE Run
  <2>1. CASE Receive BY <2>1, <1>4, <1>5, ReceiveFollowed
  <2>2. CASE Disconnect \/ RollBack \/ LoadAndRecover \/ RewindStakeDB
    BY <2>2, <1>3, <1>4, <1>5, DisconnectingFollowed
  <2>3. CASE Disconnected BY <2>3, <1>4, <1>5, DisconnectedFollowed
  <2>4. CASE ConnectBlock BY <2>4, <1>4, <1>5, ConnectFollowed
  <2>5. CASE AppendDiff BY <2>5, <1>4, AppendFollowed
  <2>6. CASE Connected BY <2>6, <1>4, <1>5, ConnectedFollowed
  <2>7. CASE StoreBlock BY <2>7, <1>4, <1>5, StoreFollowed
  <2>8. CASE Open \/ AdvanceToTip \/ Recovered \/ PurgeBestBlocks \/ Rewound
    <3>1. happened' = happened
      BY <2>8 DEF Open, AdvanceToTip, Recovered, PurgeBestBlocks, Rewound
    <3>2. Stored' BY <3>1, <1>2, <1>4 DEF Calm, has
    <3>. QED BY <3>2, <2>8, <1>3, <1>4, <1>5, StartingFollowed
  <2>9. CASE SyncChainDB BY <2>9, <1>3, <1>4, <1>5, SyncFollowed
  <2>. QED BY <2>1, <2>2, <2>3, <2>4, <2>5, <2>6, <2>7, <2>8, <2>9, <1>8 DEF Run
<1>9. CASE Stop BY <1>4, <1>9, StopFollowed
<1>. QED BY <1>3, <1>6, <1>7, <1>8, <1>9 DEF Next, GetBlockFails, MaturingBlockFails

-----------------------------------------------------------------------------
(* The theorems. *)

IInv == Basic /\ (Calm => Stored) /\ (Served => Followed)

\* The inductive invariant of the stake database and its monitor, by what may go
\* wrong: in every scenario the pool's height follows the node's; while blocks
\* are connected to their parents the stores hold what a fresh sync builds; and
\* when RPCs work that is always so, as the queue and the blocks in hand lead
\* from the best node to dcrd's best block.
THEOREM IInvHolds == Spec => []IInv
<1>1. Init => IInv BY BasicInit, StoredInit, FollowedInit DEF IInv
<1>2. IInv /\ [Next]_vars => IInv'
  <2>1. SUFFICES ASSUME IInv, [Next]_vars PROVE IInv' OBVIOUS
  <2>2. Basic /\ (Calm => Stored) /\ (Served => Followed) BY <2>1 DEF IInv
  <2>3. Basic' BY <2>1, <2>2, BasicNext
  <2>4. Calm' => Stored' BY <2>1, <2>2, StoredNext
  <2>5. Served' => Followed' BY <2>1, <2>2, <2>4, FollowedNext
  <2>. QED BY <2>3, <2>4, <2>5 DEF IInv
<1>. QED BY <1>1, <1>2, PTL DEF Spec

\* The theorems' hypothesis gives what the stores need.
LEMMA UndisturbedIsCalm == ASSUME IInv, Undisturbed PROVE Stored
<1>1. CASE has("rpc") BY <1>1 DEF IInv, Undisturbed, Calm
<1>2. CASE ~has("rpc") BY <1>2 DEF IInv, Undisturbed, Calm, Served, Followed
<1>. QED BY <1>1, <1>2

\* After stops and rollbacks, or after reorganizations however interrupted, the
\* stake nodes are those of a fresh sync to the best one's block (ConnectBlock,
\* disconnectBlock, NewStakeDatabase, Rewind, SyncChainDB); with failing RPCs, for
\* as long as blocks are connected to their parents.  For every tree of blocks
\* and every purchase and draw of tickets.
THEOREM FreshSync == Spec => []SameAsFreshSync
<1>1. IInv => SameAsFreshSync
  BY UndisturbedIsCalm DEF SameAsFreshSync, Stored, StoresOK, Best
<1>. QED BY <1>1, IInvHolds, PTL

\* Diffs of a fresh sync rebuild the live tickets of every node.
LEMMA PoolsMatch == ASSUME IInv PROVE PoolMatchesChain
<1>1. SUFFICES ASSUME Undisturbed, NEW h \in 0 .. NodeHeight(chain)
               PROVE  /\ h <= Len(diffs) => PoolAt(diffs, h) = chain[h + 1].live
                      /\ h <= Len(diffDB) /\ pc /= "append" => PoolAt(diffDB, h) = chain[h + 1].live
  BY DEF PoolMatchesChain
<1>2. TypeOK /\ HeightsOK /\ StoresOK /\ DiskOK BY <1>1, UndisturbedIsCalm DEF IInv, Basic, Stored
<1>3. PICK b : b = Best OBVIOUS
<1>4. b \in Blocks /\ NodeHeight(chain) = Height[b] /\ Height[b] \in Nat /\ chain = Synced[b]
  BY <1>2, <1>3, StoredFacts
<1>5. h \in 0 .. Height[b] /\ h \in Nat BY <1>4
<1>6. PoolAt(SyncedDiffs(b), h) = chain[h + 1].live BY <1>4, <1>5, PoolsAreLive
<1>7. ASSUME NEW d, \A i \in 1 .. h : d[i] = SyncedDiffs(b)[i]
      PROVE  PoolAt(d, h) = chain[h + 1].live
  BY <1>5, <1>6, <1>7, PoolAtSame
<1>8. ASSUME h <= Len(diffDB), pc /= "append" PROVE \A i \in 1 .. h : diffDB[i] = SyncedDiffs(b)[i]
  <2>1. Len(diffDB) \in Nat BY <1>2 DEF TypeOK
  <2>2. \A i \in 1 .. h : i \in 1 .. Len(diffDB) /\ i <= NodeHeight(chain) BY <2>1, <1>4, <1>5, <1>8
  <2>. QED BY <2>2, <1>2, <1>3, <1>8 DEF DiskOK
<1>9. ASSUME h <= Len(diffs) PROVE \A i \in 1 .. h : diffs[i] = SyncedDiffs(b)[i]
  <2>1. CASE pc \notin {"down", "load", "append"} BY <2>1, <1>2, <1>3 DEF StoresOK
  <2>2. CASE pc = "append"
    <3>1. b /= Genesis /\ diffs = SyncedDiffs(Parent[b]) BY <2>2, <1>2, <1>3 DEF StoresOK
    <3>2. Parent[b] \in On(b) /\ Parent[b] \in Blocks BY <3>1, <1>4, OneStep, TreeFacts
    <3>3. Len(diffs) = Height[Parent[b]] BY <3>1, <3>2, SyncedDiffsFacts
    <3>4. \A i \in 1 .. h : i \in 1 .. Height[Parent[b]]
      <4>1. Height[Parent[b]] \in Nat BY <3>2, TreeFacts
      <4>. QED BY <4>1, <3>3, <1>5, <1>9
    <3>. QED BY <3>1, <3>2, <3>4, <1>4, SyncedDiffsOn
  <2>3. CASE pc = "load"
    <3>1. diffs = diffDB BY <2>3, <1>2 DEF HeightsOK
    <3>. QED BY <3>1, <2>3, <1>8, <1>9
  <2>4. CASE pc = "down"
    <3>1. Len(diffs) = 0 BY <2>4, <1>2 DEF HeightsOK
    <3>. QED BY <3>1, <1>5, <1>9
  <2>. QED BY <2>1, <2>2, <2>3, <2>4
<1>. QED BY <1>7, <1>8, <1>9

\* The stake nodes, the pool's diffs in memory and on disk and the live ticket
\* cache agree after anything that stops, fails or is undone half way (the two
\* commits of ConnectBlock, PoolDB.Append, Trim and AdvanceToTip, the cache that
\* ConnectBlock and disconnectBlock keep), in the same cases; that the pool is at
\* the node's height holds in all of them.
THEOREM StoresStayTogether == Spec => []StoresAgree
<1>1. IInv => TypeOK /\ HeightsAgree BY DEF IInv, Basic, HeightsOK, HeightsAgree
<1>2. IInv => PoolMatchesChain BY PoolsMatch
<1>3. IInv => CacheMatchesNode
  BY UndisturbedIsCalm DEF CacheMatchesNode, CacheAccurate, Stored, StoresOK
<1>4. IInv => StoresAgree BY <1>1, <1>2, <1>3 DEF StoresAgree
<1>. QED BY <1>4, IInvHolds, PTL

\* Without failing RPCs no block is ever connected to another than its parent,
\* whether announced alone, in a reorganization or synced after a restart.
NeverMisplaced == Served => ~happened.misplaced
THEOREM BlocksFollowParents == Spec => []NeverMisplaced
<1>1. IInv => NeverMisplaced BY DEF IInv, Followed, NeverMisplaced
<1>. QED BY <1>1, IInvHolds, PTL
=============================================================================
