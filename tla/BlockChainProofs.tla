-------------------------- MODULE BlockChainProofs --------------------------
(***************************************************************************)
(* Proofs about module BlockChain, for any block tree, work, limits and    *)
(* scenarios.                                                              *)
(***************************************************************************)
EXTENDS BlockChain, FiniteSetTheorems, SequenceTheorems, WellFoundedInduction,
        NaturalsInduction, TLAPS

-----------------------------------------------------------------------------
(* Induction, with a set for its parameter. *)

\* Induction over the natural numbers, for a set.
LEMMA Induction ==
    ASSUME NEW T, 0 \in T, \A n \in Nat : n \in T => n + 1 \in T
    PROVE  \A n \in Nat : n \in T
<1>. DEFINE U == Nat \ T
<1>1. SUFFICES ASSUME U /= {} PROVE FALSE OBVIOUS
<1>2. PICK k \in U : \A y \in U : ~(<<y, k>> \in OpToRel(<, Nat))
  <2>1. IsWellFoundedOn(OpToRel(<, Nat), Nat) BY NatLessThanWellFounded
  <2>2. U \subseteq Nat OBVIOUS
  <2>. QED BY <2>1, <2>2, <1>1, WFMin
<1>3. k - 1 \in Nat /\ k - 1 < k /\ (k - 1) + 1 = k
  <2>1. k \in Nat /\ k /= 0 OBVIOUS
  <2>. QED BY <2>1
<1>4. k - 1 \in U => <<k - 1, k>> \in OpToRel(<, Nat) BY <1>3 DEF OpToRel
<1>. QED BY <1>2, <1>3, <1>4

-----------------------------------------------------------------------------
(* The block tree. *)

\* The blocks from genesis up to b.
On(b) == Range(Path[b])

\* What the tree's assumption says of a block and its parent.
LEMMA TreeFacts ==
    ASSUME NEW b \in Blocks
    PROVE  /\ Path[b] \in Seq(Blocks) /\ Height[b] \in Nat /\ Len(Path[b]) = Height[b] + 1
           /\ Path[b][Height[b] + 1] = b
           /\ b = Genesis => Height[b] = 0
           /\ b /= Genesis => /\ Parent[b] \in Blocks /\ Height[b] = Height[Parent[b]] + 1
                              /\ Height[Parent[b]] \in Nat
                              /\ \A i \in 1 .. Height[b] : Path[b][i] = Path[Parent[b]][i]
<1>1. Path[b] \in Seq(Blocks) /\ Height[b] = Len(Path[b]) - 1 BY TreeAssumption
<1>2. CASE b = Genesis BY <1>1, <1>2, TreeAssumption
<1>3. CASE b /= Genesis
  <2>1. Parent[b] \in Blocks /\ Path[b] = Append(Path[Parent[b]], b) BY <1>3, TreeAssumption
  <2>2. Path[Parent[b]] \in Seq(Blocks) /\ Height[Parent[b]] = Len(Path[Parent[b]]) - 1
    BY <2>1, TreeAssumption
  <2>3. Path[Parent[b]] /= <<>>
    <3>1. CASE Parent[b] = Genesis BY <3>1, TreeAssumption
    <3>2. CASE Parent[b] /= Genesis
      <4>1. PICK q \in Seq(Blocks) : Path[Parent[b]] = Append(q, Parent[b])
        BY <2>1, <3>2, TreeAssumption
      <4>. QED BY <4>1, <2>1
    <3>. QED BY <3>1, <3>2
  <2>4. PICK p \in Seq(Blocks) : p = Path[Parent[b]] BY <2>2
  <2>5. p /= <<>> /\ Height[Parent[b]] = Len(p) - 1 /\ Path[b] = Append(p, b)
    BY <2>1, <2>2, <2>3, <2>4
  <2>6. Len(p) \in Nat /\ Len(p) >= 1 BY <2>5
  <2>7. Height[b] = Len(p) BY <1>1, <2>5
  <2>. QED BY <1>1, <1>3, <2>1, <2>4, <2>5, <2>6, <2>7
<1>. QED BY <1>2, <1>3

\* Induction over the tree, from genesis.
LEMMA TreeInduction ==
    ASSUME NEW T, Genesis \in T,
           \A b \in Blocks : b /= Genesis /\ Parent[b] \in T => b \in T
    PROVE  \A b \in Blocks : b \in T
<1>. DEFINE U == {n \in Nat : \A b \in Blocks : Height[b] = n => b \in T}
<1>1. 0 \in U
  <2>1. \A b \in Blocks : Height[b] = 0 => b = Genesis
    <3>. TAKE b \in Blocks
    <3>1. b /= Genesis => Height[b] = Height[Parent[b]] + 1 /\ Height[Parent[b]] \in Nat
      BY TreeFacts
    <3>. QED BY <3>1
  <2>. QED BY <2>1
<1>2. ASSUME NEW n \in Nat, n \in U PROVE n + 1 \in U
  <2>1. SUFFICES ASSUME NEW b \in Blocks, Height[b] = n + 1 PROVE b \in T OBVIOUS
  <2>2. b = Genesis => Height[b] = 0 BY TreeFacts
  <2>3. CASE b /= Genesis
    <3>1. Parent[b] \in Blocks /\ Height[b] = Height[Parent[b]] + 1 /\ Height[Parent[b]] \in Nat
      BY <2>3, TreeFacts
    <3>2. Height[Parent[b]] = n BY <3>1, <2>1
    <3>. QED BY <3>1, <3>2, <2>3, <1>2
  <2>. QED BY <2>2, <2>3
<1>. HIDE DEF U
<1>3. \A n \in Nat : n \in U BY <1>1, <1>2, Induction
<1>4. \A b \in Blocks : Height[b] \in Nat BY TreeFacts
<1>. QED BY <1>3, <1>4 DEF U

\* The blocks of a path have their own paths below it.
PathIsPaths(b) ==
    \A i \in 1 .. Height[b] + 1 :
      /\ Path[b][i] \in Blocks /\ Height[Path[b][i]] = i - 1
      /\ \A k \in 1 .. i : Path[Path[b][i]][k] = Path[b][k]
      /\ i > 1 => Path[b][i] /= Genesis /\ Parent[Path[b][i]] = Path[b][i - 1]

LEMMA PathsOnPath == ASSUME NEW b \in Blocks PROVE PathIsPaths(b)
<1>. DEFINE T == {a \in Blocks : PathIsPaths(a)}
<1>1. Genesis \in T
  <2>1. Height[Genesis] = 0 /\ Path[Genesis] = <<Genesis>> /\ Genesis \in Blocks
    BY TreeFacts, TreeAssumption
  <2>2. Path[Genesis][1] = Genesis BY <2>1
  <2>3. \A i \in 1 .. Height[Genesis] + 1 : i = 1 BY <2>1
  <2>4. \A k \in 1 .. 1 : k = 1 OBVIOUS
  <2>5. PathIsPaths(Genesis)
    <3>1. SUFFICES ASSUME NEW i \in 1 .. Height[Genesis] + 1
                   PROVE  /\ Path[Genesis][i] \in Blocks /\ Height[Path[Genesis][i]] = i - 1
                          /\ \A k \in 1 .. i : Path[Path[Genesis][i]][k] = Path[Genesis][k]
                          /\ i > 1 => /\ Path[Genesis][i] /= Genesis
                                      /\ Parent[Path[Genesis][i]] = Path[Genesis][i - 1]
      BY DEF PathIsPaths
    <3>2. i = 1 BY <2>3
    <3>3. Path[Genesis][i] = Genesis BY <3>2, <2>2
    <3>. QED BY <3>2, <3>3, <2>1, <2>4
  <2>. QED BY <2>1, <2>5
<1>2. ASSUME NEW a \in Blocks, a /= Genesis, Parent[a] \in T PROVE a \in T
  <2>1. /\ Height[a] \in Nat /\ Path[a][Height[a] + 1] = a
        /\ Parent[a] \in Blocks /\ Height[a] = Height[Parent[a]] + 1 /\ Height[Parent[a]] \in Nat
        /\ \A i \in 1 .. Height[a] : Path[a][i] = Path[Parent[a]][i]
    BY <1>2, TreeFacts
  <2>2. PathIsPaths(Parent[a]) BY <1>2
  <2>3. Path[Parent[a]][Height[a]] = Parent[a] BY <2>1, TreeFacts
  <2>4. SUFFICES ASSUME NEW i \in 1 .. Height[a] + 1
                 PROVE  /\ Path[a][i] \in Blocks /\ Height[Path[a][i]] = i - 1
                        /\ \A k \in 1 .. i : Path[Path[a][i]][k] = Path[a][k]
                        /\ i > 1 => /\ Path[a][i] /= Genesis
                                    /\ Parent[Path[a][i]] = Path[a][i - 1]
    BY DEF PathIsPaths
  <2>5. CASE i = Height[a] + 1
    <3>1. Path[a][i] = a /\ i - 1 = Height[a] BY <2>1, <2>5
    <3>2. Height[a] \in 1 .. Height[a] BY <2>1
    <3>3. Path[a][Height[a]] = Parent[a] BY <2>1, <2>3, <3>2
    <3>. QED BY <3>1, <3>3, <1>2
  <2>6. CASE i \in 1 .. Height[a]
    <3>1. i \in 1 .. Height[Parent[a]] + 1 /\ Path[a][i] = Path[Parent[a]][i] BY <2>1, <2>6
    <3>2. \A k \in 1 .. i : Path[a][k] = Path[Parent[a]][k] BY <2>1, <2>6
    <3>3. i > 1 => i - 1 \in 1 .. i BY <2>1
    <3>. QED BY <3>1, <3>2, <3>3, <2>2 DEF PathIsPaths
  <2>7. i = Height[a] + 1 \/ i \in 1 .. Height[a] BY <2>1
  <2>. QED BY <2>5, <2>6, <2>7
<1>. HIDE DEF T
<1>3. \A a \in Blocks : a \in T BY <1>1, <1>2, TreeInduction
<1>. QED BY <1>3 DEF T

\* The blocks of a chain: their heights tell them apart, and it holds their
\* parents.
LEMMA OnFacts ==
    ASSUME NEW b \in Blocks, NEW a \in On(b)
    PROVE  /\ a \in Blocks /\ Height[a] <= Height[b] /\ Path[b][Height[a] + 1] = a
           /\ \A k \in 1 .. Height[a] + 1 : Path[a][k] = Path[b][k]
           /\ Height[a] = Height[b] => a = b
           /\ a /= Genesis => Parent[a] \in On(b)
<1>1. Path[b] \in Seq(Blocks) /\ Height[b] \in Nat /\ Len(Path[b]) = Height[b] + 1
      /\ Path[b][Height[b] + 1] = b
  BY TreeFacts
<1>2. DOMAIN Path[b] = 1 .. Height[b] + 1 BY <1>1
<1>3. PICK i \in 1 .. Height[b] + 1 : a = Path[b][i] BY <1>2 DEF On, Range
<1>4. /\ a \in Blocks /\ Height[a] = i - 1 /\ \A k \in 1 .. i : Path[a][k] = Path[b][k]
      /\ i > 1 => a /= Genesis /\ Parent[a] = Path[b][i - 1]
  BY <1>3, PathsOnPath DEF PathIsPaths
<1>5. i \in Nat /\ Height[a] + 1 = i /\ Height[a] <= Height[b] BY <1>1, <1>3, <1>4
<1>6. Height[a] = Height[b] => a = b BY <1>1, <1>3, <1>5
<1>7. a /= Genesis => Parent[a] \in On(b)
  <2>1. SUFFICES ASSUME a /= Genesis PROVE Parent[a] \in On(b) OBVIOUS
  <2>2. Height[a] = Height[Parent[a]] + 1 /\ Height[Parent[a]] \in Nat BY <2>1, <1>4, TreeFacts
  <2>3. i > 1 /\ i - 1 \in 1 .. Height[b] + 1 BY <2>2, <1>1, <1>3, <1>5
  <2>. QED BY <2>3, <1>2, <1>4 DEF On, Range
<1>. QED BY <1>3, <1>4, <1>5, <1>6, <1>7

\* The block at each height of a chain.
LEMMA OnPath ==
    ASSUME NEW b \in Blocks, NEW i \in 1 .. Height[b] + 1
    PROVE  Path[b][i] \in On(b) /\ Path[b][i] \in Blocks /\ Height[Path[b][i]] = i - 1
<1>1. DOMAIN Path[b] = 1 .. Height[b] + 1 BY TreeFacts
<1>. QED BY <1>1, PathsOnPath DEF PathIsPaths, On, Range

\* Chains that grow contain what they contained.
LEMMA OnChild ==
    ASSUME NEW b \in Blocks, b /= Genesis, NEW a \in On(Parent[b]) PROVE a \in On(b)
<1>1. /\ Parent[b] \in Blocks /\ Height[b] = Height[Parent[b]] + 1 /\ Height[Parent[b]] \in Nat
      /\ \A i \in 1 .. Height[b] : Path[b][i] = Path[Parent[b]][i]
  BY TreeFacts
<1>2. a \in Blocks /\ Height[a] <= Height[Parent[b]] /\ Path[Parent[b]][Height[a] + 1] = a
  BY <1>1, OnFacts
<1>3. Height[a] \in Nat BY <1>2, TreeFacts
<1>4. Height[a] + 1 \in 1 .. Height[b] BY <1>1, <1>2, <1>3
<1>5. Path[b][Height[a] + 1] = a BY <1>1, <1>2, <1>4
<1>6. Height[a] + 1 \in 1 .. Height[b] + 1 BY <1>1, <1>4
<1>. QED BY <1>5, <1>6, OnPath

-----------------------------------------------------------------------------
(* The chain view: nodes is the path to some block. *)

\* A set of positions has a greatest element.
LEMMA MaxFacts ==
    ASSUME NEW n \in Nat, NEW S \in SUBSET (1 .. n), S /= {}
    PROVE  Max(S) \in S /\ \A y \in S : y <= Max(S)
<1>. DEFINE Top(m) == m \in S /\ \A y \in S : m >= y
            U == {k \in Nat : (\A y \in S : y <= k) => \E m \in S : Top(m)}
<1>1. 0 \in U
  <2>1. PICK y \in S : y \in 1 .. n OBVIOUS
  <2>2. ~(y <= 0) BY <2>1
  <2>. QED BY <2>2
<1>2. ASSUME NEW k \in Nat, k \in U PROVE k + 1 \in U
  <2>1. SUFFICES ASSUME \A y \in S : y <= k + 1 PROVE \E m \in S : Top(m) OBVIOUS
  <2>2. CASE k + 1 \in S BY <2>1, <2>2
  <2>3. CASE k + 1 \notin S
    <3>1. \A y \in S : y \in Nat /\ y /= k + 1 BY <2>3
    <3>2. \A y \in S : y <= k BY <3>1, <2>1
    <3>. QED BY <3>2, <1>2
  <2>. QED BY <2>2, <2>3
<1>. HIDE DEF U
<1>3. n \in U BY <1>1, <1>2, Induction
<1>4. \A y \in S : y <= n OBVIOUS
<1>5. \E m \in S : \A y \in S : m >= y BY <1>3, <1>4 DEF U
<1>6. Max(S) \in S /\ \A y \in S : Max(S) >= y BY <1>5 DEF Max
<1>. QED BY <1>6

\* Two blocks of one path are on each other's path.
LEMMA SamePrefix ==
    ASSUME NEW a \in Blocks, NEW b \in Blocks, NEW s \in 1 .. Height[a] + 1,
           s <= Height[b] + 1, Path[a][s] = Path[b][s]
    PROVE  \A i \in 1 .. s : Path[a][i] = Path[b][i]
<1>1. Height[a] \in Nat /\ Height[b] \in Nat BY TreeFacts
<1>2. s \in 1 .. Height[b] + 1 BY <1>1
<1>3. \A i \in 1 .. s : Path[Path[a][s]][i] = Path[a][i] BY PathsOnPath DEF PathIsPaths
<1>4. \A i \in 1 .. s : Path[Path[b][s]][i] = Path[b][i] BY <1>2, PathsOnPath DEF PathIsPaths
<1>. QED BY <1>3, <1>4

\* Who is on a path, by height.
LEMMA OnByHeight ==
    ASSUME NEW a \in Blocks, NEW b \in Blocks
    PROVE  b \in On(a) <=> Height[b] <= Height[a] /\ Path[a][Height[b] + 1] = b
<1>1. b \in On(a) => Height[b] <= Height[a] /\ Path[a][Height[b] + 1] = b BY OnFacts
<1>2. ASSUME Height[b] <= Height[a], Path[a][Height[b] + 1] = b PROVE b \in On(a)
  <2>1. Height[a] \in Nat /\ Height[b] \in Nat BY TreeFacts
  <2>2. Height[b] + 1 \in 1 .. Height[a] + 1 BY <2>1, <1>2
  <2>. QED BY <2>2, <1>2, OnPath
<1>. QED BY <1>1, <1>2

\* A path is on those above it.
LEMMA OnTransitive ==
    ASSUME NEW a \in Blocks, NEW b \in On(a), NEW x \in On(b) PROVE x \in On(a)
<1>1. b \in Blocks /\ Height[b] <= Height[a] /\ \A k \in 1 .. Height[b] + 1 : Path[b][k] = Path[a][k]
  BY OnFacts
<1>2. x \in Blocks /\ Height[x] <= Height[b] /\ Path[b][Height[x] + 1] = x BY <1>1, OnFacts
<1>3. Height[a] \in Nat /\ Height[b] \in Nat /\ Height[x] \in Nat BY <1>1, <1>2, TreeFacts
<1>4. Height[x] + 1 \in 1 .. Height[b] + 1 /\ Height[x] <= Height[a] BY <1>1, <1>2, <1>3
<1>5. Path[a][Height[x] + 1] = x BY <1>1, <1>2, <1>4
<1>. QED BY <1>2, <1>4, <1>5, OnByHeight

LEMMA OnSelf == ASSUME NEW b \in Blocks PROVE b \in On(b) /\ Genesis \in On(b) /\ On(b) \subseteq Blocks
<1>1. Height[b] \in Nat /\ Path[b][Height[b] + 1] = b BY TreeFacts
<1>2. Genesis \in Blocks /\ Height[Genesis] = 0 BY TreeFacts, TreeAssumption
<1>3. b \in On(b) BY <1>1, OnByHeight
<1>4. Path[b][1] = Genesis
  <2>1. 1 \in 1 .. Height[b] + 1 BY <1>1
  <2>2. PICK g \in Blocks : g = Path[b][1] /\ Height[g] = 0 BY <2>1, OnPath
  <2>3. g = Genesis
    <3>1. g /= Genesis => Height[g] = Height[Parent[g]] + 1 /\ Height[Parent[g]] \in Nat BY TreeFacts
    <3>. QED BY <3>1, <2>2
  <2>. QED BY <2>2, <2>3
<1>5. Genesis \in On(b) BY <1>1, <1>2, <1>4, OnByHeight
<1>6. On(b) \subseteq Blocks BY OnFacts
<1>. QED BY <1>3, <1>5, <1>6

\* What lies on a path is below its end, or is the end.
LEMMA OnParent ==
    ASSUME NEW b \in Blocks, b /= Genesis
    PROVE  /\ Parent[b] \in Blocks /\ Parent[b] /= b /\ Parent[b] \in On(b) /\ b \notin On(Parent[b])
           /\ \A x : x \in On(b) <=> x = b \/ x \in On(Parent[b])
<1>1. /\ Parent[b] \in Blocks /\ Height[b] = Height[Parent[b]] + 1 /\ Height[Parent[b]] \in Nat
      /\ Height[b] \in Nat /\ \A i \in 1 .. Height[b] : Path[b][i] = Path[Parent[b]][i]
  BY TreeFacts
<1>2. Parent[b] /= b BY <1>1
<1>3. \A x \in On(Parent[b]) : x \in On(b) BY OnChild
<1>4. Parent[b] \in On(b) BY <1>1, <1>3, OnSelf
<1>5. b \notin On(Parent[b])
  <2>1. b \in On(Parent[b]) => Height[b] <= Height[Parent[b]] BY <1>1, OnFacts
  <2>. QED BY <2>1, <1>1
<1>6. ASSUME NEW x \in On(b), x /= b PROVE x \in On(Parent[b])
  <2>1. /\ x \in Blocks /\ Height[x] <= Height[b] /\ Path[b][Height[x] + 1] = x
        /\ Height[x] = Height[b] => x = b
    BY OnFacts
  <2>2. Height[x] \in Nat BY <2>1, TreeFacts
  <2>3. Height[x] + 1 \in 1 .. Height[b] /\ Height[x] <= Height[Parent[b]] BY <1>1, <1>6, <2>1, <2>2
  <2>4. Path[Parent[b]][Height[x] + 1] = x BY <1>1, <2>1, <2>3
  <2>. QED BY <1>1, <2>1, <2>3, <2>4, OnByHeight
<1>7. b \in On(b) BY OnSelf
<1>. QED BY <1>1, <1>2, <1>3, <1>4, <1>5, <1>6, <1>7

LEMMA TipFacts == ASSUME NEW b \in Blocks PROVE TipOf(Path[b]) = b /\ Len(Path[b]) = Height[b] + 1
BY TreeFacts DEF TipOf

LEMMA InChainFacts ==
    ASSUME NEW a \in Blocks, NEW b \in Blocks PROVE InChain(Path[a], b) <=> b \in On(a)
<1>1. Height[a] \in Nat /\ Height[b] \in Nat /\ Len(Path[a]) = Height[a] + 1 BY TreeFacts
<1>2. b /= None BY TreeAssumption
<1>3. CASE Height[b] <= Height[a]
  <2>1. Height[b] \in 0 .. Len(Path[a]) - 1 BY <1>1, <1>3
  <2>. QED BY <2>1, <1>3, OnByHeight DEF InChain, NodeByHeight
<1>4. CASE ~(Height[b] <= Height[a])
  <2>1. Height[b] \notin 0 .. Len(Path[a]) - 1 BY <1>1, <1>4
  <2>. QED BY <2>1, <1>2, <1>4, OnByHeight DEF InChain, NodeByHeight
<1>. QED BY <1>3, <1>4

\* setTip gives the path to the new tip.
LEMMA SetTipFacts ==
    ASSUME NEW a \in Blocks, NEW b \in Blocks
    PROVE  SetTip(Path[a], b) = Path[b] /\ SetTip(<<>>, b) = Path[b]
<1>1. /\ Path[b] \in Seq(Blocks) /\ Len(Path[b]) = Height[b] + 1 /\ Height[b] \in Nat
      /\ Path[a] \in Seq(Blocks) /\ Len(Path[a]) = Height[a] + 1 /\ Height[a] \in Nat
  BY TreeFacts
<1>2. Path[b] = [i \in 1 .. Len(Path[b]) |-> Path[b][i]] BY <1>1
<1>. DEFINE same == {i \in 1 .. Len(Path[b]) : i <= Len(Path[a]) /\ Path[a][i] = Path[b][i]}
            none == {i \in 1 .. Len(Path[b]) : i <= Len(<<>>) /\ <<>>[i] = Path[b][i]}
<1>3. ASSUME NEW i \in 1 .. Len(Path[b])
      PROVE  (IF \A s \in same : i > s THEN Path[b][i] ELSE Path[a][i]) = Path[b][i]
  <2>1. CASE \E s \in same : ~(i > s)
    <3>1. PICK s \in 1 .. Height[b] + 1 : ~(i > s) /\ s <= Len(Path[a]) /\ Path[a][s] = Path[b][s]
      BY <2>1, <1>1
    <3>2. s \in 1 .. Height[a] + 1 /\ s <= Height[b] + 1 /\ i \in 1 .. s BY <3>1, <1>1
    <3>3. Path[a][i] = Path[b][i] BY <3>1, <3>2, SamePrefix
    <3>. QED BY <3>3
  <2>. QED BY <2>1
<1>4. SetTip(Path[a], b) = [i \in 1 .. Len(Path[b]) |->
                             IF \A s \in same : i > s THEN Path[b][i] ELSE Path[a][i]]
  BY DEF SetTip
<1>5. none = {}
  <2>1. Len(<<>>) = 0 OBVIOUS
  <2>2. \A i \in 1 .. Len(Path[b]) : ~(i <= 0) BY <1>1
  <2>. QED BY <2>1, <2>2
<1>6. SetTip(<<>>, b) = [i \in 1 .. Len(Path[b]) |->
                          IF \A s \in none : i > s THEN Path[b][i] ELSE <<>>[i]]
  BY DEF SetTip
<1>. HIDE DEF same, none
<1>7. SetTip(Path[a], b) = [i \in 1 .. Len(Path[b]) |-> Path[b][i]] BY <1>3, <1>4
<1>8. SetTip(<<>>, b) = [i \in 1 .. Len(Path[b]) |-> Path[b][i]] BY <1>5, <1>6
<1>. QED BY <1>2, <1>7, <1>8

\* The fork point is the highest block that both have.
LEMMA ForkFacts ==
    ASSUME NEW a \in Blocks, NEW b \in Blocks
    PROVE  /\ FindFork(Path[a], b) \in On(a) /\ FindFork(Path[a], b) \in On(b)
           /\ \A x \in On(a) : x \in On(b) => Height[x] <= Height[FindFork(Path[a], b)]
<1>1. Path[b] \in Seq(Blocks) /\ Len(Path[b]) = Height[b] + 1 /\ Height[b] \in Nat BY TreeFacts
<1>. DEFINE below == {i \in 1 .. Len(Path[b]) : InChain(Path[a], Path[b][i])}
<1>2. \A i \in 1 .. Len(Path[b]) : /\ Path[b][i] \in Blocks /\ Path[b][i] \in On(b)
                                   /\ Height[Path[b][i]] = i - 1
  BY <1>1, OnPath
<1>3. \A i \in 1 .. Len(Path[b]) : i \in below <=> Path[b][i] \in On(a) BY <1>2, InChainFacts
<1>4. 1 \in below
  <2>1. Genesis \in Blocks /\ Genesis \in On(a) /\ Genesis \in On(b) BY OnSelf, TreeAssumption
  <2>2. Height[Genesis] = 0 BY <2>1, TreeFacts
  <2>3. Path[b][0 + 1] = Genesis BY <2>1, <2>2, OnByHeight
  <2>4. Path[b][1] = Genesis BY <2>3
  <2>5. 1 \in 1 .. Len(Path[b]) BY <1>1
  <2>. QED BY <2>1, <2>4, <2>5, <1>3
<1>5. below \in SUBSET (1 .. Len(Path[b])) /\ below /= {} /\ Len(Path[b]) \in Nat BY <1>1, <1>4
<1>6. FindFork(Path[a], b) = Path[b][Max(below)] BY DEF FindFork
<1>. HIDE DEF below
<1>7. PICK m : m = Max(below) OBVIOUS
<1>8. m \in below /\ \A y \in below : y <= m BY <1>5, <1>7, MaxFacts
<1>9. m \in 1 .. Len(Path[b]) BY <1>8, <1>5
<1>10. ASSUME NEW x \in On(a), x \in On(b) PROVE Height[x] <= Height[Path[b][m]]
  <2>1. x \in Blocks /\ Height[x] <= Height[b] /\ Path[b][Height[x] + 1] = x BY <1>10, OnFacts
  <2>2. Height[x] \in Nat BY <2>1, TreeFacts
  <2>3. Height[x] + 1 \in 1 .. Len(Path[b]) BY <1>1, <2>1, <2>2
  <2>4. Height[x] + 1 \in below BY <2>1, <2>3, <1>3
  <2>5. Height[x] + 1 <= m BY <2>4, <1>8
  <2>. QED BY <2>2, <2>5, <1>2, <1>9
<1>. QED BY <1>2, <1>3, <1>6, <1>7, <1>8, <1>9, <1>10

\* The end of a sequence.
LEMMA Suffix ==
    ASSUME NEW S, NEW s \in Seq(S), NEW m \in Nat, m + 1 <= Len(s)
    PROVE  /\ SubSeq(s, m + 2, Len(s)) \in Seq(S) /\ Len(SubSeq(s, m + 2, Len(s))) = Len(s) - m - 1
           /\ \A i \in 1 .. Len(s) - m - 1 : SubSeq(s, m + 2, Len(s))[i] = s[m + 1 + i]
<1>1. m + 2 \in 1 .. Len(s) + 1 OBVIOUS
<1>2. PICK k \in 1 .. Len(s) + 1 : k = m + 2 BY <1>1
<1>3. /\ SubSeq(s, k, Len(s)) \in Seq(S) /\ Len(SubSeq(s, k, Len(s))) = Len(s) - k + 1
      /\ \A i \in 1 .. Len(s) - k + 1 : SubSeq(s, k, Len(s))[i] = s[k + i - 1]
  OBVIOUS
<1>4. Len(s) \in Nat OBVIOUS
<1>5. Len(s) - k + 1 = Len(s) - m - 1 BY <1>2, <1>4
<1>6. ASSUME NEW i \in 1 .. Len(s) - m - 1 PROVE SubSeq(s, m + 2, Len(s))[i] = s[m + 1 + i]
  <2>1. i \in 1 .. Len(s) - k + 1 /\ k + i - 1 = m + 1 + i BY <1>2, <1>5
  <2>2. SubSeq(s, k, Len(s))[i] = s[k + i - 1] BY <2>1, <1>3
  <2>. QED BY <2>1, <2>2, <1>2
<1>. QED BY <1>2, <1>3, <1>5, <1>6

\* The way from a chain to another block: blocks to take off the end, then
\* blocks to put on, which lead there.
Way(nodes, goal, detach, attach) ==
    /\ detach \in Seq(Blocks) /\ attach \in Seq(Blocks) /\ Len(detach) < Len(nodes)
    /\ \A i \in 1 .. Len(detach) : detach[i] = nodes[Len(nodes) + 1 - i]
    /\ Len(nodes) - Len(detach) + Len(attach) = Len(Path[goal])
    /\ \A i \in 1 .. Len(attach) : attach[i] = Path[goal][Len(nodes) - Len(detach) + i]
    /\ \A i \in 1 .. Len(nodes) - Len(detach) : nodes[i] = Path[goal][i]

\* What reorganizeChainInternal plans is such a way, and goes down no further
\* than to the highest block that both have.
LEMMA PlanIsWay ==
    ASSUME NEW a \in Blocks, NEW b \in Blocks
    PROVE  /\ Way(Path[a], b, Detached(Path[a], b), Attached(Path[a], b))
           /\ \A x \in On(a) : x \in On(b) =>
                Height[x] + 1 <= Len(Path[a]) - Len(Detached(Path[a], b))
           /\ Len(Path[a]) - Len(Detached(Path[a], b)) = Height[FindFork(Path[a], b)] + 1
<1>1. PICK f \in Blocks : /\ f = FindFork(Path[a], b) /\ f \in On(a) /\ f \in On(b)
                          /\ \A x \in On(a) : x \in On(b) => Height[x] <= Height[f]
  BY ForkFacts, OnSelf
<1>2. PICK p \in Seq(Blocks) : p = Path[a] /\ Len(p) = Height[a] + 1 BY TreeFacts
<1>3. PICK q \in Seq(Blocks) : q = Path[b] /\ Len(q) = Height[b] + 1 BY TreeFacts
<1>4. PICK m \in Nat : m = Height[f] BY TreeFacts
<1>5. m + 1 <= Len(p) /\ m + 1 <= Len(q) /\ Len(p) \in Nat /\ Len(q) \in Nat
  <2>1. Height[f] <= Height[a] /\ Height[f] <= Height[b] BY <1>1, OnFacts
  <2>2. Height[a] \in Nat /\ Height[b] \in Nat BY TreeFacts
  <2>. QED BY <1>2, <1>3, <1>4, <2>1, <2>2
<1>6. \A i \in 1 .. m + 1 : p[i] = q[i]
  <2>1. \A i \in 1 .. Height[f] + 1 : Path[f][i] = Path[a][i] BY <1>1, OnFacts
  <2>2. \A i \in 1 .. Height[f] + 1 : Path[f][i] = Path[b][i] BY <1>1, OnFacts
  <2>. QED BY <2>1, <2>2, <1>2, <1>3, <1>4
<1>7. PICK s : s = SubSeq(p, m + 2, Len(p)) OBVIOUS
<1>8. /\ s \in Seq(Blocks) /\ Len(s) = Len(p) - m - 1
      /\ \A i \in 1 .. Len(p) - m - 1 : s[i] = p[m + 1 + i]
  BY <1>2, <1>5, <1>7, Suffix
<1>9. PICK d : d = Detached(Path[a], b) OBVIOUS
<1>10. d = [i \in 1 .. Len(s) |-> s[(Len(s) - i) + 1]]
  BY <1>1, <1>2, <1>4, <1>7, <1>9 DEF Detached, Reverse
<1>11. d \in Seq(Blocks) /\ Len(d) = Len(s)
  <2>1. Len(s) \in Nat BY <1>8
  <2>2. \A i \in 1 .. Len(s) : s[(Len(s) - i) + 1] \in Blocks
    <3>1. ASSUME NEW i \in 1 .. Len(s) PROVE s[(Len(s) - i) + 1] \in Blocks
      <4>1. (Len(s) - i) + 1 \in 1 .. Len(s) BY <2>1
      <4>. QED BY <4>1, <1>8
    <3>. QED BY <3>1
  <2>3. d \in [1 .. Len(s) -> Blocks] BY <1>10, <2>2
  <2>. QED BY <2>1, <2>3
<1>12. \A i \in 1 .. Len(d) : d[i] = p[Len(p) + 1 - i]
  <2>1. ASSUME NEW i \in 1 .. Len(d) PROVE d[i] = p[Len(p) + 1 - i]
    <3>1. Len(d) = Len(p) - m - 1 /\ i \in 1 .. Len(s) BY <1>8, <1>11
    <3>2. (Len(s) - i) + 1 \in 1 .. Len(p) - m - 1 BY <3>1, <1>5, <1>8
    <3>3. m + 1 + ((Len(s) - i) + 1) = Len(p) + 1 - i BY <3>1, <1>5, <1>8
    <3>4. s[(Len(s) - i) + 1] = p[m + 1 + ((Len(s) - i) + 1)] BY <3>2, <1>8
    <3>5. d[i] = s[(Len(s) - i) + 1] BY <3>1, <1>10
    <3>. QED BY <3>3, <3>4, <3>5
  <2>. QED BY <2>1
<1>13. PICK t : t = Attached(Path[a], b) OBVIOUS
<1>14. t = SubSeq(q, m + 2, Len(q)) BY <1>1, <1>3, <1>4, <1>13 DEF Attached
<1>15. /\ t \in Seq(Blocks) /\ Len(t) = Len(q) - m - 1
       /\ \A i \in 1 .. Len(q) - m - 1 : t[i] = q[m + 1 + i]
  BY <1>3, <1>5, <1>14, Suffix
<1>16. Len(p) - Len(d) = m + 1 /\ Len(d) < Len(p) /\ m + 1 + Len(t) = Len(q)
  BY <1>5, <1>8, <1>11, <1>15
<1>17. \A i \in 1 .. Len(t) : t[i] = q[m + 1 + i] BY <1>15
<1>18. Way(p, b, d, t) BY <1>3, <1>6, <1>11, <1>12, <1>15, <1>16, <1>17 DEF Way
<1>19. ASSUME NEW x \in On(a), x \in On(b) PROVE Height[x] + 1 <= m + 1
  <2>1. x \in Blocks /\ Height[x] <= m BY <1>1, <1>4, <1>19, OnSelf
  <2>2. Height[x] \in Nat BY <2>1, TreeFacts
  <2>. QED BY <2>1, <2>2
<1>. QED BY <1>1, <1>2, <1>4, <1>9, <1>13, <1>16, <1>18, <1>19

\* The blocks of a way are on the two chains.
\* Blocks each of which has the one before it as its parent.
Linked(s) == \A i \in 2 .. Len(s) : Parent[s[i]] = s[i - 1]

LEMMA WayBlocks ==
    ASSUME NEW a \in Blocks, NEW g \in Blocks, NEW d, NEW t, Way(Path[a], g, d, t)
    PROVE  /\ Range(d) \subseteq On(a) /\ Range(t) \subseteq On(g) /\ Genesis \notin Range(t)
           /\ Linked(t)
           /\ t /= <<>> => Head(t) \in On(g) /\ Head(t) /= Genesis
           /\ Genesis \notin Range(d)
<1>1. PICK p \in Seq(Blocks) : p = Path[a] /\ Len(p) = Height[a] + 1 BY TreeFacts
<1>2. PICK q \in Seq(Blocks) : q = Path[g] /\ Len(q) = Height[g] + 1 BY TreeFacts
<1>3. Len(p) \in Nat /\ Len(q) \in Nat OBVIOUS
<1>4. d \in Seq(Blocks) /\ t \in Seq(Blocks) /\ Len(d) < Len(p)
      /\ (\A i \in 1 .. Len(d) : d[i] = p[Len(p) + 1 - i])
      /\ Len(p) - Len(d) + Len(t) = Len(q)
      /\ \A i \in 1 .. Len(t) : t[i] = q[Len(p) - Len(d) + i]
  BY <1>1, <1>2 DEF Way
<1>5. PICK n \in Nat : n = Len(p) - Len(d) /\ n >= 1
  <2>1. Len(d) \in Nat BY <1>4
  <2>2. Len(p) - Len(d) \in Nat /\ Len(p) - Len(d) >= 1 BY <1>3, <1>4, <2>1
  <2>. QED BY <2>2
<1>6. Len(d) \in Nat /\ Len(t) \in Nat /\ DOMAIN d = 1 .. Len(d) /\ DOMAIN t = 1 .. Len(t) BY <1>4
<1>7. ASSUME NEW i \in 1 .. Len(d) PROVE d[i] \in On(a) /\ d[i] /= Genesis
  <2>1. Len(p) + 1 - i \in 1 .. Height[a] + 1 /\ Len(p) + 1 - i > 1 BY <1>1, <1>3, <1>4, <1>6
  <2>2. Path[a][Len(p) + 1 - i] \in On(a) BY <2>1, OnPath
  <2>3. Path[a][Len(p) + 1 - i] /= Genesis BY <2>1, PathsOnPath DEF PathIsPaths
  <2>. QED BY <2>2, <2>3, <1>1, <1>4
<1>8. ASSUME NEW i \in 1 .. Len(t)
      PROVE  t[i] \in On(g) /\ t[i] /= Genesis /\ (i > 1 => Parent[t[i]] = t[i - 1])
  <2>1. n + i \in 1 .. Height[g] + 1 /\ n + i > 1 BY <1>2, <1>3, <1>4, <1>5, <1>6
  <2>2. Path[g][n + i] \in On(g) BY <2>1, OnPath
  <2>3. Path[g][n + i] /= Genesis /\ Parent[Path[g][n + i]] = Path[g][(n + i) - 1]
    BY <2>1, PathsOnPath DEF PathIsPaths
  <2>4. t[i] = Path[g][n + i] BY <1>2, <1>4, <1>5
  <2>5. i > 1 => t[i - 1] = Path[g][(n + i) - 1]
    <3>1. SUFFICES ASSUME i > 1 PROVE t[i - 1] = Path[g][(n + i) - 1] OBVIOUS
    <3>2. i - 1 \in 1 .. Len(t) /\ n + (i - 1) = (n + i) - 1 BY <3>1, <1>5, <1>6
    <3>. QED BY <3>2, <1>2, <1>4, <1>5
  <2>. QED BY <2>2, <2>3, <2>4, <2>5
<1>9. t /= <<>> => 1 \in 1 .. Len(t) /\ Head(t) = t[1] BY <1>4, <1>6
<1>10. \A i \in 2 .. Len(t) : i \in 1 .. Len(t) /\ i > 1 BY <1>6
<1>11. Linked(t) BY <1>8, <1>10 DEF Linked
<1>. QED BY <1>6, <1>7, <1>8, <1>9, <1>11 DEF Range

\* Going it: the end of the chain comes off first ...
LEMMA WayDown ==
    ASSUME NEW a \in Blocks, NEW g \in Blocks, NEW d, NEW t, Way(Path[a], g, d, t), d /= <<>>
    PROVE  /\ Head(d) = a /\ a /= Genesis /\ Way(Path[Parent[a]], g, Tail(d), t)
           /\ Len(Path[Parent[a]]) - Len(Tail(d)) = Len(Path[a]) - Len(d)
<1>1. PICK p \in Seq(Blocks) : p = Path[a] /\ Len(p) = Height[a] + 1 /\ p[Len(p)] = a BY TreeFacts
<1>2. Len(p) \in Nat OBVIOUS
<1>3. d \in Seq(Blocks) /\ t \in Seq(Blocks) /\ Len(d) < Len(p)
      /\ (\A i \in 1 .. Len(d) : d[i] = p[Len(p) + 1 - i])
      /\ Len(p) - Len(d) + Len(t) = Len(Path[g])
      /\ (\A i \in 1 .. Len(t) : t[i] = Path[g][Len(p) - Len(d) + i])
      /\ \A i \in 1 .. Len(p) - Len(d) : p[i] = Path[g][i]
  BY <1>1 DEF Way
<1>4. Len(d) \in Nat /\ Len(d) >= 1 /\ Head(d) = d[1] BY <1>3
<1>5. 1 \in 1 .. Len(d) /\ Len(p) + 1 - 1 = Len(p) BY <1>2, <1>4
<1>6. Head(d) = a BY <1>1, <1>3, <1>4, <1>5
<1>7. Height[a] >= 1
  <2>1. Height[a] \in Nat BY TreeFacts
  <2>2. Height[a] + 1 > 1 BY <1>1, <1>2, <1>3, <1>4
  <2>. QED BY <2>1, <2>2
<1>8. a /= Genesis BY <1>7, TreeFacts
<1>9. /\ Height[a] = Height[Parent[a]] + 1 /\ Height[Parent[a]] \in Nat /\ Parent[a] \in Blocks
      /\ \A i \in 1 .. Height[a] : Path[a][i] = Path[Parent[a]][i]
  BY <1>8, TreeFacts
<1>10. PICK q \in Seq(Blocks) : q = Path[Parent[a]] /\ Len(q) = Height[Parent[a]] + 1
  BY <1>9, TreeFacts
<1>11. Len(q) = Len(p) - 1 /\ \A i \in 1 .. Len(p) - 1 : q[i] = p[i] BY <1>1, <1>9, <1>10
<1>12. PICK e \in Seq(Blocks) : e = Tail(d) /\ Len(e) = Len(d) - 1
                                /\ \A i \in 1 .. Len(d) - 1 : e[i] = d[i + 1]
  <2>1. /\ Tail(d) \in Seq(Blocks) /\ Len(Tail(d)) = Len(d) - 1
        /\ \A i \in 1 .. Len(d) - 1 : Tail(d)[i] = d[i + 1]
    BY <1>3, <1>4
  <2>. QED BY <2>1
<1>13. Len(q) - Len(e) = Len(p) - Len(d) /\ Len(e) < Len(q) BY <1>2, <1>3, <1>4, <1>11, <1>12
<1>14. \A i \in 1 .. Len(e) : e[i] = q[Len(q) + 1 - i]
  <2>1. ASSUME NEW i \in 1 .. Len(e) PROVE e[i] = q[Len(q) + 1 - i]
    <3>1. i + 1 \in 1 .. Len(d) /\ i \in 1 .. Len(d) - 1 BY <1>4, <1>12
    <3>2. i \in Nat /\ i >= 1 /\ i <= Len(d) - 1 /\ Len(d) < Len(p) /\ Len(q) = Len(p) - 1
      BY <3>1, <1>3, <1>4, <1>11
    <3>4. Len(p) + 1 - (i + 1) = Len(q) + 1 - i /\ Len(q) + 1 - i \in 1 .. Len(p) - 1
      BY <3>2, <1>2, <1>4
    <3>3. e[i] = d[i + 1] /\ d[i + 1] = p[Len(p) + 1 - (i + 1)] BY <3>1, <1>3, <1>12
    <3>. QED BY <3>3, <3>4, <1>11
  <2>. QED BY <2>1
<1>15. \A i \in 1 .. Len(p) - Len(d) : q[i] = Path[g][i]
  <2>1. \A i \in 1 .. Len(p) - Len(d) : i \in 1 .. Len(p) - 1 BY <1>2, <1>4
  <2>. QED BY <2>1, <1>3, <1>11
<1>16. Way(q, g, e, t) BY <1>3, <1>12, <1>13, <1>14, <1>15 DEF Way
<1>. QED BY <1>1, <1>6, <1>8, <1>10, <1>12, <1>13, <1>16

\* ... then each block goes on its parent ...
LEMMA WayUp ==
    ASSUME NEW a \in Blocks, NEW g \in Blocks, NEW t, Way(Path[a], g, <<>>, t), t /= <<>>
    PROVE  /\ Head(t) \in Blocks \ {Genesis} /\ Parent[Head(t)] = a
           /\ Way(Path[Head(t)], g, <<>>, Tail(t))
           /\ Len(Path[Head(t)]) = Len(Path[a]) + 1
<1>1. PICK p \in Seq(Blocks) : p = Path[a] /\ Len(p) = Height[a] + 1 /\ p[Len(p)] = a BY TreeFacts
<1>2. PICK q \in Seq(Blocks) : q = Path[g] /\ Len(q) = Height[g] + 1 BY TreeFacts
<1>3. Len(p) \in Nat /\ Len(p) >= 1 /\ Len(q) \in Nat BY <1>1, TreeFacts
<1>4. Len(<<>>) = 0 OBVIOUS
<1>5. t \in Seq(Blocks) /\ Len(p) + Len(t) = Len(q)
      /\ (\A i \in 1 .. Len(t) : t[i] = q[Len(p) + i])
      /\ \A i \in 1 .. Len(p) : p[i] = q[i]
  <2>1. Len(p) - 0 = Len(p) BY <1>3
  <2>. QED BY <1>1, <1>2, <1>4, <2>1 DEF Way
<1>6. Len(t) \in Nat /\ Len(t) >= 1 /\ Head(t) = t[1] BY <1>5
<1>7. PICK b : b = Head(t) OBVIOUS
<1>8. b = q[Len(p) + 1] /\ Len(p) + 1 \in 1 .. Height[g] + 1 /\ Len(p) + 1 > 1
  <2>1. 1 \in 1 .. Len(t) BY <1>6
  <2>. QED BY <2>1, <1>2, <1>3, <1>5, <1>6, <1>7
<1>9. /\ b \in Blocks /\ Height[b] = Len(p) /\ b /= Genesis /\ Parent[b] = q[Len(p)]
      /\ \A k \in 1 .. Len(p) + 1 : Path[b][k] = q[k]
  <2>1. (Len(p) + 1) - 1 = Len(p) BY <1>3
  <2>2. PathIsPaths(g) BY PathsOnPath
  <2>. QED BY <2>1, <2>2, <1>2, <1>8 DEF PathIsPaths
<1>10. Parent[b] = a
  <2>1. Len(p) \in 1 .. Len(p) BY <1>3
  <2>. QED BY <2>1, <1>1, <1>5, <1>9
<1>11. PICK r \in Seq(Blocks) : r = Path[b] /\ Len(r) = Len(p) + 1 BY <1>9, TreeFacts
<1>12. PICK u \in Seq(Blocks) : u = Tail(t) /\ Len(u) = Len(t) - 1
                                /\ \A i \in 1 .. Len(t) - 1 : u[i] = t[i + 1]
  <2>1. /\ Tail(t) \in Seq(Blocks) /\ Len(Tail(t)) = Len(t) - 1
        /\ \A i \in 1 .. Len(t) - 1 : Tail(t)[i] = t[i + 1]
    BY <1>5, <1>6
  <2>. QED BY <2>1
<1>13. ASSUME NEW i \in 1 .. Len(u) PROVE u[i] = q[Len(r) + i]
  <2>1. i + 1 \in 1 .. Len(t) /\ i \in 1 .. Len(t) - 1 /\ Len(p) + (i + 1) = Len(r) + i
    BY <1>3, <1>6, <1>11, <1>12
  <2>. QED BY <2>1, <1>5, <1>12
<1>14. Len(r) + Len(u) = Len(q) /\ 0 < Len(r) /\ Len(r) - 0 = Len(r) BY <1>3, <1>5, <1>6, <1>11, <1>12
<1>15. \A i \in 1 .. Len(r) : r[i] = q[i] BY <1>9, <1>11
<1>16. <<>> \in Seq(Blocks) /\ \A i \in 1 .. 0 : FALSE OBVIOUS
<1>17. Way(r, g, <<>>, u) BY <1>2, <1>4, <1>11, <1>12, <1>13, <1>14, <1>15, <1>16 DEF Way
<1>. QED BY <1>1, <1>7, <1>9, <1>10, <1>11, <1>12, <1>17

\* ... and at the end of the way the chain is there.
LEMMA WayEnd ==
    ASSUME NEW a \in Blocks, NEW g \in Blocks, Way(Path[a], g, <<>>, <<>>) PROVE a = g
<1>1. Height[a] \in Nat /\ Len(Path[a]) = Height[a] + 1 /\ Path[a][Height[a] + 1] = a BY TreeFacts
<1>2. Height[g] \in Nat /\ Len(Path[g]) = Height[g] + 1 /\ Path[g][Height[g] + 1] = g BY TreeFacts
<1>3. Len(<<>>) = 0 OBVIOUS
<1>4. Len(Path[a]) - 0 + 0 = Len(Path[g]) /\ \A i \in 1 .. Len(Path[a]) - 0 : Path[a][i] = Path[g][i]
  BY <1>3 DEF Way
<1>5. Height[a] = Height[g] BY <1>1, <1>2, <1>4
<1>6. Height[a] + 1 \in 1 .. Len(Path[a]) - 0 BY <1>1
<1>. QED BY <1>1, <1>2, <1>4, <1>5, <1>6
-----------------------------------------------------------------------------
(* The block index and its flags. *)

IndexType(idx) == idx \in [DOMAIN idx -> SUBSET Flags] /\ DOMAIN idx \subseteq Blocks

\* What the flags say, given the kinds of the blocks and whether BFFastAdd can
\* have let one pass: a valid block has valid blocks below it and did not fail,
\* and a flag "badAncestor" is owed to one that failed.
FlagsOK(idx, kind, trust) ==
    /\ Genesis \in DOMAIN idx /\ "valid" \in idx[Genesis]
    /\ \A b \in DOMAIN idx :
         /\ Parent[b] \in DOMAIN idx
         /\ "valid" \in idx[b] => /\ "valid" \in idx[Parent[b]] /\ "failed" \notin idx[b]
                                  /\ trust => kind[b] /= "invalid"
         /\ "failed" \in idx[b] => kind[b] = "invalid"
         /\ "badAncestor" \in idx[b] =>
              \E a \in On(b) : a /= b /\ a \in DOMAIN idx /\ "failed" \in idx[a]

LEMMA PathClosed ==
    ASSUME NEW idx, NEW kind, NEW trust, IndexType(idx), FlagsOK(idx, kind, trust),
           NEW b \in DOMAIN idx
    PROVE  On(b) \subseteq DOMAIN idx
<1>. DEFINE T == {x \in Blocks : x \in DOMAIN idx => On(x) \subseteq DOMAIN idx}
<1>1. Genesis \in T
  <2>1. Path[Genesis] = <<Genesis>> /\ Genesis \in Blocks BY TreeAssumption
  <2>2. On(Genesis) = {Genesis} BY <2>1 DEF On, Range
  <2>. QED BY <2>1, <2>2 DEF FlagsOK
<1>2. ASSUME NEW x \in Blocks, x /= Genesis, Parent[x] \in T PROVE x \in T
  <2>1. SUFFICES ASSUME x \in DOMAIN idx PROVE On(x) \subseteq DOMAIN idx OBVIOUS
  <2>2. Parent[x] \in DOMAIN idx BY <2>1 DEF FlagsOK
  <2>3. On(Parent[x]) \subseteq DOMAIN idx BY <2>2, <1>2
  <2>4. \A y : y \in On(x) <=> y = x \/ y \in On(Parent[x]) BY <1>2, OnParent
  <2>. QED BY <2>1, <2>3, <2>4
<1>. HIDE DEF T
<1>3. \A x \in Blocks : x \in T BY <1>1, <1>2, TreeInduction
<1>4. b \in Blocks BY DEF IndexType
<1>. QED BY <1>3, <1>4 DEF T

\* The chain below a valid block is valid and not known to be invalid.
LEMMA ValidPath ==
    ASSUME NEW idx, NEW kind, NEW trust, IndexType(idx), FlagsOK(idx, kind, trust),
           NEW b \in DOMAIN idx, "valid" \in idx[b]
    PROVE  \A a \in On(b) : /\ a \in DOMAIN idx /\ "valid" \in idx[a] /\ ~KnownInvalid(idx[a])
                            /\ "failed" \notin idx[a] /\ (trust => kind[a] /= "invalid")
<1>. DEFINE T == {x \in Blocks : x \in DOMAIN idx /\ "valid" \in idx[x] =>
                                   \A a \in On(x) : a \in DOMAIN idx /\ "valid" \in idx[a]}
<1>1. Genesis \in T
  <2>1. Path[Genesis] = <<Genesis>> /\ Genesis \in Blocks BY TreeAssumption
  <2>2. On(Genesis) = {Genesis} BY <2>1 DEF On, Range
  <2>. QED BY <2>1, <2>2
<1>2. ASSUME NEW x \in Blocks, x /= Genesis, Parent[x] \in T PROVE x \in T
  <2>1. SUFFICES ASSUME x \in DOMAIN idx, "valid" \in idx[x]
                 PROVE  \A a \in On(x) : a \in DOMAIN idx /\ "valid" \in idx[a]
    OBVIOUS
  <2>2. Parent[x] \in DOMAIN idx /\ "valid" \in idx[Parent[x]] BY <2>1 DEF FlagsOK
  <2>3. \A a \in On(Parent[x]) : a \in DOMAIN idx /\ "valid" \in idx[a] BY <2>2, <1>2
  <2>4. \A y : y \in On(x) <=> y = x \/ y \in On(Parent[x]) BY <1>2, OnParent
  <2>. QED BY <2>1, <2>3, <2>4
<1>. HIDE DEF T
<1>3. \A x \in Blocks : x \in T BY <1>1, <1>2, TreeInduction
<1>4. b \in Blocks BY DEF IndexType
<1>5. \A a \in On(b) : a \in DOMAIN idx /\ "valid" \in idx[a] BY <1>3, <1>4 DEF T
<1>6. ASSUME NEW a \in On(b) PROVE "badAncestor" \notin idx[a]
  <2>1. SUFFICES ASSUME "badAncestor" \in idx[a] PROVE FALSE OBVIOUS
  <2>2. PICK x \in On(a) : x \in DOMAIN idx /\ "failed" \in idx[x] BY <1>5, <2>1 DEF FlagsOK
  <2>3. x \in On(b) BY <1>4, OnTransitive
  <2>. QED BY <2>2, <2>3, <1>5 DEF FlagsOK
<1>7. \A a \in On(b) : "failed" \notin idx[a] /\ (trust => kind[a] /= "invalid") BY <1>5 DEF FlagsOK
<1>. QED BY <1>5, <1>6, <1>7 DEF KnownInvalid

\* A block that is known to be invalid has one below it, or is one, that is so
\* in truth.
LEMMA InvalidPath ==
    ASSUME NEW idx, NEW kind, NEW trust, IndexType(idx), FlagsOK(idx, kind, trust),
           NEW b \in DOMAIN idx, KnownInvalid(idx[b])
    PROVE  \E a \in On(b) : a \in DOMAIN idx /\ "failed" \in idx[a] /\ kind[a] = "invalid"
<1>1. b \in On(b) BY OnSelf DEF IndexType
<1>2. CASE "failed" \in idx[b] BY <1>1, <1>2 DEF FlagsOK
<1>3. CASE "badAncestor" \in idx[b] BY <1>3 DEF FlagsOK
<1>. QED BY <1>2, <1>3 DEF KnownInvalid

LEMMA SetStatusFacts ==
    ASSUME NEW idx, IndexType(idx), NEW S, NEW f \in Flags
    PROVE  /\ IndexType(SetStatusFlags(idx, S, f))
           /\ DOMAIN SetStatusFlags(idx, S, f) = DOMAIN idx
           /\ \A b \in DOMAIN idx :
                /\ SetStatusFlags(idx, S, f)[b] = IF b \in S THEN idx[b] \cup {f} ELSE idx[b]
                /\ idx[b] \subseteq SetStatusFlags(idx, S, f)[b]
<1>1. \A b \in DOMAIN idx : idx[b] \in SUBSET Flags BY DEF IndexType
<1>2. DOMAIN SetStatusFlags(idx, S, f) = DOMAIN idx BY DEF SetStatusFlags
<1>3. \A b \in DOMAIN idx :
        SetStatusFlags(idx, S, f)[b] = IF b \in S THEN idx[b] \cup {f} ELSE idx[b]
  BY DEF SetStatusFlags
<1>4. \A b \in DOMAIN idx : (IF b \in S THEN idx[b] \cup {f} ELSE idx[b]) \in SUBSET Flags BY <1>1
<1>5. SetStatusFlags(idx, S, f) \in [DOMAIN idx -> SUBSET Flags] BY <1>4 DEF SetStatusFlags
<1>. QED BY <1>2, <1>3, <1>5 DEF IndexType

\* A new block enters the index.
LEMMA AddFacts ==
    ASSUME NEW idx, NEW kind, NEW trust, IndexType(idx), FlagsOK(idx, kind, trust),
           NEW b \in Blocks, b \notin DOMAIN idx, Parent[b] \in DOMAIN idx, NEW new,
           new = [x \in DOMAIN idx \cup {b} |-> IF x = b THEN {"data"} ELSE idx[x]]
    PROVE  /\ IndexType(new) /\ DOMAIN new = DOMAIN idx \cup {b} /\ new[b] = {"data"}
           /\ \A x \in DOMAIN idx : new[x] = idx[x]
           /\ FlagsOK(new, kind, trust)
<1>1. /\ DOMAIN new = DOMAIN idx \cup {b} /\ new[b] = {"data"}
      /\ \A x \in DOMAIN idx : new[x] = idx[x]
  OBVIOUS
<1>2. IndexType(new) BY DEF IndexType, Flags
<1>3. FlagsOK(new, kind, trust)
  <2>1. "valid" \notin new[b] /\ "failed" \notin new[b] /\ "badAncestor" \notin new[b] BY <1>1
  <2>. QED BY <1>1, <2>1 DEF FlagsOK
<1>. QED BY <1>1, <1>2, <1>3

\* A block fails that is not known to be valid.
LEMMA FailFacts ==
    ASSUME NEW idx, NEW kind, NEW trust, IndexType(idx), FlagsOK(idx, kind, trust),
           NEW b \in DOMAIN idx, "valid" \notin idx[b], kind[b] = "invalid"
    PROVE  FlagsOK(SetStatusFlags(idx, {b}, "failed"), kind, trust)
<1>1. PICK new : new = SetStatusFlags(idx, {b}, "failed") OBVIOUS
<1>2. /\ DOMAIN new = DOMAIN idx
      /\ \A x \in DOMAIN idx : new[x] = IF x \in {b} THEN idx[x] \cup {"failed"} ELSE idx[x]
  BY <1>1 DEF SetStatusFlags
<1>3. \A x \in DOMAIN idx : /\ "valid" \in new[x] <=> "valid" \in idx[x]
                            /\ "failed" \in new[x] <=> ("failed" \in idx[x] \/ x = b)
                            /\ "badAncestor" \in new[x] <=> "badAncestor" \in idx[x]
  BY <1>2
<1>4. FlagsOK(new, kind, trust) BY <1>2, <1>3 DEF FlagsOK
<1>. QED BY <1>1, <1>4

\* A block is valid whose parent is, and that did not fail.
LEMMA PassFacts ==
    ASSUME NEW idx, NEW kind, NEW trust, IndexType(idx), FlagsOK(idx, kind, trust),
           NEW b \in DOMAIN idx, "valid" \in idx[Parent[b]], "failed" \notin idx[b],
           trust => kind[b] /= "invalid"
    PROVE  FlagsOK(SetStatusFlags(idx, {b}, "valid"), kind, trust)
<1>1. PICK new : new = SetStatusFlags(idx, {b}, "valid") OBVIOUS
<1>2. /\ DOMAIN new = DOMAIN idx
      /\ \A x \in DOMAIN idx : new[x] = IF x \in {b} THEN idx[x] \cup {"valid"} ELSE idx[x]
  BY <1>1 DEF SetStatusFlags
<1>3. \A x \in DOMAIN idx : /\ "valid" \in new[x] <=> ("valid" \in idx[x] \/ x = b)
                            /\ "failed" \in new[x] <=> "failed" \in idx[x]
                            /\ "badAncestor" \in new[x] <=> "badAncestor" \in idx[x]
  BY <1>2
<1>4. FlagsOK(new, kind, trust) BY <1>2, <1>3 DEF FlagsOK
<1>. QED BY <1>1, <1>4

\* Blocks are flagged that lie above one that failed.
LEMMA BadAncestorFacts ==
    ASSUME NEW idx, NEW kind, NEW trust, IndexType(idx), FlagsOK(idx, kind, trust), NEW S,
           \A x \in S : \E a \in On(x) : a /= x /\ a \in DOMAIN idx /\ "failed" \in idx[a]
    PROVE  FlagsOK(SetStatusFlags(idx, S, "badAncestor"), kind, trust)
<1>1. PICK new : new = SetStatusFlags(idx, S, "badAncestor") OBVIOUS
<1>2. /\ DOMAIN new = DOMAIN idx
      /\ \A x \in DOMAIN idx : new[x] = IF x \in S THEN idx[x] \cup {"badAncestor"} ELSE idx[x]
  BY <1>1 DEF SetStatusFlags
<1>3. \A x \in DOMAIN idx : /\ "valid" \in new[x] <=> "valid" \in idx[x]
                            /\ "failed" \in new[x] <=> "failed" \in idx[x]
                            /\ "badAncestor" \in new[x] <=> ("badAncestor" \in idx[x] \/ x \in S)
  BY <1>2
<1>4. FlagsOK(new, kind, trust) BY <1>2, <1>3 DEF FlagsOK
<1>. QED BY <1>1, <1>4
-----------------------------------------------------------------------------
(* The inductive invariant.  First what holds with any number of callers: the *)
(* index, what is on disk and in memory, and the jobs.                        *)

\* The blocks of the index passed the checks before it.
PassedOK(D, e, trust) ==
    /\ D \subseteq e.sent \cup {Genesis}
    /\ \A b \in D : /\ e.kind[b] /= "insane" /\ (trust => e.kind[b] /= "misplaced")
                    /\ \A x \in Range(e.checkpoints) : Height[x] = Height[b] => x = b

IndexOK ==
    /\ env \in Scenarios /\ IndexType(index) /\ modified \subseteq DOMAIN index
    /\ PassedOK(DOMAIN index, env, FlagsTrusted)
    /\ FlagsOK(index, env.kind, FlagsTrusted)

\* The disk has the index but for the flags that were modified, and the best
\* block, whose path is the chain view.
DiskOK ==
    /\ diskIndex \in [DOMAIN index -> SUBSET Flags]
    /\ \A b \in DOMAIN index : b \notin modified => diskIndex[b] = index[b]
    /\ FlagsOK(diskIndex, env.kind, FlagsTrusted)
    /\ diskBest \in DOMAIN index /\ "valid" \in diskIndex[diskBest] /\ "valid" \in index[diskBest]
    /\ bestChain = Path[diskBest]

MemoryOK ==
    /\ stakeNodes \subseteq DOMAIN index /\ diskBest \in stakeNodes
    /\ blockCache \subseteq DOMAIN index
    /\ TipsAreLeaves

\* A sequence in which nothing occurs twice.
Distinct(s) == \A i, k \in DOMAIN s : s[i] = s[k] => i = k

PoolOK ==
    /\ orphans \in Seq(env.sent) /\ oldestOrphan \in Blocks \cup {None}
    /\ Distinct(orphans)
    /\ \A o \in Range(orphans) : o \notin DOMAIN index /\ env.kind[o] /= "insane"
    /\ checkpointNode \in Range(Checkpoints) \cup {None}
    /\ nextCheckpoint \in Range(Checkpoints) \cup {None}

CountOK == panicked \in BOOLEAN /\ restarts \in Nat /\ faults \in Nat

Holding == {"accept", "connect", "extend", "reorging"}
Connecting == {"connect", "extend", "extended", "accepted"}
Moving == {"reorging", "detached", "attached"}
Reorganizing == {"reorging", "detached", "attached", "reorg", "reorged", "done"}

Some == Blocks \cup {None}
JobType == [at : Positions, block : Some, target : Some, orig : Some, moved : Some,
            detach : Seq(Blocks), attach : Seq(Blocks), queue : Seq(Blocks),
            fast : BOOLEAN, back : BOOLEAN, forced : BOOLEAN]

\* Of a job whatever else happens: it works on blocks of the index, and puts
\* each on its parent.
JobOK(j, D, e) ==
    /\ j.fast => e.checkpoints /= <<>>
    /\ Range(j.queue) \subseteq D
    /\ j.at \in Connecting \cup {"accept"} => ~j.forced
    /\ j.at \in Connecting => j.block \in D /\ j.block /= Genesis
    /\ j.at \in Reorganizing => /\ j.target \in D /\ j.orig \in D
                                /\ ~j.forced => j.block \in D /\ j.block /= Genesis
    /\ j.at \in Moving =>
         /\ Range(j.detach) \subseteq D /\ Range(j.attach) \subseteq D /\ Genesis \notin Range(j.attach)
         /\ Linked(j.attach)
    /\ j.at \in {"detached", "attached"} => j.moved \in D
    /\ j.at = "attached" => j.moved /= Genesis

\* And while it holds the lock.
HoldOK(j, idx, O, e) ==
    /\ j.at = "accept" =>
         /\ j.block \in e.sent /\ e.kind[j.block] /= "insane" /\ j.block \notin DOMAIN idx
         /\ Parent[j.block] \in DOMAIN idx /\ j.block \notin O
    /\ j.at = "connect" => idx[j.block] = {"data"}
    /\ j.at = "extend" => "valid" \in idx[j.block]

JobsOK ==
    /\ job \in [Callers -> JobType] /\ chainLock \in Callers \cup {Nobody}
    /\ \A c \in Callers :
         /\ JobOK(job[c], DOMAIN index, env) /\ HoldOK(job[c], index, Range(orphans), env)
         /\ job[c].at \in Holding => chainLock = c
         /\ c \notin env.callers => job[c].at = "idle"

BaseOK == IndexOK /\ DiskOK /\ MemoryOK /\ PoolOK /\ CountOK /\ JobsOK

(* Then what holds with one caller. *)

\* Where a reorganization goes.
Goal(j) == IF j.back THEN j.orig ELSE j.target

\* Where the job is, seen from the best block.
PlaceOK(j, idx, best) ==
    /\ j.at = "extend" => Parent[j.block] = best
    /\ j.at = "extended" => j.block = best
    /\ j.at = "reorg" => j.orig = best /\ ~j.back
    /\ j.at \notin Reorganizing => ~j.back
    /\ j.at = "attached" => j.moved = best
    /\ j.at \in Reorganizing => "valid" \in idx[j.orig]
    /\ j.at \in Moving => Way(Path[best], Goal(j), j.detach, j.attach)
    /\ j.at = "reorged" => ~j.back /\ j.target = best
    /\ j.at = "done" => Goal(j) = best

\* The cache holds blocks of the main chain, and the one just taken off.
CacheOK(j, best, cache) ==
    \A x \in cache : x \in On(best) \/ (j.at = "detached" /\ x = j.moved)

\* The checkpoint that was passed is on every chain that a job goes to, and
\* below where it turns.
CheckpointOK(j, best, cp) ==
    cp /= None =>
      /\ cp \in On(best)
      /\ j.at = "connect" => cp \in On(j.block)
      /\ j.at \in Reorganizing => cp \in On(j.target) /\ cp \in On(j.orig)
      /\ j.at \in Moving => Height[cp] + 1 <= Len(Path[best]) - Len(j.detach)

\* No block on a valid branch has more work than the best one, or than the one
\* that a reorganization began with, but for the block that is being added.
Clean(b, e) == \A a \in On(b) : e.kind[a] /= "invalid"
Undisturbed(e) == e.restarts = 0 /\ e.faults = 0 /\ ~e.force
WorkOK(j, D, best, e) ==
    Undisturbed(e) =>
      /\ j.at \in {"idle", "accept", "accepted", "extended"} =>
           \A b \in D : Clean(b, e) => WorkSum[b] <= WorkSum[best]
      /\ j.at \in {"connect", "extend"} =>
           \A b \in D : b /= j.block /\ Clean(b, e) => WorkSum[b] <= WorkSum[best]
      /\ j.at \in Reorganizing =>
           /\ \A b \in D : b /= j.target /\ Clean(b, e) => WorkSum[b] <= WorkSum[j.orig]
           /\ WorkSum[j.orig] < WorkSum[j.target]
           /\ j.back => ~Clean(j.target, e)

OneOK(j) ==
    /\ PlaceOK(j, index, diskBest) /\ CacheOK(j, diskBest, blockCache)
    /\ CheckpointOK(j, diskBest, checkpointNode) /\ WorkOK(j, DOMAIN index, diskBest, env)

AloneOK == Alone => (\A c \in env.callers : OneOK(job[c])) /\ PanicsAtGenesisOnly

Inv == BaseOK /\ AloneOK

-----------------------------------------------------------------------------
(* What follows from it in a state. *)

LEMMA EnvFacts ==
    ASSUME env \in Scenarios
    PROVE  /\ env.kind \in [Blocks -> Kinds] /\ env.kind[Genesis] = "ok" /\ env.callers \subseteq Callers
           /\ env.sent \subseteq Blocks \ {Genesis} /\ env.checkpoints \in Seq(Blocks)
           /\ Range(env.checkpoints) \subseteq Blocks
           /\ env.restarts \in Nat /\ env.faults \in Nat /\ env.force \in BOOLEAN
<1>1. /\ env.kind \in [Blocks -> Kinds] /\ env.kind[Genesis] = "ok" /\ env.callers \subseteq Callers
      /\ env.sent \subseteq Blocks \ {Genesis} /\ env.checkpoints \in Seq(Blocks)
      /\ env.restarts \in Nat /\ env.faults \in Nat /\ env.force \in BOOLEAN
  BY BlockChainAssumption DEF Callers
<1>2. PICK s \in Seq(Blocks) : s = env.checkpoints BY <1>1
<1>3. Range(s) \subseteq Blocks BY DEF Range
<1>. QED BY <1>1, <1>2, <1>3

LEMMA AloneFacts ==
    ASSUME env \in Scenarios, Alone, NEW c \in env.callers, NEW d \in env.callers PROVE c = d
<1>1. env.callers \subseteq {"p", "q"} BY EnvFacts DEF Callers
<1>2. IsFiniteSet({"p", "q"})
  <2>1. IsFiniteSet({} \cup {"p"}) BY FS_EmptySet, FS_AddElement
  <2>2. IsFiniteSet(({} \cup {"p"}) \cup {"q"}) BY <2>1, FS_AddElement
  <2>3. ({} \cup {"p"}) \cup {"q"} = {"p", "q"} OBVIOUS
  <2>. QED BY <2>2, <2>3
<1>3. IsFiniteSet(env.callers) BY <1>1, <1>2, FS_Subset
<1>4. Cardinality(env.callers) = 1 BY DEF Alone
<1>5. \E x : env.callers = {x} BY <1>3, <1>4, FS_Singleton
<1>. QED BY <1>5

LEMMA SameTrust ==
    ASSUME env' = env PROVE FlagsTrusted' = FlagsTrusted /\ Checkpoints' = Checkpoints
BY DEF FlagsTrusted, Checkpoints

LEMMA ChainFacts ==
    ASSUME IndexOK, DiskOK
    PROVE  /\ diskBest \in Blocks /\ Tip = diskBest /\ Genesis \in DOMAIN index
           /\ DOMAIN index \subseteq Blocks /\ On(diskBest) \subseteq DOMAIN index
           /\ \A b \in DOMAIN index : b \in Blocks /\ Parent[b] \in DOMAIN index /\ On(b) \subseteq DOMAIN index
           /\ \A b \in Blocks : InChain(bestChain, b) <=> b \in On(diskBest)
<1>1. DOMAIN index \subseteq Blocks BY DEF IndexOK, IndexType
<1>2. diskBest \in Blocks /\ bestChain = Path[diskBest] /\ diskBest \in DOMAIN index BY <1>1 DEF DiskOK
<1>3. Tip = diskBest BY <1>2, TipFacts DEF Tip
<1>4. ASSUME NEW b \in DOMAIN index
      PROVE  b \in Blocks /\ Parent[b] \in DOMAIN index /\ On(b) \subseteq DOMAIN index
  <2>1. IndexType(index) /\ FlagsOK(index, env.kind, FlagsTrusted) BY DEF IndexOK
  <2>2. On(b) \subseteq DOMAIN index BY <2>1, PathClosed
  <2>. QED BY <2>1, <2>2, <1>1 DEF FlagsOK
<1>5. Genesis \in DOMAIN index BY DEF IndexOK, FlagsOK
<1>6. \A b \in Blocks : InChain(bestChain, b) <=> b \in On(diskBest) BY <1>2, InChainFacts
<1>. QED BY <1>1, <1>2, <1>3, <1>4, <1>5, <1>6

\* Flushing writes all of the index.
LEMMA FlushFacts ==
    ASSUME IndexOK, DiskOK, NEW idx, IndexType(idx), DOMAIN index \subseteq DOMAIN idx,
           NEW m, modified \subseteq m, m \subseteq DOMAIN idx,
           \A b \in DOMAIN idx : b \notin m => b \in DOMAIN index /\ index[b] = idx[b]
    PROVE  Flushed(idx, m) = idx
<1>1. diskIndex \in [DOMAIN index -> SUBSET Flags]
      /\ \A b \in DOMAIN index : b \notin modified => diskIndex[b] = index[b]
  BY DEF DiskOK
<1>2. DOMAIN diskIndex \cup m = DOMAIN idx BY <1>1
<1>3. \A b \in DOMAIN idx : (IF b \in m THEN idx[b] ELSE diskIndex[b]) = idx[b] BY <1>1
<1>4. Flushed(idx, m) = [b \in DOMAIN idx |-> IF b \in m THEN idx[b] ELSE diskIndex[b]]
  BY <1>2 DEF Flushed
<1>5. idx = [b \in DOMAIN idx |-> idx[b]] BY DEF IndexType
<1>. QED BY <1>3, <1>4, <1>5

LEMMA ChainSame ==
    ASSUME IndexOK, DiskOK, UNCHANGED <<env, index, modified, bestChain, diskIndex, diskBest>>
    PROVE  IndexOK' /\ DiskOK'
<1>1. FlagsTrusted' = FlagsTrusted BY SameTrust
<1>2. IndexOK' BY <1>1 DEF IndexOK
<1>3. DiskOK' BY <1>1 DEF DiskOK
<1>. QED BY <1>2, <1>3

\* The index with other flags, flushed.
LEMMA ChainFlush ==
    ASSUME IndexOK, DiskOK, env' = env, IndexType(index'), DOMAIN index' = DOMAIN index,
           FlagsOK(index', env.kind, FlagsTrusted), modified' = {}, diskIndex' = index',
           diskBest' \in DOMAIN index, "valid" \in index'[diskBest'], bestChain' = Path[diskBest']
    PROVE  IndexOK' /\ DiskOK'
<1>1. FlagsTrusted' = FlagsTrusted BY SameTrust
<1>2. IndexOK' BY <1>1 DEF IndexOK
<1>3. DiskOK' BY <1>1 DEF DiskOK, IndexType
<1>. QED BY <1>2, <1>3

\* The index with more flags, not flushed.
LEMMA ChainMark ==
    ASSUME IndexOK, DiskOK, env' = env, IndexType(index'), DOMAIN index' = DOMAIN index,
           \A b \in DOMAIN index : index[b] \subseteq index'[b],
           FlagsOK(index', env.kind, FlagsTrusted), modified' = modified \cup Changed(index, index'),
           UNCHANGED <<bestChain, diskIndex, diskBest>>
    PROVE  IndexOK' /\ DiskOK'
<1>1. FlagsTrusted' = FlagsTrusted BY SameTrust
<1>2. Changed(index, index') \subseteq DOMAIN index
      /\ \A b \in DOMAIN index : b \notin Changed(index, index') => index[b] = index'[b]
  BY DEF Changed
<1>3. IndexOK' BY <1>1, <1>2 DEF IndexOK
<1>4. DiskOK'
  <2>1. \A b \in DOMAIN index : b \notin modified' => diskIndex[b] = index'[b] BY <1>2 DEF DiskOK
  <2>2. "valid" \in index'[diskBest] BY DEF DiskOK
  <2>. QED BY <1>1, <2>1, <2>2 DEF DiskOK
<1>. QED BY <1>3, <1>4

-----------------------------------------------------------------------------
(* Stake nodes. *)

\* fetchStakeNode only adds, adds what it was asked for, and stays in a set of
\* blocks that has those below.
LEMMA FetchFacts ==
    ASSUME NEW D, D \subseteq Blocks, NEW loaded, loaded \subseteq D, NEW a \in D, NEW b \in D,
           On(a) \subseteq D, On(b) \subseteq D
    PROVE  /\ fetchStakeNode(loaded, Path[a], b) \subseteq D
           /\ loaded \subseteq fetchStakeNode(loaded, Path[a], b)
           /\ b \in fetchStakeNode(loaded, Path[a], b)
<1>1. a \in Blocks /\ b \in Blocks OBVIOUS
<1>2. PICK d : d = Detached(Path[a], b) OBVIOUS
<1>3. PICK t : t = Attached(Path[a], b) OBVIOUS
<1>4. PICK f : f = FindFork(Path[a], b) OBVIOUS
<1>5. Way(Path[a], b, d, t) /\ Len(Path[a]) - Len(d) = Height[f] + 1 BY <1>1, <1>2, <1>3, <1>4, PlanIsWay
<1>6. Range(d) \subseteq D /\ Range(t) \subseteq D
  <2>1. Range(d) \subseteq On(a) /\ Range(t) \subseteq On(b) BY <1>1, <1>5, WayBlocks
  <2>. QED BY <2>1
<1>7. f \in D /\ f \in On(b) BY <1>1, <1>4, ForkFacts
<1>8. b = f \/ b \in Range(t)
  <2>1. SUFFICES ASSUME b /= f PROVE b \in Range(t) OBVIOUS
  <2>2. f \in Blocks /\ Height[f] <= Height[b] /\ (Height[f] = Height[b] => f = b) BY <1>1, <1>7, OnFacts
  <2>3. Height[f] \in Nat /\ Height[b] \in Nat /\ Len(Path[b]) = Height[b] + 1
        /\ Path[b][Height[b] + 1] = b
    BY <1>1, <2>2, TreeFacts
  <2>4. t \in Seq(Blocks) /\ (Len(Path[a]) - Len(d)) + Len(t) = Len(Path[b])
        /\ \A i \in 1 .. Len(t) : t[i] = Path[b][(Len(Path[a]) - Len(d)) + i]
    BY <1>5 DEF Way
  <2>5. PICK n \in Nat : n = Len(t) BY <2>4
  <2>6. Height[f] + 1 + n = Height[b] + 1 BY <1>5, <2>3, <2>4, <2>5
  <2>7. n >= 1 BY <2>1, <2>2, <2>3, <2>6
  <2>8. n \in 1 .. Len(t) /\ DOMAIN t = 1 .. Len(t) BY <2>4, <2>5, <2>7
  <2>9. t[n] = Path[b][Height[f] + 1 + n] BY <1>5, <2>4, <2>8
  <2>10. t[n] = b BY <2>3, <2>6, <2>9
  <2>. QED BY <2>8, <2>10 DEF Range
<1>9. fetchStakeNode(loaded, Path[a], b) =
        CASE b \in loaded -> loaded
          [] b \notin loaded /\ Parent[b] \in loaded -> loaded \cup {b}
          [] OTHER -> loaded \cup Range(d) \cup {f} \cup Range(t)
  BY <1>2, <1>3, <1>4 DEF fetchStakeNode
<1>10. CASE b \in loaded BY <1>9, <1>10
<1>11. CASE b \notin loaded /\ Parent[b] \in loaded BY <1>9, <1>11
<1>12. CASE b \notin loaded /\ Parent[b] \notin loaded
  <2>1. fetchStakeNode(loaded, Path[a], b) = loaded \cup Range(d) \cup {f} \cup Range(t) BY <1>9, <1>12
  <2>. QED BY <2>1, <1>6, <1>7, <1>8
<1>. QED BY <1>10, <1>11, <1>12

\* Pruning leaves the tip's.
LEMMA PruneFacts ==
    ASSUME IndexOK, DiskOK, NEW loaded
    PROVE  /\ PruneStakeNodes(loaded) \subseteq loaded
           /\ diskBest \in loaded => diskBest \in PruneStakeNodes(loaded)
<1>1. diskBest \in Blocks /\ Tip = diskBest BY ChainFacts
<1>2. Height[diskBest] \in Nat /\ MinStakeNodes \in Nat \ {0} BY <1>1, TreeFacts, BlockChainAssumption
<1>3. ~(Height[diskBest] <= Height[diskBest] - MinStakeNodes) BY <1>2
<1>. QED BY <1>1, <1>3 DEF PruneStakeNodes

\* The leaves of the index depend on its blocks only.
LEMMA LeavesSame ==
    ASSUME TipsAreLeaves, chainTips' = chainTips, DOMAIN index' = DOMAIN index PROVE TipsAreLeaves'
BY DEF TipsAreLeaves

-----------------------------------------------------------------------------
(* Checkpoints. *)

\* findPreviousCheckpoint keeps the node it had, or takes one on the chain.
LEMMA CheckpointFacts ==
    ASSUME IndexOK, DiskOK, PoolOK
    PROVE  /\ FindPreviousCheckpoint[1] \in Range(Checkpoints) \cup {None}
           /\ FindPreviousCheckpoint[2] \in Range(Checkpoints) \cup {None}
           /\ \/ FindPreviousCheckpoint[1] = checkpointNode
              \/ FindPreviousCheckpoint[1] \in On(diskBest)
              \/ FindPreviousCheckpoint[1] = None
<1>1. PICK s \in Seq(Blocks) : s = Checkpoints BY EnvFacts DEF IndexOK, Checkpoints
<1>2. DOMAIN s = 1 .. Len(s) /\ Len(s) \in Nat OBVIOUS
<1>3. \A i \in DOMAIN s : s[i] \in Range(Checkpoints) /\ s[i] \in Blocks BY <1>1 DEF Range
<1>4. \A i \in Nat : After(i) \in Range(Checkpoints) \cup {None}
  <2>1. ASSUME NEW i \in Nat, i < Len(s) PROVE i + 1 \in DOMAIN s BY <2>1, <1>2
  <2>. QED BY <1>1, <1>3, <2>1 DEF After
<1>. DEFINE passed == {i \in DOMAIN Checkpoints :
                         HaveBlock(Checkpoints[i]) /\ InChain(bestChain, Checkpoints[i])}
            at == CHOOSE i \in DOMAIN Checkpoints : Checkpoints[i] = nextCheckpoint
            r == FindPreviousCheckpoint
<1>5. \A b \in Blocks : InChain(bestChain, b) <=> b \in On(diskBest) BY ChainFacts
<1>6. CASE Checkpoints = <<>>
  <2>0. nextCheckpoint = None
    <3>1. Range(<<>>) = {} BY DEF Range
    <3>. QED BY <3>1, <1>6 DEF PoolOK
  <2>1. r = cps BY <1>6, <2>0 DEF FindPreviousCheckpoint
  <2>. QED BY <2>1 DEF PoolOK, cps
<1>7. CASE Checkpoints /= <<>> /\ checkpointNode = None /\ nextCheckpoint = None
  <2>1. r = IF passed = {} THEN <<None, Checkpoints[1]>>
            ELSE <<Checkpoints[Max(passed)], After(Max(passed))>>
    BY <1>7 DEF FindPreviousCheckpoint
  <2>2. CASE passed = {}
    <3>1. r = <<None, Checkpoints[1]>> BY <2>1, <2>2
    <3>2. 1 \in DOMAIN s BY <1>1, <1>2, <1>7
    <3>. QED BY <3>1, <3>2, <1>1, <1>3
  <2>3. CASE passed /= {}
    <3>1. r = <<Checkpoints[Max(passed)], After(Max(passed))>> BY <2>1, <2>3
    <3>2. passed \in SUBSET (1 .. Len(s)) BY <1>1, <1>2
    <3>3. Max(passed) \in passed BY <1>2, <2>3, <3>2, MaxFacts
    <3>4. PICK k \in passed : k = Max(passed) BY <3>3
    <3>5. k \in 1 .. Len(s) /\ k \in DOMAIN s /\ k \in Nat BY <1>1, <1>2
    <3>6. Checkpoints[k] \in On(diskBest) BY <3>4, <3>5, <1>1, <1>3, <1>5
    <3>7. r[1] = Checkpoints[k] /\ r[2] = After(k) BY <3>1, <3>4
    <3>. QED BY <3>5, <3>6, <3>7, <1>1, <1>3, <1>4
  <2>. QED BY <2>2, <2>3
<1>8. CASE /\ Checkpoints /= <<>> /\ ~(checkpointNode = None /\ nextCheckpoint = None)
           /\ nextCheckpoint /= None /\ Height[Tip] >= Height[nextCheckpoint]
  <2>1. r = <<nextCheckpoint, After(at)>> BY <1>8 DEF FindPreviousCheckpoint
  <2>2. PICK i \in DOMAIN Checkpoints : Checkpoints[i] = nextCheckpoint BY <1>8 DEF PoolOK, Range
  <2>3. at \in DOMAIN Checkpoints BY <2>2
  <2>4. at \in Nat BY <2>3, <1>1, <1>2
  <2>5. nextCheckpoint \in Range(Checkpoints) /\ nextCheckpoint \in Blocks BY <2>2, <1>1, <1>3
  <2>6. diskBest \in Blocks /\ Tip = diskBest /\ On(diskBest) \subseteq DOMAIN index BY ChainFacts
  <2>7. Height[nextCheckpoint] \in Nat /\ Height[diskBest] \in Nat BY <2>5, <2>6, TreeFacts
  <2>8. Height[nextCheckpoint] + 1 \in 1 .. Height[diskBest] + 1 BY <1>8, <2>6, <2>7
  <2>9. PICK x \in Blocks : /\ x = Path[diskBest][Height[nextCheckpoint] + 1] /\ x \in On(diskBest)
                            /\ Height[x] = (Height[nextCheckpoint] + 1) - 1
    BY <2>6, <2>8, OnPath
  <2>10. Height[x] = Height[nextCheckpoint] BY <2>7, <2>9
  <2>11. nextCheckpoint = x
    <3>1. x \in DOMAIN index BY <2>6, <2>9
    <3>. QED BY <3>1, <2>5, <2>10 DEF IndexOK, PassedOK, Checkpoints
  <2>12. r[1] = nextCheckpoint /\ r[2] = After(at) BY <2>1
  <2>. QED BY <2>4, <2>5, <2>9, <2>11, <2>12, <1>4
<1>9. CASE /\ Checkpoints /= <<>> /\ ~(checkpointNode = None /\ nextCheckpoint = None)
           /\ ~(nextCheckpoint /= None /\ Height[Tip] >= Height[nextCheckpoint])
  <2>1. r = cps BY <1>9 DEF FindPreviousCheckpoint
  <2>. QED BY <2>1 DEF PoolOK, cps
<1>. QED BY <1>6, <1>7, <1>8, <1>9

-----------------------------------------------------------------------------
(* The orphan pool. *)

LEMMA MinFacts ==
    ASSUME NEW n \in Nat, NEW S \in SUBSET (1 .. n), S /= {}
    PROVE  Min(S) \in S
<1>. DEFINE Least(m) == m \in S /\ \A y \in S : m <= y
            T == {k \in Nat : (\E y \in S : y <= k) => \E m \in S : Least(m)}
<1>1. 0 \in T
  <2>1. \A y \in S : ~(y <= 0) OBVIOUS
  <2>. QED BY <2>1
<1>2. ASSUME NEW k \in Nat, k \in T PROVE k + 1 \in T
  <2>1. SUFFICES ASSUME \E y \in S : y <= k + 1 PROVE \E m \in S : Least(m) OBVIOUS
  <2>2. CASE \E y \in S : y <= k BY <2>2, <1>2
  <2>3. CASE \A y \in S : ~(y <= k)
    <3>1. PICK y \in S : y <= k + 1 BY <2>1
    <3>2. \A z \in S : y <= z BY <3>1, <2>3
    <3>. QED BY <3>2
  <2>. QED BY <2>2, <2>3
<1>. HIDE DEF T
<1>3. n \in T BY <1>1, <1>2, Induction
<1>4. \E m \in S : \A y \in S : m <= y
  <2>1. PICK y \in S : TRUE OBVIOUS
  <2>2. y \in 1 .. n OBVIOUS
  <2>3. \E z \in S : z <= n BY <2>2
  <2>. QED BY <1>3, <2>3 DEF T
<1>. QED BY <1>4 DEF Min

LEMMA RemoveFacts ==
    ASSUME NEW S, NEW s \in Seq(S), NEW at \in 1 .. Len(s)
    PROVE  /\ RemoveAt(s, at) \in Seq(S) /\ Len(RemoveAt(s, at)) = Len(s) - 1
           /\ \A i \in 1 .. Len(s) - 1 : RemoveAt(s, at)[i] = IF i < at THEN s[i] ELSE s[i + 1]
<1>1. PICK l : l = SubSeq(s, 1, at - 1) OBVIOUS
<1>2. PICK r : r = SubSeq(s, at + 1, Len(s)) OBVIOUS
<1>3. l \in Seq(S) /\ Len(l) = at - 1 /\ \A i \in 1 .. at - 1 : l[i] = s[i] BY <1>1
<1>4. r \in Seq(S) /\ Len(r) = Len(s) - at /\ \A i \in 1 .. Len(s) - at : r[i] = s[at + i] BY <1>2
<1>5. RemoveAt(s, at) = l \o r BY <1>1, <1>2 DEF RemoveAt
<1>6. l \o r \in Seq(S) /\ Len(l \o r) = Len(s) - 1 BY <1>3, <1>4
<1>7. ASSUME NEW i \in 1 .. Len(s) - 1 PROVE (l \o r)[i] = IF i < at THEN s[i] ELSE s[i + 1]
  <2>1. CASE i < at
    <3>1. i \in 1 .. Len(l) /\ i \in 1 .. at - 1 BY <2>1, <1>3
    <3>2. (l \o r)[i] = l[i] BY <3>1, <1>3, <1>4
    <3>. QED BY <3>1, <3>2, <2>1, <1>3
  <2>2. CASE ~(i < at)
    <3>1. i - Len(l) \in 1 .. Len(r) /\ i - Len(l) = i + 1 - at /\ at + (i + 1 - at) = i + 1
      BY <2>2, <1>3, <1>4
    <3>2. (l \o r)[i] = r[i - Len(l)] BY <3>1, <2>2, <1>3, <1>4
    <3>3. r[i + 1 - at] = s[at + (i + 1 - at)] BY <3>1, <1>4
    <3>. QED BY <3>1, <3>2, <3>3, <2>2
  <2>. QED BY <2>1, <2>2
<1>. QED BY <1>5, <1>6, <1>7

LEMMA WithoutFacts ==
    ASSUME NEW S, NEW s \in Seq(S), Distinct(s), NEW o
    PROVE  /\ Without(s, o) \in Seq(S) /\ Distinct(Without(s, o))
           /\ Range(Without(s, o)) \subseteq Range(s) \ {o}
<1>1. CASE o \notin Range(s)
  <2>1. Without(s, o) = s BY <1>1 DEF Without
  <2>. QED BY <1>1, <2>1
<1>2. CASE o \in Range(s)
  <2>1. PICK at : at = CHOOSE i \in DOMAIN s : s[i] = o OBVIOUS
  <2>2. at \in DOMAIN s /\ s[at] = o BY <1>2, <2>1 DEF Range
  <2>3. at \in 1 .. Len(s) BY <2>2
  <2>4. PICK r : r = RemoveAt(s, at) OBVIOUS
  <2>5. Without(s, o) = r BY <1>2, <2>1, <2>4 DEF Without
  <2>6. /\ r \in Seq(S) /\ Len(r) = Len(s) - 1
        /\ \A i \in 1 .. Len(s) - 1 : r[i] = IF i < at THEN s[i] ELSE s[i + 1]
    BY <2>3, <2>4, RemoveFacts
  <2>7. DOMAIN r = 1 .. Len(s) - 1 /\ DOMAIN s = 1 .. Len(s) BY <2>6
  <2>8. PICK f : f = [i \in 1 .. Len(s) - 1 |-> IF i < at THEN i ELSE i + 1] OBVIOUS
  <2>9. \A i \in 1 .. Len(s) - 1 : r[i] = s[f[i]] /\ f[i] \in 1 .. Len(s) /\ f[i] /= at
    BY <2>3, <2>6, <2>8
  <2>10. \A i, k \in 1 .. Len(s) - 1 : f[i] = f[k] => i = k BY <2>3, <2>8
  <2>11. Distinct(r) BY <2>7, <2>9, <2>10 DEF Distinct
  <2>12. \A i \in 1 .. Len(s) - 1 : r[i] /= o /\ r[i] \in Range(s)
    BY <2>2, <2>7, <2>9 DEF Distinct, Range
  <2>13. Range(r) \subseteq Range(s) \ {o} BY <2>7, <2>12 DEF Range
  <2>. QED BY <2>5, <2>6, <2>11, <2>13
<1>. QED BY <1>1, <1>2

LEMMA AppendFacts ==
    ASSUME NEW S, NEW s \in Seq(S), Distinct(s), NEW o \in S, o \notin Range(s)
    PROVE  /\ Append(s, o) \in Seq(S) /\ Distinct(Append(s, o))
           /\ Range(Append(s, o)) = Range(s) \cup {o}
<1>1. PICK r : r = Append(s, o) OBVIOUS
<1>2. /\ r \in Seq(S) /\ Len(r) = Len(s) + 1 /\ r[Len(s) + 1] = o
      /\ \A i \in 1 .. Len(s) : r[i] = s[i]
  BY <1>1
<1>3. DOMAIN r = 1 .. Len(s) + 1 /\ DOMAIN s = 1 .. Len(s) /\ Len(s) \in Nat BY <1>2
<1>4. \A i \in 1 .. Len(s) : s[i] /= o BY <1>3 DEF Range
<1>5. \A i \in 1 .. Len(s) + 1 : i \in 1 .. Len(s) \/ i = Len(s) + 1 BY <1>3
<1>6. Distinct(r) BY <1>2, <1>3, <1>4, <1>5 DEF Distinct
<1>7. Range(r) = Range(s) \cup {o} BY <1>2, <1>3, <1>5 DEF Range
<1>. QED BY <1>1, <1>2, <1>6, <1>7

LEMMA DropFacts ==
    ASSUME NEW S, NEW s \in Seq(S), Distinct(s), NEW n \in 0 .. Len(s)
    PROVE  /\ SubSeq(s, n + 1, Len(s)) \in Seq(S) /\ Distinct(SubSeq(s, n + 1, Len(s)))
           /\ Range(SubSeq(s, n + 1, Len(s))) \subseteq Range(s)
<1>1. PICK r : r = SubSeq(s, n + 1, Len(s)) OBVIOUS
<1>2. /\ r \in Seq(S) /\ Len(r) = Len(s) - n
      /\ \A i \in 1 .. Len(s) - n : r[i] = s[n + i]
  BY <1>1
<1>3. DOMAIN r = 1 .. Len(s) - n /\ DOMAIN s = 1 .. Len(s) BY <1>2
<1>4. \A i \in 1 .. Len(s) - n : n + i \in 1 .. Len(s) OBVIOUS
<1>5. Distinct(r)
  <2>1. SUFFICES ASSUME NEW i \in 1 .. Len(s) - n, NEW k \in 1 .. Len(s) - n, r[i] = r[k] PROVE i = k
    BY <1>3 DEF Distinct
  <2>2. s[n + i] = s[n + k] BY <2>1, <1>2
  <2>3. n + i = n + k BY <2>2, <1>3, <1>4 DEF Distinct
  <2>. QED BY <2>3
<1>6. Range(r) \subseteq Range(s) BY <1>2, <1>3, <1>4 DEF Range
<1>. QED BY <1>1, <1>2, <1>5, <1>6

\* addOrphanBlock keeps the pool one of distinct blocks, with at most one more.
LEMMA OrphanFacts ==
    ASSUME NEW S, orphans \in Seq(S), Distinct(orphans), NEW b \in S, b \notin Range(orphans),
           NEW n \in 0 .. Len(orphans), AddOrphanBlock(b, n), oldestOrphan \in Some, S \subseteq Blocks
    PROVE  /\ orphans' \in Seq(S) /\ Distinct(orphans') /\ Range(orphans') \subseteq Range(orphans) \cup {b}
           /\ oldestOrphan' \in Some
<1>1. PICK s \in Seq(S) : s = orphans OBVIOUS
<1>2. PICK left : left = SubSeq(s, n + 1, Len(s)) OBVIOUS
<1>3. left \in Seq(S) /\ Distinct(left) /\ Range(left) \subseteq Range(orphans) BY <1>1, <1>2, DropFacts
<1>4. PICK o : o = IF oldestOrphan = None /\ left /= <<>> THEN Head(left) ELSE oldestOrphan OBVIOUS
<1>5. o \in Some BY <1>3, <1>4 DEF Some
<1>6. IF Len(left) + 1 > MaxOrphans
        THEN orphans' = Append(Without(left, o), b) /\ oldestOrphan' = None
        ELSE orphans' = Append(left, b) /\ oldestOrphan' = o
  BY <1>1, <1>2, <1>4 DEF AddOrphanBlock
<1>7. CASE Len(left) + 1 > MaxOrphans
  <2>1. PICK w : w = Without(left, o) OBVIOUS
  <2>2. w \in Seq(S) /\ Distinct(w) /\ Range(w) \subseteq Range(left) \ {o} BY <2>1, <1>3, WithoutFacts
  <2>3. b \notin Range(w) BY <2>2, <1>3
  <2>4. orphans' = Append(w, b) /\ oldestOrphan' = None BY <1>6, <1>7, <2>1
  <2>5. /\ Append(w, b) \in Seq(S) /\ Distinct(Append(w, b)) /\ Range(Append(w, b)) = Range(w) \cup {b}
    BY <2>2, <2>3, AppendFacts
  <2>6. Distinct(orphans') BY <2>4, <2>5 DEF Distinct
  <2>. QED BY <2>2, <2>4, <2>5, <2>6, <1>3 DEF Some
<1>8. CASE ~(Len(left) + 1 > MaxOrphans)
  <2>3. b \notin Range(left) BY <1>3
  <2>4. orphans' = Append(left, b) /\ oldestOrphan' = o BY <1>6, <1>8
  <2>5. Append(left, b) \in Seq(S) /\ Distinct(Append(left, b)) /\ Range(Append(left, b)) = Range(left) \cup {b}
    BY <1>3, <2>3, AppendFacts
  <2>6. Distinct(orphans') BY <2>4, <2>5 DEF Distinct
  <2>. QED BY <2>4, <2>5, <2>6, <1>3, <1>5
<1>. QED BY <1>7, <1>8

-----------------------------------------------------------------------------
(* The jobs of the callers. *)

LEMMA IdleFacts ==
    /\ Idle \in JobType /\ Idle.at = "idle" /\ ~Idle.back /\ ~Idle.fast /\ Idle.queue = <<>>
    /\ \A D, e : JobOK(Idle, D, e)
    /\ \A idx, O, e : HoldOK(Idle, idx, O, e)
<1>1. <<>> \in Seq(Blocks) OBVIOUS
<1>2. Idle \in JobType BY <1>1 DEF Idle, JobType, Some, Positions
<1>3. /\ Idle.at = "idle" /\ ~Idle.back /\ ~Idle.fast /\ Idle.queue = <<>> BY DEF Idle
<1>4. Range(<<>>) = {} BY DEF Range
<1>5. \A D, e : JobOK(Idle, D, e) BY <1>3, <1>4 DEF JobOK, Connecting, Reorganizing, Moving
<1>6. \A idx, O, e : HoldOK(Idle, idx, O, e) BY <1>3 DEF HoldOK
<1>. QED BY <1>2, <1>3, <1>5, <1>6

LEMMA JobMonotone ==
    ASSUME NEW j, NEW D, NEW E, D \subseteq E, NEW e, JobOK(j, D, e) PROVE JobOK(j, E, e)
BY DEF JobOK

\* Of a caller that may take a step.
LEMMA CallFacts ==
    ASSUME BaseOK, NEW c \in Callers, Runs(c)
    PROVE  /\ c \in env.callers /\ ~panicked /\ chainLock \in {c, Nobody}
           /\ job[c] \in JobType /\ JobOK(job[c], DOMAIN index, env)
           /\ HoldOK(job[c], index, Range(orphans), env)
           /\ \A d \in Callers : d /= c => job[d].at \notin Holding
<1>1. c \in env.callers /\ ~panicked /\ chainLock \in {c, Nobody} BY DEF Runs
<1>2. job[c] \in JobType /\ JobOK(job[c], DOMAIN index, env) /\ HoldOK(job[c], index, Range(orphans), env)
  BY DEF BaseOK, JobsOK
<1>3. ASSUME NEW d \in Callers, d /= c PROVE job[d].at \notin Holding
  <2>1. d /= Nobody BY DEF Nobody, Callers
  <2>. QED BY <1>1, <1>3, <2>1 DEF BaseOK, JobsOK
<1>. QED BY <1>1, <1>2, <1>3

\* A caller's step leaves the other's job in order.
LEMMA JobsStep ==
    ASSUME BaseOK, NEW c \in Callers, Runs(c), env' = env, DOMAIN index \subseteq DOMAIN index',
           NEW j \in JobType, job' = [job EXCEPT ![c] = j], JobOK(j, DOMAIN index', env),
           HoldOK(j, index', Range(orphans'), env),
           j.at \in Holding => chainLock' = c, chainLock' \in {c, Nobody}
    PROVE  JobsOK'
<1>1. job \in [Callers -> JobType] BY DEF BaseOK, JobsOK
<1>2. job' \in [Callers -> JobType] /\ job'[c] = j /\ \A d \in Callers : d /= c => job'[d] = job[d] BY <1>1
<1>3. c \in env.callers BY DEF Runs
<1>4. ASSUME NEW d \in Callers, d /= c
      PROVE  /\ JobOK(job[d], DOMAIN index', env) /\ HoldOK(job[d], index', Range(orphans'), env)
             /\ job[d].at \notin Holding /\ (d \notin env.callers => job[d].at = "idle")
  <2>1. job[d].at \notin Holding BY <1>4, CallFacts
  <2>2. JobOK(job[d], DOMAIN index, env) /\ (d \notin env.callers => job[d].at = "idle") BY DEF BaseOK, JobsOK
  <2>3. JobOK(job[d], DOMAIN index', env) BY <2>2, JobMonotone
  <2>4. HoldOK(job[d], index', Range(orphans'), env) BY <2>1 DEF HoldOK, Holding
  <2>. QED BY <2>1, <2>2, <2>3, <2>4
<1>5. ASSUME NEW d \in Callers
      PROVE  /\ JobOK(job'[d], DOMAIN index', env) /\ HoldOK(job'[d], index', Range(orphans'), env)
             /\ job'[d].at \in Holding => chainLock' = d
             /\ d \notin env.callers => job'[d].at = "idle"
  <2>1. CASE d = c BY <2>1, <1>2, <1>3
  <2>2. CASE d /= c BY <2>2, <1>2, <1>4
  <2>. QED BY <2>1, <2>2
<1>. QED BY <1>2, <1>5 DEF JobsOK

\* Nor does one that panics, when no flag changes on the way to the tip.
LEMMA JobsPanic ==
    ASSUME BaseOK, NEW c \in Callers, Runs(c), UNCHANGED <<env, job, chainLock, orphans>>,
           DOMAIN index' = DOMAIN index,
           index' = index \/ job[c].at \notin {"accept", "connect", "extend"}
    PROVE  JobsOK'
<1>1. CASE index' = index BY <1>1 DEF BaseOK, JobsOK
<1>2. CASE job[c].at \notin {"accept", "connect", "extend"}
  <2>1. ASSUME NEW d \in Callers
        PROVE  HoldOK(job[d], index', Range(orphans), env)
    <3>1. job[d].at \notin {"accept", "connect", "extend"} BY <1>2, CallFacts DEF Holding
    <3>. QED BY <3>1 DEF HoldOK
  <2>2. job \in [Callers -> JobType] /\ chainLock \in Callers \cup {Nobody}
        /\ \A d \in Callers : /\ JobOK(job[d], DOMAIN index, env)
                              /\ job[d].at \in Holding => chainLock = d
                              /\ d \notin env.callers => job[d].at = "idle"
    BY DEF BaseOK, JobsOK
  <2>. QED BY <2>1, <2>2 DEF JobsOK
<1>. QED BY <1>1, <1>2

LEMMA PoolSame ==
    ASSUME PoolOK, UNCHANGED <<env, orphans, oldestOrphan, checkpointNode, nextCheckpoint>>,
           DOMAIN index' = DOMAIN index
    PROVE  PoolOK'
<1>1. Checkpoints' = Checkpoints BY DEF Checkpoints
<1>2. Distinct(orphans)' BY DEF PoolOK, Distinct
<1>. QED BY <1>1, <1>2 DEF PoolOK

LEMMA MemorySame ==
    ASSUME MemoryOK, UNCHANGED <<chainTips, stakeNodes, blockCache, diskBest>>,
           DOMAIN index' = DOMAIN index
    PROVE  MemoryOK'
<1>1. TipsAreLeaves' BY LeavesSame DEF MemoryOK
<1>. QED BY <1>1 DEF MemoryOK

LEMMA BaseStutter == ASSUME BaseOK, UNCHANGED vars PROVE BaseOK'
<1>1. UNCHANGED <<env, chainLock, job, index, modified, chainTips, bestChain, orphans, oldestOrphan,
                  checkpointNode, nextCheckpoint, stakeNodes, blockCache, diskIndex, diskBest,
                  panicked, restarts, faults>>
  BY DEF vars, pool, cps, disk, count
<1>2. IndexOK' /\ DiskOK' BY <1>1, ChainSame DEF BaseOK
<1>3. PoolOK' BY <1>1, PoolSame DEF BaseOK
<1>4. MemoryOK' BY <1>1, MemorySame DEF BaseOK
<1>5. JobsOK' BY <1>1 DEF BaseOK, JobsOK
<1>6. CountOK' BY <1>1 DEF BaseOK, CountOK
<1>. QED BY <1>2, <1>3, <1>4, <1>5, <1>6 DEF BaseOK

\* The process panics with nothing else changed.
LEMMA BasePanic == ASSUME BaseOK, NEW c \in Callers, Runs(c), Panics PROVE BaseOK'
<1>1. /\ panicked' = TRUE
      /\ UNCHANGED <<env, chainLock, job, index, modified, chainTips, bestChain, orphans, oldestOrphan,
                     checkpointNode, nextCheckpoint, stakeNodes, blockCache, diskIndex, diskBest,
                     restarts, faults>>
  BY DEF Panics, pool, cps, disk, count
<1>2. IndexOK' /\ DiskOK' BY <1>1, ChainSame DEF BaseOK
<1>3. PoolOK' BY <1>1, PoolSame DEF BaseOK
<1>4. MemoryOK' BY <1>1, MemorySame DEF BaseOK
<1>5. JobsOK' BY <1>1, JobsPanic
<1>6. CountOK' BY <1>1 DEF BaseOK, CountOK
<1>. QED BY <1>2, <1>3, <1>4, <1>5, <1>6 DEF BaseOK

\* A step that changes the caller's job and nothing else.
LEMMA BaseJob ==
    ASSUME BaseOK, NEW c \in Callers, Runs(c), NEW j \in JobType, job' = [job EXCEPT ![c] = j],
           JobOK(j, DOMAIN index, env), HoldOK(j, index, Range(orphans), env),
           j.at \in Holding => chainLock' = c, chainLock' \in {c, Nobody}, CountOK',
           UNCHANGED <<env, index, modified, chainTips, bestChain, orphans, oldestOrphan, checkpointNode,
                       nextCheckpoint, stakeNodes, blockCache, diskIndex, diskBest>>
    PROVE  BaseOK'
<1>1. IndexOK' /\ DiskOK' BY ChainSame DEF BaseOK
<1>2. PoolOK' BY PoolSame DEF BaseOK
<1>3. MemoryOK' BY MemorySame DEF BaseOK
<1>4. JobsOK'
  <2>1. JobOK(j, DOMAIN index', env) /\ HoldOK(j, index', Range(orphans'), env) OBVIOUS
  <2>. QED BY <2>1, JobsStep
<1>. QED BY <1>1, <1>2, <1>3, <1>4 DEF BaseOK

\* A job goes to another position.
LEMMA AtFacts ==
    ASSUME NEW j \in JobType, NEW a \in Positions, NEW k, k = [j EXCEPT !.at = a]
    PROVE  /\ k \in JobType /\ k.at = a /\ k.block = j.block /\ k.target = j.target /\ k.orig = j.orig
           /\ k.moved = j.moved /\ k.detach = j.detach /\ k.attach = j.attach /\ k.queue = j.queue
           /\ k.fast = j.fast /\ k.back = j.back /\ k.forced = j.forced
BY DEF JobType

LEMMA BaseArrived == ASSUME BaseOK, NEW c \in Callers, Arrived(c) PROVE BaseOK'
<1>1. Runs(c) /\ job[c].at = "reorging" BY DEF Arrived, At
<1>2. PICK j : j = job[c] OBVIOUS
<1>3. PICK a : a = IF j.back THEN "done" ELSE "reorged" OBVIOUS
<1>4. j \in JobType /\ JobOK(j, DOMAIN index, env) /\ j.at = "reorging" BY <1>1, <1>2, CallFacts
<1>5. a \in Positions /\ a \in {"done", "reorged"} BY <1>3 DEF Positions
<1>6. PICK k : k = [j EXCEPT !.at = a] OBVIOUS
<1>7. /\ k \in JobType /\ k.at = a /\ k.block = j.block /\ k.target = j.target /\ k.orig = j.orig
      /\ k.queue = j.queue /\ k.fast = j.fast /\ k.forced = j.forced
  BY <1>4, <1>5, <1>6, AtFacts
<1>8. JobOK(k, DOMAIN index, env) BY <1>4, <1>5, <1>7 DEF JobOK, Connecting, Reorganizing, Moving
<1>9. HoldOK(k, index, Range(orphans), env) BY <1>5, <1>7 DEF HoldOK
<1>10. k.at \notin Holding BY <1>5, <1>7 DEF Holding
<1>11. job' = [job EXCEPT ![c] = k] /\ chainLock' = Nobody BY <1>2, <1>3, <1>6 DEF Arrived, Notifies
<1>12. /\ UNCHANGED <<env, index, modified, chainTips, bestChain, orphans, oldestOrphan, checkpointNode,
                      nextCheckpoint, stakeNodes, blockCache, diskIndex, diskBest>>
       /\ CountOK'
  BY DEF Arrived, pool, cps, disk, count, BaseOK, CountOK
<1>. QED BY <1>1, <1>7, <1>8, <1>9, <1>10, <1>11, <1>12, BaseJob

LEMMA BaseReorged == ASSUME BaseOK, NEW c \in Callers, Reorged(c) PROVE BaseOK'
<1>1. Runs(c) /\ job[c].at = "reorged" BY DEF Reorged, At
<1>2. PICK j : j = job[c] OBVIOUS
<1>4. j \in JobType /\ JobOK(j, DOMAIN index, env) /\ j.at = "reorged" BY <1>1, <1>2, CallFacts
<1>5. "done" \in Positions BY DEF Positions
<1>6. PICK k : k = [j EXCEPT !.at = "done"] OBVIOUS
<1>7. /\ k \in JobType /\ k.at = "done" /\ k.block = j.block /\ k.target = j.target /\ k.orig = j.orig
      /\ k.queue = j.queue /\ k.fast = j.fast /\ k.forced = j.forced
  BY <1>4, <1>5, <1>6, AtFacts
<1>8. JobOK(k, DOMAIN index, env) BY <1>4, <1>7 DEF JobOK, Connecting, Reorganizing, Moving
<1>9. HoldOK(k, index, Range(orphans), env) BY <1>7 DEF HoldOK
<1>10. k.at \notin Holding BY <1>7 DEF Holding
<1>11. job' = [job EXCEPT ![c] = k] /\ chainLock' = Nobody BY <1>2, <1>6 DEF Reorged, Notifies
<1>12. /\ UNCHANGED <<env, index, modified, chainTips, bestChain, orphans, oldestOrphan, checkpointNode,
                      nextCheckpoint, stakeNodes, blockCache, diskIndex, diskBest>>
       /\ CountOK'
  BY DEF Reorged, pool, cps, disk, count, BaseOK, CountOK
<1>. QED BY <1>1, <1>7, <1>8, <1>9, <1>10, <1>11, <1>12, BaseJob

LEMMA BaseForce == ASSUME BaseOK, NEW c \in Callers, ForceHeadReorganization(c) PROVE BaseOK'
<1>1. Runs(c) BY DEF ForceHeadReorganization, At
<1>2. PICK b \in DOMAIN index \ {Tip, Genesis} :
        Notifies(c, [Idle EXCEPT !.at = "reorg", !.target = b, !.orig = Tip, !.forced = TRUE])
  BY DEF ForceHeadReorganization
<1>3. Tip = diskBest /\ b \in Blocks /\ diskBest \in Blocks /\ diskBest \in DOMAIN index
  BY ChainFacts DEF BaseOK, DiskOK
<1>4. PICK k : k = [Idle EXCEPT !.at = "reorg", !.target = b, !.orig = Tip, !.forced = TRUE] OBVIOUS
<1>5. /\ k.at = "reorg" /\ k.target = b /\ k.orig = diskBest /\ k.forced /\ k.queue = <<>> /\ ~k.fast
      /\ ~k.back
  BY <1>3, <1>4 DEF Idle
<1>6. k \in JobType
  <2>1. <<>> \in Seq(Blocks) OBVIOUS
  <2>. QED BY <2>1, <1>3, <1>4 DEF Idle, JobType, Some, Positions
<1>7. JobOK(k, DOMAIN index, env)
  <2>1. Range(<<>>) = {} BY DEF Range
  <2>. QED BY <2>1, <1>3, <1>5 DEF JobOK, Connecting, Reorganizing, Moving
<1>9. HoldOK(k, index, Range(orphans), env) BY <1>5 DEF HoldOK
<1>10. k.at \notin Holding BY <1>5 DEF Holding
<1>11. job' = [job EXCEPT ![c] = k] /\ chainLock' = Nobody BY <1>2, <1>4 DEF Notifies
<1>12. /\ UNCHANGED <<env, index, modified, chainTips, bestChain, orphans, oldestOrphan, checkpointNode,
                      nextCheckpoint, stakeNodes, blockCache, diskIndex, diskBest>>
       /\ CountOK'
  BY DEF ForceHeadReorganization, pool, cps, disk, count, BaseOK, CountOK
<1>. QED BY <1>1, <1>6, <1>7, <1>9, <1>10, <1>11, <1>12, BaseJob

LEMMA BaseProcessBlock == ASSUME BaseOK, NEW c \in Callers, ProcessBlock(c) PROVE BaseOK'
<1>1. Runs(c) BY DEF ProcessBlock, At
<1>2. /\ UNCHANGED <<env, index, modified, chainTips, bestChain, stakeNodes, blockCache, diskIndex, diskBest>>
      /\ CountOK'
  BY DEF ProcessBlock, disk, count, BaseOK, CountOK
<1>3. IndexOK /\ DiskOK /\ PoolOK /\ MemoryOK BY DEF BaseOK
<1>4. IndexOK' /\ DiskOK' BY <1>2, <1>3, ChainSame
<1>5. MemoryOK' BY <1>2, <1>3, MemorySame
<1>6. Checkpoints' = Checkpoints BY <1>2 DEF Checkpoints
<1>7. PICK b \in env.sent, fast \in BOOLEAN :
         /\ b \notin DOMAIN index /\ b \notin Range(orphans) /\ env.kind[b] /= "insane"
         /\ fast => env.kind[b] = "ok" /\ Height[b] <= LatestCheckpointHeight
         /\ FoundCheckpoint
         /\ \/ Returns(c) /\ UNCHANGED pool
            \/ (\E n \in 0 .. Len(orphans) : AddOrphanBlock(b, n)) /\ Returns(c)
            \/ /\ Parent[b] \in DOMAIN index
               /\ Locked(c, [Idle EXCEPT !.at = "accept", !.block = b, !.fast = fast])
               /\ UNCHANGED pool
  BY DEF ProcessBlock, HaveBlock
<1>8. b \in Blocks \ {Genesis} /\ env.sent \subseteq Blocks BY <1>3, EnvFacts DEF IndexOK
<1>9. checkpointNode' \in Range(Checkpoints) \cup {None} /\ nextCheckpoint' \in Range(Checkpoints) \cup {None}
  BY <1>3, <1>7, CheckpointFacts DEF FoundCheckpoint
<1>10. orphans \in Seq(env.sent) /\ Distinct(orphans) /\ oldestOrphan \in Some BY <1>3 DEF PoolOK, Some
<1>11. /\ orphans' \in Seq(env.sent) /\ Distinct(orphans')
       /\ Range(orphans') \subseteq Range(orphans) \cup {b} /\ oldestOrphan' \in Some
  <2>1. CASE UNCHANGED pool
    <3>1. orphans' = orphans /\ oldestOrphan' = oldestOrphan BY <2>1 DEF pool
    <3>. QED BY <3>1, <1>10
  <2>2. CASE \E n \in 0 .. Len(orphans) : AddOrphanBlock(b, n)
    BY <2>2, <1>7, <1>8, <1>10, OrphanFacts
  <2>. QED BY <2>1, <2>2, <1>7
<1>12. PoolOK'
  <2>1. \A o \in Range(orphans') : o \notin DOMAIN index /\ env.kind[o] /= "insane"
    BY <1>3, <1>7, <1>11 DEF PoolOK
  <2>2. Distinct(orphans)' BY <1>11 DEF Distinct
  <2>. QED BY <1>2, <1>6, <1>9, <1>11, <2>1, <2>2 DEF PoolOK, Some
<1>13. JobsOK'
  <2>1. CASE Returns(c)
    <3>1. job' = [job EXCEPT ![c] = Idle] /\ chainLock' = Nobody BY <2>1 DEF Returns, Notifies
    <3>2. PICK k : k = Idle OBVIOUS
    <3>3. k \in JobType /\ JobOK(k, DOMAIN index', env) /\ HoldOK(k, index', Range(orphans'), env)
          /\ k.at \notin Holding
      BY <3>2, IdleFacts DEF Holding
    <3>. QED BY <1>1, <1>2, <3>1, <3>2, <3>3, JobsStep
  <2>2. CASE /\ Parent[b] \in DOMAIN index /\ UNCHANGED pool
             /\ Locked(c, [Idle EXCEPT !.at = "accept", !.block = b, !.fast = fast])
    <3>1. PICK k : k = [Idle EXCEPT !.at = "accept", !.block = b, !.fast = fast] OBVIOUS
    <3>2. k.at = "accept" /\ k.block = b /\ k.fast = fast /\ k.queue = <<>> /\ ~k.forced BY <3>1 DEF Idle
    <3>3. k \in JobType
      <4>1. <<>> \in Seq(Blocks) OBVIOUS
      <4>. QED BY <4>1, <1>8, <3>1 DEF Idle, JobType, Some, Positions
    <3>4. fast => env.checkpoints /= <<>>
      <4>1. SUFFICES ASSUME fast, env.checkpoints = <<>> PROVE FALSE OBVIOUS
      <4>2. LatestCheckpointHeight = 0 BY <4>1 DEF LatestCheckpointHeight, Checkpoints
      <4>3. Height[b] <= 0 BY <4>1, <4>2, <1>7
      <4>4. Height[b] = Height[Parent[b]] + 1 /\ Height[Parent[b]] \in Nat BY <1>8, TreeFacts
      <4>. QED BY <4>3, <4>4
    <3>5. JobOK(k, DOMAIN index', env)
      <4>1. Range(<<>>) = {} BY DEF Range
      <4>. QED BY <4>1, <3>2, <3>4 DEF JobOK, Connecting, Reorganizing, Moving
    <3>6. HoldOK(k, index', Range(orphans'), env) BY <3>2, <2>2, <1>2, <1>7 DEF HoldOK, pool
    <3>7. job' = [job EXCEPT ![c] = k] /\ chainLock' = c BY <2>2, <3>1 DEF Locked
    <3>. QED BY <1>1, <1>2, <3>3, <3>5, <3>6, <3>7, JobsStep
  <2>. QED BY <2>1, <2>2, <1>7
<1>. QED BY <1>2, <1>4, <1>5, <1>12, <1>13 DEF BaseOK

\* A block is a leaf when it enters the index, and its parent no more.
LEMMA LeavesAdd ==
    ASSUME TipsAreLeaves, NEW b, b \notin DOMAIN index, Parent[b] \in DOMAIN index,
           \A x \in DOMAIN index : Parent[x] \in DOMAIN index,
           DOMAIN index' = DOMAIN index \cup {b}, chainTips' = WithTip(chainTips, b)
    PROVE  TipsAreLeaves'
<1>1. PICK D : D = DOMAIN index OBVIOUS
<1>2. PICK p : p = Parent[b] OBVIOUS
<1>3. p \in D /\ b \notin D /\ p /= b /\ \A x \in D : Parent[x] /= b BY <1>1, <1>2
<1>4. chainTips = {y \in D : \A x \in D \ {y} : Parent[x] /= y} BY <1>1 DEF TipsAreLeaves
<1>5. chainTips' = (chainTips \ {p}) \cup {b} BY <1>2 DEF WithTip
<1>6. ASSUME NEW y \in D \cup {b}
      PROVE  y \in chainTips' <=> \A x \in (D \cup {b}) \ {y} : Parent[x] /= y
  <2>1. CASE y = b BY <2>1, <1>3, <1>5
  <2>2. CASE y \in D /\ y /= b BY <2>2, <1>2, <1>3, <1>4, <1>5
  <2>. QED BY <2>1, <2>2
<1>7. chainTips' \subseteq D \cup {b} BY <1>4, <1>5
<1>8. chainTips' = {y \in D \cup {b} : \A x \in (D \cup {b}) \ {y} : Parent[x] /= y} BY <1>6, <1>7
<1>. QED BY <1>1, <1>8 DEF TipsAreLeaves

\* What the stake nodes are when a block was accepted.
LEMMA AcceptFetch ==
    ASSUME IndexOK, DiskOK, MemoryOK, NEW D, DOMAIN index \subseteq D, D \subseteq Blocks,
           NEW b \in D, Parent[b] \in DOMAIN index, b /= Genesis, NEW ctx,
           ctx \in {stakeNodes, fetchStakeNode(stakeNodes, bestChain, Parent[b])},
           NEW pruned \in {ctx, PruneStakeNodes(ctx)}, NEW new \in {pruned, fetchStakeNode(pruned, bestChain, b)}
    PROVE  new \subseteq D /\ diskBest \in new
<1>1. /\ diskBest \in Blocks /\ bestChain = Path[diskBest] /\ diskBest \in DOMAIN index
      /\ On(diskBest) \subseteq DOMAIN index /\ On(Parent[b]) \subseteq DOMAIN index
  BY ChainFacts DEF DiskOK
<1>2. On(b) \subseteq D
  <2>1. b \in Blocks OBVIOUS
  <2>2. \A x : x \in On(b) <=> x = b \/ x \in On(Parent[b]) BY <2>1, OnParent
  <2>. QED BY <2>2, <1>1
<1>3. stakeNodes \subseteq DOMAIN index /\ diskBest \in stakeNodes BY DEF MemoryOK
<1>4. ctx \subseteq D /\ diskBest \in ctx
  <2>1. CASE ctx = stakeNodes BY <2>1, <1>3
  <2>2. CASE ctx = fetchStakeNode(stakeNodes, bestChain, Parent[b])
    <3>1. PICK p \in D : p = Parent[b] OBVIOUS
    <3>2. stakeNodes \subseteq D /\ diskBest \in D /\ On(diskBest) \subseteq D /\ On(p) \subseteq D
      BY <1>1, <1>3, <3>1
    <3>3. /\ fetchStakeNode(stakeNodes, Path[diskBest], p) \subseteq D
          /\ stakeNodes \subseteq fetchStakeNode(stakeNodes, Path[diskBest], p)
      BY <3>2, FetchFacts
    <3>. QED BY <2>2, <1>1, <1>3, <3>1, <3>3
  <2>. QED BY <2>1, <2>2
<1>5. pruned \subseteq D /\ diskBest \in pruned
  <2>1. /\ PruneStakeNodes(ctx) \subseteq ctx
        /\ diskBest \in ctx => diskBest \in PruneStakeNodes(ctx)
    BY PruneFacts
  <2>. QED BY <2>1, <1>4
<1>6. CASE new = pruned BY <1>5, <1>6
<1>7. CASE new = fetchStakeNode(pruned, bestChain, b)
  <2>1. diskBest \in D /\ On(diskBest) \subseteq D BY <1>1
  <2>2. /\ fetchStakeNode(pruned, Path[diskBest], b) \subseteq D
        /\ pruned \subseteq fetchStakeNode(pruned, Path[diskBest], b)
    BY <2>1, <1>2, <1>5, FetchFacts
  <2>. QED BY <1>1, <1>5, <1>7, <2>2
<1>. QED BY <1>6, <1>7

\* The index with one block more, written to disk at once.
LEMMA ChainAdd ==
    ASSUME IndexOK, DiskOK, env' = env, NEW b \in env.sent, b \notin DOMAIN index,
           Parent[b] \in DOMAIN index, env.kind[b] /= "insane", VerifyCheckpoint(b),
           FlagsTrusted => env.kind[b] /= "misplaced",
           index' = [x \in DOMAIN index \cup {b} |-> IF x = b THEN {"data"} ELSE index[x]],
           diskIndex' = Flushed(index', modified \cup {b}), modified' = {},
           bestChain' = bestChain, diskBest' = diskBest
    PROVE  /\ IndexOK' /\ DiskOK' /\ DOMAIN index' = DOMAIN index \cup {b} /\ index'[b] = {"data"}
           /\ \A x \in DOMAIN index : index'[x] = index[x]
           /\ diskIndex' = index'
<1>1. b \in Blocks \ {Genesis} /\ env.sent \subseteq Blocks BY EnvFacts DEF IndexOK
<1>2. IndexType(index) /\ FlagsOK(index, env.kind, FlagsTrusted) /\ modified \subseteq DOMAIN index BY DEF IndexOK
<1>3. /\ IndexType(index') /\ DOMAIN index' = DOMAIN index \cup {b} /\ index'[b] = {"data"}
      /\ \A x \in DOMAIN index : index'[x] = index[x]
      /\ FlagsOK(index', env.kind, FlagsTrusted)
  BY <1>1, <1>2, AddFacts
<1>4. FlagsTrusted' = FlagsTrusted BY SameTrust
<1>5. diskIndex' = index'
  <2>1. PICK new : new = index' OBVIOUS
  <2>2. PICK m : m = modified \cup {b} OBVIOUS
  <2>3. modified \subseteq m /\ m \subseteq DOMAIN new BY <2>1, <2>2, <1>2, <1>3
  <2>4. \A x \in DOMAIN new : x \notin m => x \in DOMAIN index /\ index[x] = new[x] BY <2>1, <2>2, <1>3
  <2>5. IndexType(new) /\ DOMAIN index \subseteq DOMAIN new BY <2>1, <1>3
  <2>6. Flushed(new, m) = new BY <2>3, <2>4, <2>5, FlushFacts
  <2>. QED BY <2>1, <2>2, <2>6
<1>6. IndexOK'
  <2>1. PassedOK(DOMAIN index', env, FlagsTrusted)
    <3>1. PassedOK(DOMAIN index, env, FlagsTrusted) BY DEF IndexOK
    <3>2. \A x \in Range(env.checkpoints) : Height[x] = Height[b] => x = b BY DEF VerifyCheckpoint, Checkpoints
    <3>. QED BY <3>1, <3>2, <1>3 DEF PassedOK
  <2>. QED BY <2>1, <1>3, <1>4 DEF IndexOK
<1>7. DiskOK' BY <1>3, <1>4, <1>5 DEF DiskOK, IndexType
<1>. QED BY <1>3, <1>5, <1>6, <1>7

LEMMA BaseAccept == ASSUME BaseOK, NEW c \in Callers, Accept(c) PROVE BaseOK'
<1>1. Runs(c) /\ job[c].at = "accept" BY DEF Accept, At
<1>2. UNCHANGED <<env, bestChain, orphans, oldestOrphan, blockCache, diskBest>> /\ CountOK'
  BY DEF Accept, pool, count, BaseOK, CountOK
<1>3. IndexOK /\ DiskOK /\ PoolOK /\ MemoryOK BY DEF BaseOK
<1>4. PICK j \in JobType : j = job[c] /\ j.at = "accept" /\ JobOK(j, DOMAIN index, env)
                           /\ HoldOK(j, index, Range(orphans), env)
  BY <1>1, CallFacts
<1>5. PICK b : b = j.block OBVIOUS
<1>6. /\ b \in env.sent /\ env.kind[b] /= "insane" /\ b \notin DOMAIN index
      /\ Parent[b] \in DOMAIN index /\ b \notin Range(orphans)
  BY <1>4, <1>5 DEF HoldOK
<1>7. b \in Blocks \ {Genesis} /\ env.sent \subseteq Blocks BY <1>3, <1>6, EnvFacts DEF IndexOK
<1>8. checkpointNode' \in Range(Checkpoints) \cup {None} /\ nextCheckpoint' \in Range(Checkpoints) \cup {None}
  <2>1. FoundCheckpoint \/ UNCHANGED cps BY DEF Accept
  <2>2. CASE FoundCheckpoint BY <1>3, <2>2, CheckpointFacts DEF FoundCheckpoint
  <2>3. CASE UNCHANGED cps BY <1>3, <2>3 DEF PoolOK, cps
  <2>. QED BY <2>1, <2>2, <2>3
<1>9. Checkpoints' = Checkpoints BY <1>2 DEF Checkpoints
<1>10. CASE Returns(c) /\ UNCHANGED <<index, modified, chainTips, diskIndex, stakeNodes>>
  <2>1. IndexOK' /\ DiskOK' BY <1>2, <1>3, <1>10, ChainSame
  <2>2. MemoryOK' BY <1>2, <1>3, <1>10, MemorySame
  <2>3. PoolOK'
    <3>1. Distinct(orphans)' BY <1>2, <1>3 DEF PoolOK, Distinct
    <3>. QED BY <3>1, <1>2, <1>3, <1>8, <1>9, <1>10 DEF PoolOK
  <2>4. JobsOK'
    <3>1. job' = [job EXCEPT ![c] = Idle] /\ chainLock' = Nobody BY <1>10 DEF Returns, Notifies
    <3>2. PICK k : k = Idle OBVIOUS
    <3>3. k \in JobType /\ JobOK(k, DOMAIN index', env) /\ HoldOK(k, index', Range(orphans'), env)
          /\ k.at \notin Holding
      BY <3>2, IdleFacts DEF Holding
    <3>. QED BY <1>1, <1>2, <1>10, <3>1, <3>2, <3>3, JobsStep
  <2>. QED BY <1>2, <2>1, <2>2, <2>3, <2>4 DEF BaseOK
<1>11. CASE ~(Returns(c) /\ UNCHANGED <<index, modified, chainTips, diskIndex, stakeNodes>>)
  <2>1. PICK ctx : ctx = IF ~j.fast /\ Height[b] >= StakeHeight
                           THEN fetchStakeNode(stakeNodes, bestChain, Parent[b]) ELSE stakeNodes
    OBVIOUS
  <2>2. /\ Acceptable(b, j.fast)
        /\ index' = [x \in DOMAIN index \cup {b} |-> IF x = b THEN {"data"} ELSE index[x]]
        /\ chainTips' = WithTip(chainTips, b)
        /\ diskIndex' = Flushed(index', modified \cup {b})
        /\ modified' = {}
        /\ \E pruned \in {ctx, PruneStakeNodes(ctx)} :
             stakeNodes' = IF Height[b] < Height[Tip] - MinMemoryNodes
                             THEN fetchStakeNode(pruned, bestChain, b) ELSE pruned
        /\ Locked(c, [j EXCEPT !.at = "connect"])
    BY <1>4, <1>5, <1>11, <2>1 DEF Accept
  <2>3. VerifyCheckpoint(b) /\ (j.fast \/ env.kind[b] /= "misplaced") BY <2>2 DEF Acceptable, PositionFits
  <2>4. FlagsTrusted => env.kind[b] /= "misplaced"
    BY <1>4, <1>6, <2>3 DEF JobOK, FlagsTrusted, Checkpoints
  <2>5. /\ IndexOK' /\ DiskOK' /\ DOMAIN index' = DOMAIN index \cup {b} /\ index'[b] = {"data"}
    BY <1>2, <1>3, <1>6, <2>2, <2>3, <2>4, ChainAdd
  <2>6. MemoryOK'
    <3>1. \A x \in DOMAIN index : Parent[x] \in DOMAIN index BY <1>3, ChainFacts
    <3>2. TipsAreLeaves BY <1>3 DEF MemoryOK
    <3>3. TipsAreLeaves' BY <1>6, <2>2, <2>5, <3>1, <3>2, LeavesAdd
    <3>4. PICK pruned \in {ctx, PruneStakeNodes(ctx)} :
             stakeNodes' = IF Height[b] < Height[Tip] - MinMemoryNodes
                             THEN fetchStakeNode(pruned, bestChain, b) ELSE pruned
      BY <2>2
    <3>5. PICK new \in {pruned, fetchStakeNode(pruned, bestChain, b)} : new = stakeNodes' BY <3>4
    <3>6. PICK D : D = DOMAIN index' OBVIOUS
    <3>7. D \subseteq Blocks BY <2>5, <3>6, <1>7, <1>3, ChainFacts
    <3>8. ctx \in {stakeNodes, fetchStakeNode(stakeNodes, bestChain, Parent[b])} BY <2>1
    <3>9. DOMAIN index \subseteq D /\ b \in D BY <2>5, <3>6
    <3>10. new \subseteq D /\ diskBest \in new
      BY <1>3, <1>6, <1>7, <3>5, <3>7, <3>8, <3>9, AcceptFetch
    <3>. QED BY <1>2, <1>3, <2>5, <3>3, <3>5, <3>6, <3>10 DEF MemoryOK
  <2>7. PoolOK'
    <3>1. Distinct(orphans)' BY <1>2, <1>3 DEF PoolOK, Distinct
    <3>. QED BY <3>1, <1>2, <1>3, <1>6, <1>8, <1>9, <2>5 DEF PoolOK
  <2>8. JobsOK'
    <3>1. "connect" \in Positions BY DEF Positions
    <3>2. PICK k : k = [j EXCEPT !.at = "connect"] OBVIOUS
    <3>3. /\ k \in JobType /\ k.at = "connect" /\ k.block = b /\ k.queue = j.queue /\ k.fast = j.fast
          /\ k.forced = j.forced
      BY <1>5, <3>1, <3>2, AtFacts
    <3>4. JobOK(k, DOMAIN index', env)
      BY <1>4, <1>7, <2>5, <3>3 DEF JobOK, Connecting, Reorganizing, Moving
    <3>5. HoldOK(k, index', Range(orphans'), env) BY <2>5, <3>3 DEF HoldOK
    <3>6. job' = [job EXCEPT ![c] = k] /\ chainLock' = c BY <2>2, <3>2 DEF Locked
    <3>7. DOMAIN index \subseteq DOMAIN index' BY <2>5
    <3>. QED BY <1>1, <1>2, <3>3, <3>4, <3>5, <3>6, <3>7, JobsStep
  <2>. QED BY <1>2, <2>5, <2>6, <2>7, <2>8 DEF BaseOK
<1>. QED BY <1>10, <1>11

\* Flushing the index as it is.
LEMMA FlushSame == ASSUME IndexOK, DiskOK PROVE Flushed(index, modified) = index
<1>1. IndexType(index) /\ modified \subseteq DOMAIN index BY DEF IndexOK
<1>2. PICK idx : idx = index OBVIOUS
<1>3. PICK m : m = modified OBVIOUS
<1>4. Flushed(idx, m) = idx BY <1>1, <1>2, <1>3, FlushFacts
<1>. QED BY <1>2, <1>3, <1>4

\* Flushing it with the flags that were changed.
LEMMA FlushChanged ==
    ASSUME IndexOK, DiskOK, NEW idx, IndexType(idx), DOMAIN idx = DOMAIN index
    PROVE  Flushed(idx, modified \cup Changed(index, idx)) = idx
<1>1. modified \subseteq DOMAIN index BY DEF IndexOK
<1>2. PICK m : m = modified \cup Changed(index, idx) OBVIOUS
<1>3. Changed(index, idx) \subseteq DOMAIN idx BY DEF Changed
<1>4. \A b \in DOMAIN idx : b \notin m => b \in DOMAIN index /\ index[b] = idx[b] BY <1>2 DEF Changed
<1>5. modified \subseteq m /\ m \subseteq DOMAIN idx BY <1>1, <1>2, <1>3
<1>6. Flushed(idx, m) = idx BY <1>4, <1>5, FlushFacts
<1>. QED BY <1>2, <1>6

\* connectBestChain flags the block that extends the chain.
LEMMA ChainMarked ==
    ASSUME IndexOK, DiskOK, NEW b \in DOMAIN index, NEW flag \in Flags, env' = env,
           FlagsOK(SetStatusFlags(index, {b}, flag), env.kind, FlagsTrusted),
           index' = SetStatusFlags(index, {b}, flag),
           diskIndex' = Flushed(index', modified \cup {b}), modified' = {},
           bestChain' = bestChain, diskBest' = diskBest
    PROVE  /\ IndexOK' /\ DiskOK' /\ DOMAIN index' = DOMAIN index /\ index'[b] = index[b] \cup {flag}
           /\ diskIndex' = index' /\ \A x \in DOMAIN index : index[x] \subseteq index'[x]
<1>1. IndexType(index) /\ modified \subseteq DOMAIN index BY DEF IndexOK
<1>2. PICK new : new = index' OBVIOUS
<1>3. new = SetStatusFlags(index, {b}, flag) BY <1>2
<1>4. /\ IndexType(new) /\ DOMAIN new = DOMAIN index
      /\ \A x \in DOMAIN index :
           /\ new[x] = IF x \in {b} THEN index[x] \cup {flag} ELSE index[x]
           /\ index[x] \subseteq new[x]
  <2>1. PICK S : S = {b} OBVIOUS
  <2>2. new = SetStatusFlags(index, S, flag) BY <1>3, <2>1
  <2>3. /\ IndexType(SetStatusFlags(index, S, flag))
        /\ DOMAIN SetStatusFlags(index, S, flag) = DOMAIN index
        /\ \A x \in DOMAIN index :
             /\ SetStatusFlags(index, S, flag)[x] = IF x \in S THEN index[x] \cup {flag} ELSE index[x]
             /\ index[x] \subseteq SetStatusFlags(index, S, flag)[x]
    BY <1>1, SetStatusFacts
  <2>. QED BY <2>1, <2>2, <2>3
<1>5. new[b] = index[b] \cup {flag} BY <1>4
<1>6. PICK m : m = modified \cup {b} OBVIOUS
<1>7. modified \subseteq m /\ m \subseteq DOMAIN new BY <1>1, <1>4, <1>6
<1>8. \A x \in DOMAIN new : x \notin m => x \in DOMAIN index /\ index[x] = new[x] BY <1>4, <1>6
<1>9. DOMAIN index \subseteq DOMAIN new BY <1>4
<1>10. Flushed(new, m) = new BY <1>4, <1>7, <1>8, <1>9, FlushFacts
<1>11. diskIndex' = index' BY <1>2, <1>6, <1>10
<1>12. diskBest \in DOMAIN index /\ "valid" \in index[diskBest] /\ bestChain = Path[diskBest] BY DEF DiskOK
<1>13. "valid" \in index'[diskBest'] BY <1>2, <1>4, <1>12
<1>14. IndexType(index') /\ DOMAIN index' = DOMAIN index /\ FlagsOK(index', env.kind, FlagsTrusted)
  BY <1>2, <1>3, <1>4
<1>15. IndexOK' /\ DiskOK' BY <1>11, <1>12, <1>13, <1>14, ChainFlush
<1>. QED BY <1>2, <1>4, <1>5, <1>11, <1>15

LEMMA ChainConnect ==
    ASSUME IndexOK, DiskOK, MemoryOK, NEW b \in DOMAIN index, NEW idx, IndexType(idx),
           DOMAIN idx = DOMAIN index, FlagsOK(idx, env.kind, FlagsTrusted), "valid" \in idx[b],
           Connected(b, idx), env' = env
    PROVE  /\ IndexOK' /\ DiskOK' /\ index' = idx /\ diskBest' = b
           /\ stakeNodes' \subseteq DOMAIN index /\ b \in stakeNodes' /\ stakeNodes \subseteq stakeNodes'
<1>1. /\ diskBest \in Blocks /\ DOMAIN index \subseteq Blocks /\ On(diskBest) \subseteq DOMAIN index
      /\ diskBest \in DOMAIN index /\ On(b) \subseteq DOMAIN index /\ bestChain = Path[diskBest]
  BY ChainFacts DEF DiskOK
<1>2. index' = idx /\ diskIndex' = idx /\ modified' = {} /\ diskBest' = b BY FlushChanged DEF Connected
<1>3. bestChain' = Path[b]
  <2>1. b \in Blocks BY <1>1
  <2>2. SetTip(Path[diskBest], b) = Path[b] BY <1>1, <2>1, SetTipFacts
  <2>. QED BY <1>1, <2>2 DEF Connected
<1>4. IndexOK' /\ DiskOK' BY <1>2, <1>3, ChainFlush
<1>5. /\ fetchStakeNode(stakeNodes, Path[diskBest], b) \subseteq DOMAIN index
      /\ b \in fetchStakeNode(stakeNodes, Path[diskBest], b)
      /\ stakeNodes \subseteq fetchStakeNode(stakeNodes, Path[diskBest], b)
  <2>1. stakeNodes \subseteq DOMAIN index BY DEF MemoryOK
  <2>2. PICK D : D = DOMAIN index OBVIOUS
  <2>3. /\ fetchStakeNode(stakeNodes, Path[diskBest], b) \subseteq D
        /\ b \in fetchStakeNode(stakeNodes, Path[diskBest], b)
        /\ stakeNodes \subseteq fetchStakeNode(stakeNodes, Path[diskBest], b)
    BY <1>1, <2>1, <2>2, FetchFacts
  <2>. QED BY <2>2, <2>3
<1>6. stakeNodes' = fetchStakeNode(stakeNodes, Path[diskBest], b) BY <1>1 DEF Connected
<1>. QED BY <1>2, <1>4, <1>5, <1>6

LEMMA ChainDisconnect ==
    ASSUME IndexOK, DiskOK, MemoryOK, Disconnected(diskBest), env' = env, index' = index
    PROVE  /\ IndexOK' /\ DiskOK' /\ diskBest' = Parent[diskBest]
           /\ stakeNodes' \subseteq DOMAIN index /\ diskBest' \in stakeNodes'
           /\ stakeNodes \subseteq stakeNodes'
<1>1. /\ diskBest \in Blocks /\ DOMAIN index \subseteq Blocks /\ On(diskBest) \subseteq DOMAIN index
      /\ diskBest \in DOMAIN index /\ bestChain = Path[diskBest] /\ "valid" \in index[diskBest]
      /\ Parent[diskBest] \in DOMAIN index
  BY ChainFacts DEF DiskOK
<1>2. PICK p \in DOMAIN index : p = Parent[diskBest] BY <1>1
<1>3. p \in Blocks /\ On(p) \subseteq DOMAIN index BY <1>1, ChainFacts
<1>4. IndexType(index) /\ FlagsOK(index, env.kind, FlagsTrusted) BY DEF IndexOK
<1>5. "valid" \in index[p] BY <1>1, <1>2, <1>4 DEF FlagsOK
<1>6. diskIndex' = index /\ modified' = {} /\ diskBest' = p BY <1>2, FlushSame DEF Disconnected
<1>7. bestChain' = Path[p]
  <2>1. SetTip(Path[diskBest], p) = Path[p] BY <1>1, <1>3, SetTipFacts
  <2>. QED BY <1>1, <1>2, <2>1 DEF Disconnected
<1>8. IndexOK' /\ DiskOK' BY <1>4, <1>5, <1>6, <1>7, ChainFlush
<1>9. PICK one : one = fetchStakeNode(stakeNodes, Path[diskBest], diskBest) OBVIOUS
<1>10. PICK D : D = DOMAIN index OBVIOUS
<1>11. stakeNodes \subseteq D BY <1>10 DEF MemoryOK
<1>12. one \subseteq D /\ stakeNodes \subseteq one
  <2>1. /\ fetchStakeNode(stakeNodes, Path[diskBest], diskBest) \subseteq D
        /\ stakeNodes \subseteq fetchStakeNode(stakeNodes, Path[diskBest], diskBest)
    BY <1>1, <1>10, <1>11, FetchFacts
  <2>. QED BY <2>1, <1>9
<1>13. /\ fetchStakeNode(one, Path[diskBest], p) \subseteq D
       /\ p \in fetchStakeNode(one, Path[diskBest], p)
       /\ one \subseteq fetchStakeNode(one, Path[diskBest], p)
  BY <1>1, <1>3, <1>10, <1>12, FetchFacts
<1>14. stakeNodes' = fetchStakeNode(one, Path[diskBest], p) BY <1>1, <1>2, <1>9 DEF Disconnected
<1>. QED BY <1>2, <1>6, <1>8, <1>10, <1>12, <1>13, <1>14

\* The flags after a block that is to extend the best chain was checked.
LEMMA ValidTip ==
    ASSUME IndexOK, DiskOK, NEW b \in DOMAIN index, Parent[b] = diskBest, env.kind[b] /= "invalid" \/ ~FlagsTrusted,
           "failed" \notin index[b]
    PROVE  FlagsOK(SetStatusFlags(index, {b}, "valid"), env.kind, FlagsTrusted)
<1>1. IndexType(index) /\ FlagsOK(index, env.kind, FlagsTrusted) BY DEF IndexOK
<1>2. "valid" \in index[Parent[b]] BY DEF DiskOK
<1>3. FlagsTrusted => env.kind[b] /= "invalid" OBVIOUS
<1>. QED BY <1>1, <1>2, <1>3, PassFacts

LEMMA BaseConnect == ASSUME BaseOK, NEW c \in Callers, ConnectBestChain(c) PROVE BaseOK'
<1>1. Runs(c) /\ job[c].at = "connect" BY DEF ConnectBestChain, At
<1>2. UNCHANGED <<env, chainTips, bestChain, orphans, oldestOrphan, checkpointNode, nextCheckpoint,
                  stakeNodes, blockCache, diskBest>>
  BY DEF ConnectBestChain, pool, cps
<1>3. CountOK'
  <2>1. restarts' = restarts /\ panicked' = panicked /\ (Fault \/ NoFault) BY DEF ConnectBestChain
  <2>. QED BY <2>1 DEF BaseOK, CountOK, Fault, NoFault
<1>4. IndexOK /\ DiskOK /\ PoolOK /\ MemoryOK BY DEF BaseOK
<1>5. PICK j \in JobType : j = job[c] /\ j.at = "connect" /\ JobOK(j, DOMAIN index, env)
                           /\ HoldOK(j, index, Range(orphans), env)
  BY <1>1, CallFacts
<1>6. PICK b : b = j.block OBVIOUS
<1>7. b \in DOMAIN index /\ b /= Genesis /\ index[b] = {"data"} /\ ~j.forced
      /\ Range(j.queue) \subseteq DOMAIN index /\ (j.fast => env.checkpoints /= <<>>)
  BY <1>5, <1>6 DEF HoldOK, JobOK, Connecting
<1>8. IndexType(index) /\ FlagsOK(index, env.kind, FlagsTrusted) BY <1>4 DEF IndexOK
<1>9. Tip = diskBest /\ diskBest \in DOMAIN index /\ diskBest \in Blocks /\ b \in Blocks
  BY <1>4, <1>7, ChainFacts DEF DiskOK
<1>10. \/ /\ env.kind[b] = "invalid"
          /\ index' = SetStatusFlags(index, {b}, "failed")
          /\ diskIndex' = Flushed(index', modified \cup {b}) /\ modified' = {} /\ Returns(c)
       \/ Returns(c) /\ UNCHANGED <<index, modified, diskIndex>>
       \/ /\ Parent[b] = Tip /\ (j.fast \/ env.kind[b] /= "invalid")
          /\ index' = SetStatusFlags(index, {b}, "valid")
          /\ diskIndex' = Flushed(index', modified \cup {b}) /\ modified' = {}
          /\ Locked(c, [j EXCEPT !.at = "extend"])
       \/ Notifies(c, [j EXCEPT !.at = "accepted"]) /\ UNCHANGED <<index, modified, diskIndex>>
       \/ /\ Notifies(c, [j EXCEPT !.at = "reorg", !.target = b, !.orig = Tip])
          /\ UNCHANGED <<index, modified, diskIndex>>
  BY <1>5, <1>6 DEF ConnectBestChain
<1>11. CASE /\ env.kind[b] = "invalid"
            /\ index' = SetStatusFlags(index, {b}, "failed")
            /\ diskIndex' = Flushed(index', modified \cup {b}) /\ modified' = {} /\ Returns(c)
  <2>1. "valid" \notin index[b] BY <1>7
  <2>2. FlagsOK(SetStatusFlags(index, {b}, "failed"), env.kind, FlagsTrusted)
    BY <2>1, <1>7, <1>8, <1>11, FailFacts
  <2>3. "failed" \in Flags BY DEF Flags
  <2>4. IndexOK' /\ DiskOK' /\ DOMAIN index' = DOMAIN index
    BY <2>2, <2>3, <1>2, <1>4, <1>7, <1>11, ChainMarked
  <2>5. PoolOK' BY <2>4, <1>2, <1>4, PoolSame
  <2>6. MemoryOK' BY <2>4, <1>2, <1>4, MemorySame
  <2>7. JobsOK'
    <3>1. job' = [job EXCEPT ![c] = Idle] /\ chainLock' = Nobody BY <1>11 DEF Returns, Notifies
    <3>2. PICK k : k = Idle OBVIOUS
    <3>3. k \in JobType /\ JobOK(k, DOMAIN index', env) /\ HoldOK(k, index', Range(orphans'), env)
          /\ k.at \notin Holding
      BY <3>2, IdleFacts DEF Holding
    <3>. QED BY <1>1, <1>2, <2>4, <3>1, <3>2, <3>3, JobsStep
  <2>. QED BY <1>3, <2>4, <2>5, <2>6, <2>7 DEF BaseOK
<1>12. CASE Returns(c) /\ UNCHANGED <<index, modified, diskIndex>>
  <2>1. job' = [job EXCEPT ![c] = Idle] /\ chainLock' = Nobody BY <1>12 DEF Returns, Notifies
  <2>2. PICK k : k = Idle OBVIOUS
  <2>3. k \in JobType /\ JobOK(k, DOMAIN index, env) /\ HoldOK(k, index, Range(orphans), env)
        /\ k.at \notin Holding
    BY <2>2, IdleFacts DEF Holding
  <2>. QED BY <1>1, <1>2, <1>3, <1>12, <2>1, <2>2, <2>3, BaseJob
<1>13. CASE /\ Parent[b] = Tip /\ (j.fast \/ env.kind[b] /= "invalid")
            /\ index' = SetStatusFlags(index, {b}, "valid")
            /\ diskIndex' = Flushed(index', modified \cup {b}) /\ modified' = {}
            /\ Locked(c, [j EXCEPT !.at = "extend"])
  <2>1. Parent[b] = diskBest /\ "failed" \notin index[b] BY <1>7, <1>9, <1>13
  <2>2. env.kind[b] /= "invalid" \/ ~FlagsTrusted
    <3>1. b \in env.sent BY <1>4, <1>7 DEF IndexOK, PassedOK
    <3>. QED BY <3>1, <1>7, <1>13 DEF FlagsTrusted, Checkpoints
  <2>3. FlagsOK(SetStatusFlags(index, {b}, "valid"), env.kind, FlagsTrusted)
    BY <2>1, <2>2, <1>4, <1>7, ValidTip
  <2>4. "valid" \in Flags BY DEF Flags
  <2>5. IndexOK' /\ DiskOK' /\ DOMAIN index' = DOMAIN index /\ index'[b] = index[b] \cup {"valid"}
    BY <2>3, <2>4, <1>2, <1>4, <1>7, <1>13, ChainMarked
  <2>6. PoolOK' BY <2>5, <1>2, <1>4, PoolSame
  <2>7. MemoryOK' BY <2>5, <1>2, <1>4, MemorySame
  <2>8. JobsOK'
    <3>1. "extend" \in Positions BY DEF Positions
    <3>2. PICK k : k = [j EXCEPT !.at = "extend"] OBVIOUS
    <3>3. /\ k \in JobType /\ k.at = "extend" /\ k.block = b /\ k.queue = j.queue /\ k.fast = j.fast
          /\ k.forced = j.forced
      BY <1>6, <3>1, <3>2, AtFacts
    <3>4. JobOK(k, DOMAIN index', env)
      BY <1>7, <2>5, <3>3 DEF JobOK, Connecting, Reorganizing, Moving
    <3>5. HoldOK(k, index', Range(orphans'), env) BY <2>5, <3>3 DEF HoldOK
    <3>6. job' = [job EXCEPT ![c] = k] /\ chainLock' = c BY <1>13, <3>2 DEF Locked
    <3>. QED BY <1>1, <1>2, <2>5, <3>3, <3>4, <3>5, <3>6, JobsStep
  <2>. QED BY <1>3, <2>5, <2>6, <2>7, <2>8 DEF BaseOK
<1>14. CASE Notifies(c, [j EXCEPT !.at = "accepted"]) /\ UNCHANGED <<index, modified, diskIndex>>
  <2>1. "accepted" \in Positions BY DEF Positions
  <2>2. PICK k : k = [j EXCEPT !.at = "accepted"] OBVIOUS
  <2>3. /\ k \in JobType /\ k.at = "accepted" /\ k.block = b /\ k.queue = j.queue /\ k.fast = j.fast
        /\ k.forced = j.forced
    BY <1>6, <2>1, <2>2, AtFacts
  <2>4. JobOK(k, DOMAIN index, env)
    BY <1>7, <2>3 DEF JobOK, Connecting, Reorganizing, Moving
  <2>5. HoldOK(k, index, Range(orphans), env) /\ k.at \notin Holding BY <2>3 DEF HoldOK, Holding
  <2>6. job' = [job EXCEPT ![c] = k] /\ chainLock' = Nobody BY <1>14, <2>2 DEF Notifies
  <2>. QED BY <1>1, <1>2, <1>3, <1>14, <2>3, <2>4, <2>5, <2>6, BaseJob
<1>15. CASE /\ Notifies(c, [j EXCEPT !.at = "reorg", !.target = b, !.orig = Tip])
            /\ UNCHANGED <<index, modified, diskIndex>>
  <2>1. "reorg" \in Positions BY DEF Positions
  <2>2. PICK k : k = [j EXCEPT !.at = "reorg", !.target = b, !.orig = Tip] OBVIOUS
  <2>3. /\ k \in JobType /\ k.at = "reorg" /\ k.block = b /\ k.queue = j.queue /\ k.fast = j.fast
        /\ k.forced = j.forced /\ k.target = b /\ k.orig = diskBest
    BY <1>6, <1>9, <2>1, <2>2 DEF JobType, Some
  <2>4. JobOK(k, DOMAIN index, env)
    BY <1>7, <1>9, <2>3 DEF JobOK, Connecting, Reorganizing, Moving
  <2>5. HoldOK(k, index, Range(orphans), env) /\ k.at \notin Holding BY <2>3 DEF HoldOK, Holding
  <2>6. job' = [job EXCEPT ![c] = k] /\ chainLock' = Nobody BY <1>15, <2>2 DEF Notifies
  <2>. QED BY <1>1, <1>2, <1>3, <1>15, <2>3, <2>4, <2>5, <2>6, BaseJob
<1>. QED BY <1>10, <1>11, <1>12, <1>13, <1>14, <1>15

LEMMA MemoryMoved ==
    ASSUME MemoryOK, DOMAIN index' = DOMAIN index, chainTips' = chainTips,
           stakeNodes' \subseteq DOMAIN index, diskBest' \in stakeNodes', blockCache' \subseteq DOMAIN index
    PROVE  MemoryOK'
<1>1. TipsAreLeaves' BY LeavesSame DEF MemoryOK
<1>. QED BY <1>1 DEF MemoryOK

LEMMA BaseExtend == ASSUME BaseOK, NEW c \in Callers, Extend(c) PROVE BaseOK'
<1>1. Runs(c) /\ job[c].at = "extend" BY DEF Extend, At
<1>2. PICK j \in JobType : j = job[c] /\ j.at = "extend" /\ JobOK(j, DOMAIN index, env)
                           /\ HoldOK(j, index, Range(orphans), env)
  BY <1>1, CallFacts
<1>3. PICK b : b = j.block OBVIOUS
<1>4. b \in DOMAIN index /\ b /= Genesis /\ "valid" \in index[b] /\ ~j.forced
      /\ Range(j.queue) \subseteq DOMAIN index /\ (j.fast => env.checkpoints /= <<>>)
  BY <1>2, <1>3 DEF HoldOK, JobOK, Connecting
<1>5. CASE Panics BY <1>1, <1>5, BasePanic
<1>6. CASE ~Panics
  <2>1. /\ Connected(b, index) /\ Notifies(c, [j EXCEPT !.at = "extended"])
        /\ UNCHANGED <<env, chainTips, orphans, oldestOrphan, checkpointNode, nextCheckpoint, blockCache>>
        /\ CountOK'
    BY <1>2, <1>3, <1>6 DEF Extend, pool, cps, count, BaseOK, CountOK
  <2>2. IndexOK /\ DiskOK /\ PoolOK /\ MemoryOK BY DEF BaseOK
  <2>3. IndexType(index) /\ FlagsOK(index, env.kind, FlagsTrusted) BY <2>2 DEF IndexOK
  <2>4. /\ IndexOK' /\ DiskOK' /\ index' = index /\ diskBest' = b
        /\ stakeNodes' \subseteq DOMAIN index /\ b \in stakeNodes'
    BY <1>4, <2>1, <2>2, <2>3, ChainConnect
  <2>5. blockCache' \subseteq DOMAIN index BY <2>1, <2>2 DEF MemoryOK
  <2>6. MemoryOK' BY <2>1, <2>2, <2>4, <2>5, MemoryMoved
  <2>7. PoolOK' BY <2>1, <2>2, <2>4, PoolSame
  <2>8. JobsOK'
    <3>1. "extended" \in Positions BY DEF Positions
    <3>2. PICK k : k = [j EXCEPT !.at = "extended"] OBVIOUS
    <3>3. /\ k \in JobType /\ k.at = "extended" /\ k.block = b /\ k.queue = j.queue /\ k.fast = j.fast
          /\ k.forced = j.forced
      BY <1>3, <3>1, <3>2, AtFacts
    <3>4. JobOK(k, DOMAIN index', env) BY <1>4, <2>4, <3>3 DEF JobOK, Connecting, Reorganizing, Moving
    <3>5. HoldOK(k, index', Range(orphans'), env) /\ k.at \notin Holding BY <3>3 DEF HoldOK, Holding
    <3>6. job' = [job EXCEPT ![c] = k] /\ chainLock' = Nobody BY <2>1, <3>2 DEF Notifies
    <3>. QED BY <1>1, <2>1, <2>4, <3>3, <3>4, <3>5, <3>6, JobsStep
  <2>. QED BY <2>1, <2>4, <2>6, <2>7, <2>8 DEF BaseOK
<1>. QED BY <1>5, <1>6

\* After the notification of a block that was put on.
LEMMA MemoryAfter ==
    ASSUME IndexOK, DiskOK, MemoryOK, NEW b \in DOMAIN index, ~AfterConnectPanics(b), AfterConnect(b),
           UNCHANGED <<index, chainTips, diskBest>>
    PROVE  MemoryOK'
<1>1. diskBest \in Blocks /\ Tip = diskBest BY ChainFacts
<1>2. stakeNodes \subseteq DOMAIN index /\ diskBest \in stakeNodes /\ blockCache \subseteq DOMAIN index
  BY DEF MemoryOK
<1>3. blockCache' \subseteq DOMAIN index BY <1>2 DEF AfterConnect
<1>4. stakeNodes' \subseteq DOMAIN index BY <1>2 DEF AfterConnect
<1>5. diskBest \in stakeNodes'
  <2>1. CASE Height[b] < LatestCheckpointHeight
    <3>1. diskBest /= Genesis BY <2>1, <1>1 DEF AfterConnectPanics
    <3>2. Parent[diskBest] /= diskBest BY <3>1, <1>1, OnParent
    <3>. QED BY <3>2, <2>1, <1>1, <1>2 DEF AfterConnect
  <2>2. CASE ~(Height[b] < LatestCheckpointHeight) BY <2>2, <1>2 DEF AfterConnect
  <2>. QED BY <2>1, <2>2
<1>. QED BY <1>3, <1>4, <1>5, MemoryMoved

LEMMA BaseExtended == ASSUME BaseOK, NEW c \in Callers, Extended(c) PROVE BaseOK'
<1>1. Runs(c) /\ job[c].at = "extended" BY DEF Extended, At
<1>2. PICK j \in JobType : j = job[c] /\ j.at = "extended" /\ JobOK(j, DOMAIN index, env)
  BY <1>1, CallFacts
<1>3. PICK b : b = j.block OBVIOUS
<1>4. b \in DOMAIN index /\ b /= Genesis /\ ~j.forced
      /\ Range(j.queue) \subseteq DOMAIN index /\ (j.fast => env.checkpoints /= <<>>)
  BY <1>2, <1>3 DEF JobOK, Connecting
<1>5. CASE Panics BY <1>1, <1>5, BasePanic
<1>6. CASE ~Panics
  <2>1. /\ ~AfterConnectPanics(b) /\ AfterConnect(b) /\ Notifies(c, [j EXCEPT !.at = "accepted"])
        /\ UNCHANGED <<env, chainTips, index, modified, bestChain, orphans, oldestOrphan, checkpointNode,
                       nextCheckpoint, diskIndex, diskBest>>
        /\ CountOK'
    BY <1>2, <1>3, <1>6 DEF Extended, pool, cps, disk, count, BaseOK, CountOK
  <2>2. IndexOK /\ DiskOK /\ PoolOK /\ MemoryOK BY DEF BaseOK
  <2>3. IndexOK' /\ DiskOK' BY <2>1, <2>2, ChainSame
  <2>4. PoolOK' BY <2>1, <2>2, PoolSame
  <2>5. MemoryOK' BY <1>4, <2>1, <2>2, MemoryAfter
  <2>6. JobsOK'
    <3>1. "accepted" \in Positions BY DEF Positions
    <3>2. PICK k : k = [j EXCEPT !.at = "accepted"] OBVIOUS
    <3>3. /\ k \in JobType /\ k.at = "accepted" /\ k.block = b /\ k.queue = j.queue /\ k.fast = j.fast
          /\ k.forced = j.forced
      BY <1>3, <3>1, <3>2, AtFacts
    <3>4. JobOK(k, DOMAIN index', env) BY <1>4, <2>1, <3>3 DEF JobOK, Connecting, Reorganizing, Moving
    <3>5. HoldOK(k, index', Range(orphans'), env) /\ k.at \notin Holding BY <3>3 DEF HoldOK, Holding
    <3>6. job' = [job EXCEPT ![c] = k] /\ chainLock' = Nobody BY <2>1, <3>2 DEF Notifies
    <3>. QED BY <1>1, <2>1, <3>3, <3>4, <3>5, <3>6, JobsStep
  <2>. QED BY <2>1, <2>3, <2>4, <2>5, <2>6 DEF BaseOK
<1>. QED BY <1>5, <1>6

LEMMA BaseMoved == ASSUME BaseOK, NEW c \in Callers, Moved(c) PROVE BaseOK'
<1>1. Runs(c) /\ job[c].at \in {"detached", "attached"} BY DEF Moved, At
<1>2. PICK j \in JobType : j = job[c] /\ j.at \in {"detached", "attached"} /\ JobOK(j, DOMAIN index, env)
  BY <1>1, CallFacts
<1>3. PICK b : b = j.moved OBVIOUS
<1>4. b \in DOMAIN index BY <1>2, <1>3 DEF JobOK
<1>5. CASE Panics BY <1>1, <1>5, BasePanic
<1>6. CASE ~Panics
  <2>1. /\ \/ blockCache' = DropFromCache(b) /\ UNCHANGED stakeNodes
           \/ ~AfterConnectPanics(b) /\ AfterConnect(b)
        /\ Locked(c, [j EXCEPT !.at = "reorging"])
        /\ UNCHANGED <<env, chainTips, index, modified, bestChain, orphans, oldestOrphan, checkpointNode,
                       nextCheckpoint, diskIndex, diskBest>>
        /\ CountOK'
    BY <1>2, <1>3, <1>6 DEF Moved, pool, cps, disk, count, BaseOK, CountOK
  <2>2. IndexOK /\ DiskOK /\ PoolOK /\ MemoryOK BY DEF BaseOK
  <2>3. IndexOK' /\ DiskOK' BY <2>1, <2>2, ChainSame
  <2>4. PoolOK' BY <2>1, <2>2, PoolSame
  <2>5. MemoryOK'
    <3>1. CASE blockCache' = DropFromCache(b) /\ UNCHANGED stakeNodes
      <4>1. blockCache' \subseteq DOMAIN index /\ stakeNodes' \subseteq DOMAIN index /\ diskBest' \in stakeNodes'
        BY <2>1, <2>2, <3>1 DEF MemoryOK, DropFromCache
      <4>. QED BY <4>1, <2>1, <2>2, MemoryMoved
    <3>2. CASE ~AfterConnectPanics(b) /\ AfterConnect(b) BY <3>2, <1>4, <2>1, <2>2, MemoryAfter
    <3>. QED BY <3>1, <3>2, <2>1
  <2>6. JobsOK'
    <3>1. "reorging" \in Positions BY DEF Positions
    <3>2. PICK k : k = [j EXCEPT !.at = "reorging"] OBVIOUS
    <3>3. /\ k \in JobType /\ k.at = "reorging" /\ k.block = j.block /\ k.queue = j.queue
          /\ k.fast = j.fast /\ k.forced = j.forced /\ k.target = j.target /\ k.orig = j.orig
          /\ k.detach = j.detach /\ k.attach = j.attach
      BY <3>1, <3>2, AtFacts
    <3>4. JobOK(k, DOMAIN index', env) BY <1>2, <2>1, <3>3 DEF JobOK, Connecting, Reorganizing, Moving
    <3>5. HoldOK(k, index', Range(orphans'), env) BY <3>3 DEF HoldOK
    <3>6. job' = [job EXCEPT ![c] = k] /\ chainLock' = c BY <2>1, <3>2 DEF Locked
    <3>. QED BY <1>1, <2>1, <3>3, <3>4, <3>5, <3>6, JobsStep
  <2>. QED BY <2>1, <2>3, <2>4, <2>5, <2>6 DEF BaseOK
<1>. QED BY <1>5, <1>6

LEMMA BaseDone == ASSUME BaseOK, NEW c \in Callers, Done(c) PROVE BaseOK'
<1>1. Runs(c) /\ job[c].at = "done" BY DEF Done, At
<1>2. PICK j \in JobType : j = job[c] /\ j.at = "done" /\ JobOK(j, DOMAIN index, env)
  BY <1>1, CallFacts
<1>3. /\ diskIndex' = Flushed(index, modified) /\ modified' = {}
      /\ UNCHANGED <<env, chainTips, index, bestChain, orphans, oldestOrphan, checkpointNode,
                     nextCheckpoint, stakeNodes, blockCache, diskBest>>
      /\ CountOK'
  BY DEF Done, pool, cps, count, BaseOK, CountOK
<1>4. IndexOK /\ DiskOK /\ PoolOK /\ MemoryOK BY DEF BaseOK
<1>5. diskIndex' = index' BY <1>3, <1>4, FlushSame
<1>6. IndexOK' /\ DiskOK'
  <2>1. IndexType(index') /\ FlagsOK(index', env.kind, FlagsTrusted) BY <1>3, <1>4 DEF IndexOK
  <2>2. diskBest' \in DOMAIN index /\ "valid" \in index'[diskBest'] /\ bestChain' = Path[diskBest']
    BY <1>3, <1>4 DEF DiskOK
  <2>. QED BY <1>3, <1>4, <1>5, <2>1, <2>2, ChainFlush
<1>7. PoolOK' BY <1>3, <1>4, PoolSame
<1>8. MemoryOK' BY <1>3, <1>4, MemorySame
<1>9. JobsOK'
  <2>1. CASE j.back \/ j.forced
    <3>1. Returns(c) BY <2>1, <1>2 DEF Done
    <3>2. job' = [job EXCEPT ![c] = Idle] /\ chainLock' = Nobody BY <3>1 DEF Returns, Notifies
    <3>3. PICK k : k = Idle OBVIOUS
    <3>4. k \in JobType /\ JobOK(k, DOMAIN index', env) /\ HoldOK(k, index', Range(orphans'), env)
          /\ k.at \notin Holding
      BY <3>3, IdleFacts DEF Holding
    <3>. QED BY <1>1, <1>3, <3>2, <3>3, <3>4, JobsStep
  <2>2. CASE ~(j.back \/ j.forced)
    <3>1. "accepted" \in Positions BY DEF Positions
    <3>2. PICK k : k = [j EXCEPT !.at = "accepted"] OBVIOUS
    <3>3. /\ k \in JobType /\ k.at = "accepted" /\ k.block = j.block /\ k.queue = j.queue /\ k.fast = j.fast
          /\ k.forced = j.forced
      BY <3>1, <3>2, AtFacts
    <3>4. JobOK(k, DOMAIN index', env)
      BY <1>2, <1>3, <2>2, <3>3 DEF JobOK, Connecting, Reorganizing, Moving
    <3>5. HoldOK(k, index', Range(orphans'), env) /\ k.at \notin Holding BY <3>3 DEF HoldOK, Holding
    <3>6. job' = [job EXCEPT ![c] = k] /\ chainLock' = Nobody BY <1>2, <2>2, <3>2 DEF Done, Notifies
    <3>. QED BY <1>1, <1>3, <3>3, <3>4, <3>5, <3>6, JobsStep
  <2>. QED BY <2>1, <2>2
<1>. QED BY <1>3, <1>6, <1>7, <1>8, <1>9 DEF BaseOK

\* The next orphan of the blocks that were accepted.
LEMMA OrphanOf ==
    ASSUME NEW D, NEW q \in Seq(D), orphans \in Seq(Blocks), HaveOrphans(q) /= <<>>,
           NEW i, i = Min({n \in 1 .. Len(orphans) : Parent[orphans[n]] = HaveOrphans(q)[1]})
    PROVE  /\ HaveOrphans(q) \in Seq(D) /\ orphans[i] \in Range(orphans) /\ Parent[orphans[i]] \in D
<1>1. PICK with : with = {n \in 1 .. Len(q) : \E o \in Range(orphans) : Parent[o] = q[n]} OBVIOUS
<1>2. PICK rest : rest = HaveOrphans(q) OBVIOUS
<1>3. rest = IF with = {} THEN <<>> ELSE SubSeq(q, Min(with), Len(q)) BY <1>1, <1>2 DEF HaveOrphans
<1>4. with /= {} /\ rest = SubSeq(q, Min(with), Len(q)) BY <1>2, <1>3
<1>5. PICK m : m = Min(with) OBVIOUS
<1>6. m \in with
  <2>1. Len(q) \in Nat /\ with \in SUBSET (1 .. Len(q)) BY <1>1
  <2>. QED BY <2>1, <1>4, <1>5, MinFacts
<1>7. m \in 1 .. Len(q) BY <1>1, <1>6
<1>8. rest = SubSeq(q, m, Len(q)) BY <1>4, <1>5
<1>9. rest \in Seq(D) /\ rest[1] = q[m] BY <1>7, <1>8
<1>10. q[m] \in D BY <1>7
<1>11. PICK o \in Range(orphans) : Parent[o] = q[m] BY <1>1, <1>6
<1>12. PICK S : S = {n \in 1 .. Len(orphans) : Parent[orphans[n]] = q[m]} OBVIOUS
<1>13. S /= {} /\ Len(orphans) \in Nat
  <2>1. PICK n \in DOMAIN orphans : orphans[n] = o BY <1>11 DEF Range
  <2>2. n \in 1 .. Len(orphans) BY <2>1
  <2>. QED BY <2>1, <2>2, <1>11, <1>12
<1>14. i = Min(S) BY <1>2, <1>9, <1>12
<1>15. i \in S
  <2>1. S \in SUBSET (1 .. Len(orphans)) BY <1>12
  <2>. QED BY <2>1, <1>13, <1>14, MinFacts
<1>16. i \in 1 .. Len(orphans) /\ Parent[orphans[i]] = q[m] BY <1>12, <1>15
<1>17. orphans[i] \in Range(orphans)
  <2>1. DOMAIN orphans = 1 .. Len(orphans) OBVIOUS
  <2>. QED BY <2>1, <1>16 DEF Range
<1>. QED BY <1>2, <1>9, <1>10, <1>16, <1>17

LEMMA BaseAccepted == ASSUME BaseOK, NEW c \in Callers, Accepted(c) PROVE BaseOK'
<1>1. Runs(c) /\ job[c].at = "accepted" BY DEF Accepted, At
<1>2. PICK j \in JobType : j = job[c] /\ j.at = "accepted" /\ JobOK(j, DOMAIN index, env)
  BY <1>1, CallFacts
<1>3. PICK q : q = Append(j.queue, j.block) OBVIOUS
<1>4. PICK rest : rest = HaveOrphans(q) OBVIOUS
<1>5. PICK i : i = Min({n \in 1 .. Len(orphans) : Parent[orphans[n]] = rest[1]}) OBVIOUS
<1>6. /\ UNCHANGED <<env, chainTips, index, modified, bestChain, oldestOrphan, checkpointNode,
                     nextCheckpoint, stakeNodes, blockCache, diskIndex, diskBest>>
      /\ CountOK'
  BY DEF Accepted, cps, disk, count, BaseOK, CountOK
<1>7. IndexOK /\ DiskOK /\ PoolOK /\ MemoryOK BY DEF BaseOK
<1>8. \/ Returns(c) /\ orphans' = orphans
      \/ /\ rest /= <<>> /\ orphans' = Without(orphans, orphans[i])
         /\ Locked(c, [j EXCEPT !.at = "accept", !.block = orphans[i], !.queue = rest])
  BY <1>2, <1>3, <1>4, <1>5 DEF Accepted
<1>9. CASE Returns(c) /\ orphans' = orphans
  <2>1. job' = [job EXCEPT ![c] = Idle] /\ chainLock' = Nobody BY <1>9 DEF Returns, Notifies
  <2>2. PICK k : k = Idle OBVIOUS
  <2>3. k \in JobType /\ JobOK(k, DOMAIN index, env) /\ HoldOK(k, index, Range(orphans), env)
        /\ k.at \notin Holding
    BY <2>2, IdleFacts DEF Holding
  <2>. QED BY <1>1, <1>6, <1>9, <2>1, <2>2, <2>3, BaseJob
<1>10. CASE /\ rest /= <<>> /\ orphans' = Without(orphans, orphans[i])
            /\ Locked(c, [j EXCEPT !.at = "accept", !.block = orphans[i], !.queue = rest])
  <2>1. env.sent \subseteq Blocks \ {Genesis} /\ DOMAIN index \subseteq Blocks
    BY <1>7, EnvFacts, ChainFacts DEF IndexOK
  <2>2. orphans \in Seq(env.sent) /\ Distinct(orphans) BY <1>7 DEF PoolOK
  <2>3. orphans \in Seq(Blocks) BY <2>1, <2>2
  <2>4. q \in Seq(DOMAIN index)
    <3>1. PICK s \in Seq(Blocks) : s = j.queue BY DEF JobType
    <3>2. Range(s) \subseteq DOMAIN index /\ j.block \in DOMAIN index BY <1>2, <3>1 DEF JobOK, Connecting
    <3>3. \A n \in 1 .. Len(s) : s[n] \in DOMAIN index BY <3>2 DEF Range
    <3>4. s \in Seq(DOMAIN index) BY <3>3
    <3>. QED BY <1>3, <3>1, <3>2, <3>4
  <2>5. PICK D : D = DOMAIN index OBVIOUS
  <2>6. PICK o : o = orphans[i] OBVIOUS
  <2>7. rest \in Seq(D) /\ o \in Range(orphans) /\ Parent[o] \in D
    <3>1. HaveOrphans(q) /= <<>> BY <1>4, <1>10
    <3>2. i = Min({n \in 1 .. Len(orphans) : Parent[orphans[n]] = HaveOrphans(q)[1]}) BY <1>4, <1>5
    <3>3. HaveOrphans(q) \in Seq(D) /\ orphans[i] \in Range(orphans) /\ Parent[orphans[i]] \in D
      BY <2>3, <2>4, <2>5, <3>1, <3>2, OrphanOf
    <3>. QED BY <1>4, <2>6, <3>3
  <2>8. o \in env.sent /\ o \notin DOMAIN index /\ env.kind[o] /= "insane"
    <3>1. PICK n \in DOMAIN orphans : orphans[n] = o BY <2>7 DEF Range
    <3>2. o \in env.sent BY <3>1, <2>2
    <3>. QED BY <3>2, <2>7, <1>7 DEF PoolOK
  <2>9. PICK w : w = orphans' OBVIOUS
  <2>10. w \in Seq(env.sent) /\ Distinct(w) /\ Range(w) \subseteq Range(orphans) \ {o}
    <3>1. PICK s \in Seq(env.sent) : s = orphans BY <2>2
    <3>2. w = Without(s, o) /\ Distinct(s) BY <1>10, <2>2, <2>6, <2>9, <3>1
    <3>3. Without(s, o) \in Seq(env.sent) /\ Distinct(Without(s, o)) /\ Range(Without(s, o)) \subseteq Range(s) \ {o}
      BY <3>2, WithoutFacts
    <3>. QED BY <3>1, <3>2, <3>3
  <2>11. IndexOK' /\ DiskOK' BY <1>6, <1>7, ChainSame
  <2>12. MemoryOK' BY <1>6, <1>7, MemorySame
  <2>13. PoolOK'
    <3>1. Distinct(orphans)' BY <2>9, <2>10 DEF Distinct
    <3>2. Checkpoints' = Checkpoints BY <1>6 DEF Checkpoints
    <3>. QED BY <3>1, <3>2, <1>6, <1>7, <2>9, <2>10 DEF PoolOK
  <2>14. JobsOK'
    <3>1. "accept" \in Positions BY DEF Positions
    <3>2. PICK k : k = [j EXCEPT !.at = "accept", !.block = o, !.queue = rest] OBVIOUS
    <3>3. o \in Some /\ rest \in Seq(Blocks) BY <2>1, <2>5, <2>7, <2>8 DEF Some
    <3>4. /\ k \in JobType /\ k.at = "accept" /\ k.block = o /\ k.queue = rest /\ k.fast = j.fast
          /\ k.forced = j.forced
      BY <3>1, <3>2, <3>3 DEF JobType
    <3>5. Range(rest) \subseteq DOMAIN index BY <2>5, <2>7 DEF Range
    <3>6. JobOK(k, DOMAIN index', env) BY <1>2, <1>6, <3>4, <3>5 DEF JobOK, Connecting, Reorganizing, Moving
    <3>7. HoldOK(k, index', Range(orphans'), env)
      BY <1>6, <2>5, <2>7, <2>8, <2>9, <2>10, <3>4 DEF HoldOK
    <3>8. job' = [job EXCEPT ![c] = k] /\ chainLock' = c BY <1>10, <2>6, <3>2 DEF Locked
    <3>. QED BY <1>1, <1>6, <3>4, <3>6, <3>7, <3>8, JobsStep
  <2>. QED BY <1>6, <2>11, <2>12, <2>13, <2>14 DEF BaseOK
<1>. QED BY <1>8, <1>9, <1>10

-----------------------------------------------------------------------------
(* Reorganizations. *)

\* The blocks of a way lie above one another.
LEMMA WayAbove ==
    ASSUME NEW a \in Blocks, NEW g \in Blocks, NEW d, NEW t, Way(Path[a], g, d, t),
           NEW m \in 1 .. Len(t), NEW i \in 1 .. Len(t), m < i
    PROVE  /\ t[m] \in Blocks /\ t[i] \in Blocks /\ t[m] \in On(t[i]) /\ t[i] \notin On(t[m])
<1>1. PICK n : n = Len(Path[a]) - Len(d) OBVIOUS
<1>2. /\ d \in Seq(Blocks) /\ t \in Seq(Blocks) /\ Len(d) < Len(Path[a])
      /\ n + Len(t) = Len(Path[g]) /\ \A k \in 1 .. Len(t) : t[k] = Path[g][n + k]
  BY <1>1 DEF Way
<1>3. Path[a] \in Seq(Blocks) /\ Len(Path[a]) = Height[a] + 1 /\ Len(Path[g]) = Height[g] + 1
      /\ Height[g] \in Nat
  BY TreeFacts
<1>4. n \in Nat /\ Len(t) \in Nat BY <1>1, <1>2, <1>3
<1>5. n + m \in 1 .. Height[g] + 1 /\ n + i \in 1 .. Height[g] + 1 /\ n + m \in 1 .. n + i
  BY <1>2, <1>3, <1>4
<1>6. t[m] = Path[g][n + m] /\ t[i] = Path[g][n + i] BY <1>2
<1>7. /\ t[m] \in Blocks /\ Height[t[m]] = n + m - 1 /\ t[i] \in Blocks /\ Height[t[i]] = n + i - 1
  <2>1. PICK u \in 1 .. Height[g] + 1 : u = n + m BY <1>5
  <2>2. PICK v \in 1 .. Height[g] + 1 : v = n + i BY <1>5
  <2>3. Path[g][u] \in Blocks /\ Height[Path[g][u]] = u - 1 BY OnPath
  <2>4. Path[g][v] \in Blocks /\ Height[Path[g][v]] = v - 1 BY OnPath
  <2>5. t[m] = Path[g][u] /\ t[i] = Path[g][v] BY <1>6, <2>1, <2>2
  <2>6. t[m] \in Blocks /\ Height[t[m]] = u - 1 /\ t[i] \in Blocks /\ Height[t[i]] = v - 1
    BY <2>3, <2>4, <2>5
  <2>. QED BY <1>4, <2>1, <2>2, <2>6
<1>8. Path[t[i]][n + m] = t[m]
  <2>1. PathIsPaths(g) BY PathsOnPath
  <2>2. Path[Path[g][n + i]][n + m] = Path[g][n + m] BY <1>5, <2>1, <1>3 DEF PathIsPaths
  <2>. QED BY <1>6, <2>2
<1>9. t[m] \in On(t[i])
  <2>1. Height[t[m]] <= Height[t[i]] /\ Height[t[m]] + 1 = n + m BY <1>4, <1>7
  <2>. QED BY <1>7, <1>8, <2>1, OnByHeight
<1>10. t[i] \notin On(t[m])
  <2>1. SUFFICES ASSUME t[i] \in On(t[m]) PROVE FALSE OBVIOUS
  <2>2. Height[t[i]] <= Height[t[m]] BY <1>7, <2>1, OnFacts
  <2>. QED BY <1>4, <1>7, <2>2
<1>. QED BY <1>7, <1>9, <1>10

LEMMA TailFacts ==
    ASSUME NEW S, NEW s \in Seq(S), s /= <<>>
    PROVE  /\ Tail(s) \in Seq(S) /\ Len(Tail(s)) = Len(s) - 1 /\ Head(s) = s[1] /\ Head(s) \in Range(s)
           /\ \A i \in 1 .. Len(s) - 1 : Tail(s)[i] = s[i + 1]
           /\ Range(Tail(s)) \subseteq Range(s)
<1>1. /\ Tail(s) \in Seq(S) /\ Len(Tail(s)) = Len(s) - 1 /\ Head(s) = s[1]
      /\ \A i \in 1 .. Len(s) - 1 : Tail(s)[i] = s[i + 1]
  OBVIOUS
<1>2. DOMAIN s = 1 .. Len(s) /\ 1 \in 1 .. Len(s) OBVIOUS
<1>3. PICK t : t = Tail(s) OBVIOUS
<1>4. DOMAIN t = 1 .. Len(s) - 1 BY <1>1, <1>3
<1>5. Range(t) \subseteq Range(s)
  <2>1. \A i \in 1 .. Len(s) - 1 : i + 1 \in 1 .. Len(s) OBVIOUS
  <2>. QED BY <1>1, <1>2, <1>3, <1>4, <2>1 DEF Range
<1>. QED BY <1>1, <1>2, <1>3, <1>5 DEF Range

\* Of blocks put on one another, the first is below the others.
LEMMA ChainAbove ==
    ASSUME NEW s \in Seq(Blocks), s /= <<>>, Genesis \notin Range(s),
           Linked(s)
    PROVE  \A x \in Range(Tail(s)) : Head(s) \in On(x) /\ Head(s) /= x
<1>. DEFINE T == {n \in Nat : n + 1 <= Len(s) =>
                    s[1] \in On(s[n + 1]) /\ (n >= 1 => Height[s[n + 1]] > Height[s[1]])}
<1>0. DOMAIN s = 1 .. Len(s) /\ Len(s) \in Nat /\ Len(s) >= 1 OBVIOUS
<1>1. 0 \in T
  <2>1. s[1] \in Blocks BY <1>0
  <2>2. s[1] \in On(s[1]) BY <2>1, OnSelf
  <2>. QED BY <2>2
<1>2. ASSUME NEW n \in Nat, n \in T PROVE n + 1 \in T
  <2>1. SUFFICES ASSUME (n + 1) + 1 <= Len(s)
                 PROVE  s[1] \in On(s[(n + 1) + 1]) /\ Height[s[(n + 1) + 1]] > Height[s[1]]
    OBVIOUS
  <2>2. n + 2 \in 2 .. Len(s) /\ (n + 2) - 1 = n + 1 /\ n + 2 \in 1 .. Len(s) /\ n + 1 \in 1 .. Len(s)
        /\ (n + 1) + 1 = n + 2 /\ n + 1 <= Len(s)
    BY <2>1, <1>0
  <2>3. Parent[s[n + 2]] = s[n + 1] BY <2>2 DEF Linked
  <2>4. s[n + 2] \in Blocks /\ s[n + 2] /= Genesis /\ s[n + 1] \in Blocks /\ s[1] \in Blocks
    <3>1. 1 \in 1 .. Len(s) BY <1>0
    <3>2. \A i \in 1 .. Len(s) : s[i] \in Blocks OBVIOUS
    <3>3. \A i \in DOMAIN s : s[i] \in Range(s) BY DEF Range
    <3>. QED BY <1>0, <2>2, <3>1, <3>2, <3>3
  <2>5. s[1] \in On(s[n + 1]) /\ (n >= 1 => Height[s[n + 1]] > Height[s[1]]) BY <2>2, <1>2
  <2>6. s[1] \in On(s[n + 2]) BY <2>3, <2>4, <2>5, OnChild
  <2>7. Height[s[n + 2]] = Height[s[n + 1]] + 1 /\ Height[s[n + 1]] \in Nat /\ Height[s[1]] \in Nat
    BY <2>3, <2>4, TreeFacts
  <2>8. n = 0 \/ n >= 1 OBVIOUS
  <2>9. Height[s[n + 2]] > Height[s[1]]
    <3>1. CASE n = 0 BY <3>1, <2>7
    <3>2. CASE n >= 1 BY <3>2, <2>5, <2>7
    <3>. QED BY <2>8, <3>1, <3>2
  <2>. QED BY <2>2, <2>6, <2>9
<1>. HIDE DEF T
<1>3. \A n \in Nat : n \in T BY <1>1, <1>2, Induction
<1>4. SUFFICES ASSUME NEW x \in Range(Tail(s)) PROVE Head(s) \in On(x) /\ Head(s) /= x OBVIOUS
<1>5. PICK t : t = Tail(s) OBVIOUS
<1>6. t \in Seq(Blocks) /\ Len(t) = Len(s) - 1 /\ Head(s) = s[1]
      /\ \A i \in 1 .. Len(s) - 1 : t[i] = s[i + 1]
  BY <1>5, TailFacts
<1>7. PICK i \in DOMAIN t : x = t[i] BY <1>5 DEF Range
<1>8. i \in 1 .. Len(s) - 1 BY <1>6
<1>9. i \in Nat /\ i >= 1 /\ i + 1 <= Len(s) BY <1>0, <1>8
<1>10. x = s[i + 1] BY <1>6, <1>7, <1>8
<1>11. s[1] \in On(s[i + 1]) /\ Height[s[i + 1]] > Height[s[1]] BY <1>3, <1>9 DEF T
<1>12. Height[s[1]] \in Nat
  <2>1. s[1] \in Blocks BY <1>0
  <2>. QED BY <2>1, TreeFacts
<1>. QED BY <1>6, <1>10, <1>11, <1>12

\* The plan of a way to a block of the index.
LEMMA PlanFacts ==
    ASSUME IndexOK, DiskOK, NEW c, NEW j \in JobType, j = job[c], JobOK(j, DOMAIN index, env),
           j.at \in {"reorg", "reorging"}, NEW t \in DOMAIN index, NEW back \in BOOLEAN,
           NEW k, k = Plan(c, t, back)
    PROVE  /\ k \in JobType /\ k.at = "reorging" /\ k.back = back /\ k.block = j.block
           /\ k.target = j.target /\ k.orig = j.orig /\ k.queue = j.queue /\ k.forced = j.forced
           /\ k.detach = Detached(Path[diskBest], t) /\ k.attach = Attached(Path[diskBest], t)
           /\ Way(Path[diskBest], t, k.detach, k.attach)
           /\ JobOK(k, DOMAIN index, env)
<1>1. /\ diskBest \in Blocks /\ bestChain = Path[diskBest] /\ On(diskBest) \subseteq DOMAIN index
      /\ t \in Blocks /\ On(t) \subseteq DOMAIN index
  BY ChainFacts DEF DiskOK
<1>2. PICK d : d = Detached(Path[diskBest], t) OBVIOUS
<1>3. PICK a : a = Attached(Path[diskBest], t) OBVIOUS
<1>4. Way(Path[diskBest], t, d, a) BY <1>1, <1>2, <1>3, PlanIsWay
<1>5. d \in Seq(Blocks) /\ a \in Seq(Blocks) BY <1>4 DEF Way
<1>6. /\ Range(d) \subseteq On(diskBest) /\ Range(a) \subseteq On(t) /\ Genesis \notin Range(a)
      /\ Linked(a)
  BY <1>1, <1>4, WayBlocks
<1>7. k = [j EXCEPT !.at = "reorging", !.back = back, !.detach = d, !.attach = a]
  BY <1>1, <1>2, <1>3 DEF Plan
<1>8. "reorging" \in Positions BY DEF Positions
<1>9. /\ k \in JobType /\ k.at = "reorging" /\ k.back = back /\ k.block = j.block
      /\ k.target = j.target /\ k.orig = j.orig /\ k.queue = j.queue /\ k.forced = j.forced
      /\ k.detach = d /\ k.attach = a /\ k.fast = j.fast
  BY <1>5, <1>7, <1>8 DEF JobType
<1>10. JobOK(k, DOMAIN index, env)
  <2>1. /\ (j.fast => env.checkpoints /= <<>>) /\ Range(j.queue) \subseteq DOMAIN index
        /\ j.target \in DOMAIN index /\ j.orig \in DOMAIN index
        /\ (~j.forced => j.block \in DOMAIN index /\ j.block /= Genesis)
    BY DEF JobOK, Reorganizing
  <2>2. Range(d) \subseteq DOMAIN index /\ Range(a) \subseteq DOMAIN index BY <1>1, <1>6
  <2>. QED BY <1>6, <1>9, <2>1, <2>2 DEF JobOK, Connecting, Reorganizing, Moving
<1>. QED BY <1>2, <1>3, <1>4, <1>9, <1>10

LEMMA BaseGoBack ==
    ASSUME BaseOK, NEW c \in Callers, Runs(c), job[c].at \in {"reorg", "reorging"}, NEW idx,
           IndexType(idx), DOMAIN idx = DOMAIN index, \A b \in DOMAIN index : index[b] \subseteq idx[b],
           FlagsOK(idx, env.kind, FlagsTrusted), GoBack(c, idx), CountOK',
           UNCHANGED <<env, chainTips, bestChain, orphans, oldestOrphan, checkpointNode,
                       nextCheckpoint, stakeNodes, blockCache, diskIndex, diskBest>>
    PROVE  BaseOK'
<1>1. index' = idx /\ modified' = modified \cup Changed(index, idx) BY DEF GoBack
<1>2. IndexOK /\ DiskOK /\ PoolOK /\ MemoryOK BY DEF BaseOK
<1>3. IndexOK' /\ DiskOK' BY <1>1, <1>2, ChainMark
<1>4. DOMAIN index' = DOMAIN index BY <1>1
<1>5. PoolOK' BY <1>2, <1>4, PoolSame
<1>6. MemoryOK' BY <1>2, <1>4, MemorySame
<1>7. JobsOK'
  <2>1. CASE UNCHANGED <<job, chainLock>> BY <2>1, <1>4, JobsPanic
  <2>2. CASE Locked(c, Plan(c, job[c].orig, TRUE))
    <3>1. PICK j \in JobType : j = job[c] /\ JobOK(j, DOMAIN index, env) BY CallFacts
    <3>2. j.orig \in DOMAIN index BY <3>1 DEF JobOK, Reorganizing
    <3>3. PICK k : k = Plan(c, j.orig, TRUE) OBVIOUS
    <3>4. k \in JobType /\ k.at = "reorging" /\ JobOK(k, DOMAIN index, env)
      <4>1. j.at \in {"reorg", "reorging"} BY <3>1
      <4>2. PICK back \in BOOLEAN : back = TRUE OBVIOUS
      <4>3. PICK t \in DOMAIN index : t = j.orig BY <3>2
      <4>4. k = Plan(c, t, back) BY <3>3, <4>2, <4>3
      <4>. QED BY <1>2, <3>1, <4>1, <4>4, PlanFacts
    <3>5. HoldOK(k, index', Range(orphans'), env) BY <3>4 DEF HoldOK
    <3>6. job' = [job EXCEPT ![c] = k] /\ chainLock' = c BY <2>2, <3>1, <3>3 DEF Locked
    <3>7. JobOK(k, DOMAIN index', env) BY <1>4, <3>4
    <3>. QED BY <1>4, <3>4, <3>5, <3>6, <3>7, JobsStep
  <2>. QED BY <2>1, <2>2 DEF GoBack
<1>. QED BY <1>3, <1>5, <1>6, <1>7 DEF BaseOK

\* The flags that reorganizeChainInternal sets above a block that is known to
\* be invalid.
LEMMA AboveFacts ==
    ASSUME IndexOK, DiskOK, NEW t \in DOMAIN index, BadOnTheWay(t) /= {}, NEW above,
           above = {Attached(bestChain, t)[i] :
                      i \in {n \in 1 .. Len(Attached(bestChain, t)) : n > Max(BadOnTheWay(t))}}
    PROVE  /\ FlagsOK(SetStatusFlags(index, above, "badAncestor"), env.kind, FlagsTrusted)
           /\ \E a \in On(t) : a \in DOMAIN index /\ env.kind[a] = "invalid"
<1>1. /\ diskBest \in Blocks /\ bestChain = Path[diskBest] /\ On(diskBest) \subseteq DOMAIN index
      /\ t \in Blocks /\ On(t) \subseteq DOMAIN index
  BY ChainFacts DEF DiskOK
<1>2. PICK d : d = Detached(Path[diskBest], t) OBVIOUS
<1>3. PICK way : way = Attached(Path[diskBest], t) OBVIOUS
<1>4. Way(Path[diskBest], t, d, way) BY <1>1, <1>2, <1>3, PlanIsWay
<1>5. way \in Seq(Blocks) /\ Len(way) \in Nat BY <1>4 DEF Way
<1>6. Range(way) \subseteq On(t) BY <1>1, <1>4, WayBlocks
<1>7. PICK bad : bad = BadOnTheWay(t) OBVIOUS
<1>8. bad = {i \in 1 .. Len(way) : KnownInvalid(index[way[i]])} BY <1>1, <1>3, <1>7 DEF BadOnTheWay
<1>9. PICK m : m = Max(bad) OBVIOUS
<1>10. m \in bad
  <2>1. bad \in SUBSET (1 .. Len(way)) /\ bad /= {} BY <1>7, <1>8
  <2>. QED BY <1>5, <1>9, <2>1, MaxFacts
<1>11. m \in 1 .. Len(way) /\ KnownInvalid(index[way[m]]) BY <1>8, <1>10
<1>12. PICK w : w = way[m] OBVIOUS
<1>13. w \in On(t) /\ w \in DOMAIN index /\ KnownInvalid(index[w])
  <2>1. DOMAIN way = 1 .. Len(way) BY <1>5
  <2>2. way[m] \in Range(way) BY <1>11, <2>1 DEF Range
  <2>. QED BY <1>1, <1>6, <1>11, <1>12, <2>2
<1>14. IndexType(index) /\ FlagsOK(index, env.kind, FlagsTrusted) BY DEF IndexOK
<1>15. PICK a \in On(w) : a \in DOMAIN index /\ "failed" \in index[a] /\ env.kind[a] = "invalid"
  BY <1>13, <1>14, InvalidPath
<1>16. ASSUME NEW x \in above
       PROVE  \E y \in On(x) : y /= x /\ y \in DOMAIN index /\ "failed" \in index[y]
  <2>1. above = {way[i] : i \in {n \in 1 .. Len(way) : n > m}} BY <1>1, <1>3, <1>7, <1>9
  <2>2. PICK i \in 1 .. Len(way) : i > m /\ x = way[i] BY <2>1
  <2>3. m < i BY <2>2, <1>11
  <2>4. way[m] \in Blocks /\ way[i] \in Blocks /\ way[m] \in On(way[i]) /\ way[i] \notin On(way[m])
    BY <1>1, <1>4, <1>11, <2>3, WayAbove
  <2>5. x \in Blocks /\ w \in On(x) /\ x \notin On(w) BY <2>2, <2>4, <1>12
  <2>6. a \in On(x) BY <2>5, OnTransitive
  <2>. QED BY <2>5, <2>6, <1>15
<1>17. FlagsOK(SetStatusFlags(index, above, "badAncestor"), env.kind, FlagsTrusted)
  BY <1>14, <1>16, BadAncestorFacts
<1>18. a \in On(t) BY <1>1, <1>13, OnTransitive
<1>. QED BY <1>15, <1>17, <1>18

LEMMA BaseReorg == ASSUME BaseOK, NEW c \in Callers, Reorg(c) PROVE BaseOK'
<1>1. Runs(c) /\ job[c].at = "reorg" BY DEF Reorg, At
<1>2. PICK j \in JobType : j = job[c] /\ j.at = "reorg" /\ JobOK(j, DOMAIN index, env)
  BY <1>1, CallFacts
<1>3. PICK t \in DOMAIN index : t = j.target BY <1>2 DEF JobOK, Reorganizing
<1>4. /\ UNCHANGED <<env, chainTips, bestChain, orphans, oldestOrphan, checkpointNode,
                     nextCheckpoint, stakeNodes, blockCache, diskIndex, diskBest>>
      /\ restarts' = restarts /\ faults' = faults
  BY DEF Reorg, pool, cps, disk, count
<1>5. IndexOK /\ DiskOK BY DEF BaseOK
<1>6. CASE BadOnTheWay(t) = {}
  <2>1. Locked(c, Plan(c, t, FALSE)) /\ UNCHANGED <<index, modified, panicked>>
    BY <1>2, <1>3, <1>6 DEF Reorg
  <2>2. PICK k : k = Plan(c, t, FALSE) OBVIOUS
  <2>3. k \in JobType /\ k.at = "reorging" /\ JobOK(k, DOMAIN index, env)
    <3>1. j.at \in {"reorg", "reorging"} BY <1>2
    <3>2. PICK back \in BOOLEAN : back = FALSE OBVIOUS
    <3>3. k = Plan(c, t, back) BY <2>2, <3>2
    <3>. QED BY <1>2, <1>5, <3>1, <3>3, PlanFacts
  <2>4. HoldOK(k, index, Range(orphans), env) BY <2>3 DEF HoldOK
  <2>5. job' = [job EXCEPT ![c] = k] /\ chainLock' = c BY <2>1, <2>2 DEF Locked
  <2>6. CountOK' BY <1>4, <2>1 DEF BaseOK, CountOK
  <2>. QED BY <1>1, <1>4, <2>1, <2>3, <2>4, <2>5, <2>6, BaseJob
<1>7. CASE BadOnTheWay(t) /= {}
  <2>1. PICK bad : bad = BadOnTheWay(t) OBVIOUS
  <2>2. PICK way : way = Attached(bestChain, t) OBVIOUS
  <2>3. PICK above : above = {way[i] : i \in {n \in 1 .. Len(way) : n > Max(bad)}} OBVIOUS
  <2>4. GoBack(c, SetStatusFlags(index, above, "badAncestor"))
    <3>1. {way[i] : i \in {n \in 1 .. Len(way) : bad /= {} /\ n > Max(bad)}} = above BY <1>7, <2>1, <2>3
    <3>. QED BY <1>2, <1>3, <1>7, <2>1, <2>2, <3>1 DEF Reorg
  <2>5. PICK idx : idx = SetStatusFlags(index, above, "badAncestor") OBVIOUS
  <2>6. FlagsOK(idx, env.kind, FlagsTrusted)
    <3>1. above = {Attached(bestChain, t)[i] :
                      i \in {n \in 1 .. Len(Attached(bestChain, t)) : n > Max(BadOnTheWay(t))}}
      BY <2>1, <2>2, <2>3
    <3>2. FlagsOK(SetStatusFlags(index, above, "badAncestor"), env.kind, FlagsTrusted)
      BY <1>5, <1>7, <3>1, AboveFacts
    <3>. QED BY <2>5, <3>2
  <2>7. /\ IndexType(idx) /\ DOMAIN idx = DOMAIN index
        /\ \A b \in DOMAIN index : index[b] \subseteq idx[b]
    <3>1. IndexType(index) BY <1>5 DEF IndexOK
    <3>2. PICK f \in Flags : f = "badAncestor" BY DEF Flags
    <3>3. /\ IndexType(SetStatusFlags(index, above, f)) /\ DOMAIN SetStatusFlags(index, above, f) = DOMAIN index
          /\ \A b \in DOMAIN index : index[b] \subseteq SetStatusFlags(index, above, f)[b]
      BY <3>1, SetStatusFacts
    <3>. QED BY <2>5, <3>2, <3>3
  <2>8. CountOK'
    <3>1. panicked' \in BOOLEAN BY <2>4 DEF GoBack, BaseOK, CountOK
    <3>. QED BY <3>1, <1>4 DEF BaseOK, CountOK
  <2>9. GoBack(c, idx) BY <2>4, <2>5
  <2>10. job[c].at \in {"reorg", "reorging"} BY <1>1
  <2>. QED BY <1>1, <1>4, <2>6, <2>7, <2>8, <2>9, <2>10, BaseGoBack
<1>. QED BY <1>6, <1>7

LEMMA LinkedTail ==
    ASSUME NEW s \in Seq(Blocks), s /= <<>>, Linked(s) PROVE Linked(Tail(s))
<1>1. PICK t : t = Tail(s) OBVIOUS
<1>2. t \in Seq(Blocks) /\ Len(t) = Len(s) - 1 /\ \A i \in 1 .. Len(s) - 1 : t[i] = s[i + 1]
  BY <1>1, TailFacts
<1>3. ASSUME NEW i \in 2 .. Len(t) PROVE Parent[t[i]] = t[i - 1]
  <2>1. Len(s) \in Nat OBVIOUS
  <2>2. /\ i \in 1 .. Len(s) - 1 /\ i - 1 \in 1 .. Len(s) - 1 /\ (i - 1) + 1 = i /\ i + 1 \in 2 .. Len(s)
        /\ (i + 1) - 1 = i
    BY <1>2, <2>1
  <2>3. t[i] = s[i + 1] /\ t[i - 1] = s[i] BY <1>2, <2>2
  <2>4. Parent[s[i + 1]] = s[i] BY <2>2 DEF Linked
  <2>. QED BY <2>3, <2>4
<1>. QED BY <1>1, <1>3 DEF Linked

\* Of a job that takes blocks off and puts blocks on.
LEMMA MovingFacts ==
    ASSUME NEW j \in JobType, NEW D, NEW e, JobOK(j, D, e), j.at = "reorging"
    PROVE  /\ j.detach \in Seq(Blocks) /\ j.attach \in Seq(Blocks) /\ Linked(j.attach)
           /\ Range(j.detach) \subseteq D /\ Range(j.attach) \subseteq D /\ Genesis \notin Range(j.attach)
           /\ j.target \in D /\ j.orig \in D /\ (~j.forced => j.block \in D /\ j.block /= Genesis)
           /\ (j.fast => e.checkpoints /= <<>>) /\ Range(j.queue) \subseteq D
BY DEF JobOK, JobType, Moving, Reorganizing

LEMMA BaseDetach == ASSUME BaseOK, NEW c \in Callers, Detach(c) PROVE BaseOK'
<1>1. Runs(c) /\ job[c].at = "reorging" /\ job[c].detach /= <<>> BY DEF Detach, At
<1>2. PICK j \in JobType : j = job[c] /\ j.at = "reorging" /\ j.detach /= <<>> /\ JobOK(j, DOMAIN index, env)
  BY <1>1, CallFacts
<1>3. PICK b : b = Head(j.detach) OBVIOUS
<1>4. IndexOK /\ DiskOK /\ PoolOK /\ MemoryOK BY DEF BaseOK
<1>5. CASE Panics BY <1>1, <1>5, BasePanic
<1>6. CASE GoBack(c, index) /\ UNCHANGED <<env, chainTips, bestChain, pool, cps, stakeNodes, blockCache, disk, count>>
  <2>1. /\ UNCHANGED <<env, chainTips, bestChain, orphans, oldestOrphan, checkpointNode,
                       nextCheckpoint, stakeNodes, blockCache, diskIndex, diskBest>>
        /\ restarts' = restarts /\ faults' = faults
    BY <1>6 DEF pool, cps, disk, count
  <2>2. PICK idx : idx = index OBVIOUS
  <2>3. IndexType(idx) /\ FlagsOK(idx, env.kind, FlagsTrusted) BY <1>4, <2>2 DEF IndexOK
  <2>4. GoBack(c, idx) /\ DOMAIN idx = DOMAIN index /\ \A x \in DOMAIN index : index[x] \subseteq idx[x]
    BY <1>6, <2>2
  <2>5. CountOK'
    <3>1. panicked' \in BOOLEAN BY <1>6 DEF GoBack, BaseOK, CountOK
    <3>. QED BY <3>1, <2>1 DEF BaseOK, CountOK
  <2>6. job[c].at \in {"reorg", "reorging"} BY <1>1
  <2>. QED BY <1>1, <2>1, <2>3, <2>4, <2>5, <2>6, BaseGoBack
<1>7. CASE /\ b = Tip /\ Disconnected(b)
           /\ Notifies(c, [j EXCEPT !.at = "detached", !.moved = b, !.detach = Tail(@)])
           /\ UNCHANGED <<env, chainTips, index, pool, cps, blockCache, panicked, count>>
  <2>1. /\ UNCHANGED <<env, chainTips, index, orphans, oldestOrphan, checkpointNode, nextCheckpoint, blockCache>>
        /\ CountOK'
    BY <1>7 DEF pool, cps, count, BaseOK, CountOK
  <2>2. b = diskBest BY <1>4, <1>7, ChainFacts
  <2>3. Disconnected(diskBest) BY <1>7, <2>2
  <2>4. /\ IndexOK' /\ DiskOK' /\ stakeNodes' \subseteq DOMAIN index /\ diskBest' \in stakeNodes'
    BY <1>4, <2>1, <2>3, ChainDisconnect
  <2>5. blockCache' \subseteq DOMAIN index BY <1>4, <2>1 DEF MemoryOK
  <2>6. MemoryOK' BY <1>4, <2>1, <2>4, <2>5, MemoryMoved
  <2>7. PoolOK' BY <1>4, <2>1, PoolSame
  <2>8. JobsOK'
    <3>1. /\ j.detach \in Seq(Blocks) /\ j.attach \in Seq(Blocks) /\ Linked(j.attach)
          /\ Range(j.detach) \subseteq DOMAIN index /\ Range(j.attach) \subseteq DOMAIN index
          /\ Genesis \notin Range(j.attach)
          /\ j.target \in DOMAIN index /\ j.orig \in DOMAIN index
          /\ (~j.forced => j.block \in DOMAIN index /\ j.block /= Genesis)
          /\ (j.fast => env.checkpoints /= <<>>) /\ Range(j.queue) \subseteq DOMAIN index
      BY <1>2, MovingFacts
    <3>2. PICK d : d = Tail(j.detach) OBVIOUS
    <3>3. PICK s \in Seq(Blocks) : s = j.detach BY <3>1
    <3>4. d \in Seq(Blocks) /\ Range(d) \subseteq Range(j.detach) BY <1>2, <3>2, <3>3, TailFacts
    <3>5. PICK k : k = [j EXCEPT !.at = "detached", !.moved = b, !.detach = Tail(@)] OBVIOUS
    <3>6. b \in Some /\ b \in DOMAIN index BY <1>4, <2>2, ChainFacts DEF DiskOK, Some
    <3>7. "detached" \in Positions BY DEF Positions
    <3>8. k = [j EXCEPT !.at = "detached", !.moved = b, !.detach = d] BY <3>2, <3>5
    <3>9. /\ k \in JobType /\ k.at = "detached" /\ k.block = j.block /\ k.queue = j.queue
          /\ k.fast = j.fast /\ k.forced = j.forced /\ k.target = j.target /\ k.orig = j.orig
          /\ k.detach = d /\ k.attach = j.attach /\ k.moved = b
      BY <3>4, <3>6, <3>7, <3>8 DEF JobType
    <3>10. Range(d) \subseteq DOMAIN index BY <3>1, <3>4
    <3>11. JobOK(k, DOMAIN index', env)
      BY <2>1, <3>1, <3>6, <3>9, <3>10 DEF JobOK, Connecting, Reorganizing, Moving
    <3>12. HoldOK(k, index', Range(orphans'), env) /\ k.at \notin Holding BY <3>9 DEF HoldOK, Holding
    <3>13. job' = [job EXCEPT ![c] = k] /\ chainLock' = Nobody BY <1>7, <3>5 DEF Notifies
    <3>. QED BY <1>1, <2>1, <3>9, <3>11, <3>12, <3>13, JobsStep
  <2>. QED BY <2>1, <2>4, <2>6, <2>7, <2>8 DEF BaseOK
<1>. QED BY <1>2, <1>3, <1>5, <1>6, <1>7 DEF Detach

\* The flags when the first block to put on fails.
LEMMA FailedFacts ==
    ASSUME IndexOK, NEW s \in Seq(Blocks), s /= <<>>, Range(s) \subseteq DOMAIN index,
           Genesis \notin Range(s), Linked(s), env.kind[Head(s)] = "invalid",
           "valid" \notin index[Head(s)], NEW idx, idx = FailedToConnect(s)
    PROVE  /\ IndexType(idx) /\ DOMAIN idx = DOMAIN index /\ \A b \in DOMAIN index : index[b] \subseteq idx[b]
           /\ FlagsOK(idx, env.kind, FlagsTrusted)
<1>1. IndexType(index) /\ FlagsOK(index, env.kind, FlagsTrusted) BY DEF IndexOK
<1>2. PICK h : h = Head(s) OBVIOUS
<1>3. h \in DOMAIN index BY <1>2, TailFacts
<1>4. PICK S : S = {h} OBVIOUS
<1>5. PICK R : R = Range(Tail(s)) OBVIOUS
<1>6. PICK f \in Flags : f = "failed" BY DEF Flags
<1>7. PICK g \in Flags : g = "badAncestor" BY DEF Flags
<1>8. PICK one : one = SetStatusFlags(index, S, f) OBVIOUS
<1>9. /\ IndexType(one) /\ DOMAIN one = DOMAIN index
      /\ \A b \in DOMAIN index : one[b] = (IF b \in S THEN index[b] \cup {f} ELSE index[b]) /\ index[b] \subseteq one[b]
  <2>1. /\ IndexType(SetStatusFlags(index, S, f)) /\ DOMAIN SetStatusFlags(index, S, f) = DOMAIN index
        /\ \A x \in DOMAIN index :
             /\ SetStatusFlags(index, S, f)[x] = IF x \in S THEN index[x] \cup {f} ELSE index[x]
             /\ index[x] \subseteq SetStatusFlags(index, S, f)[x]
    BY <1>1, SetStatusFacts
  <2>. QED BY <1>8, <2>1
<1>10. FlagsOK(one, env.kind, FlagsTrusted)
  <2>1. FlagsOK(SetStatusFlags(index, {h}, "failed"), env.kind, FlagsTrusted) BY <1>1, <1>2, <1>3, FailFacts
  <2>. QED BY <1>4, <1>6, <1>8, <2>1
<1>11. idx = SetStatusFlags(one, R, g) BY <1>2, <1>4, <1>5, <1>6, <1>7, <1>8 DEF FailedToConnect
<1>12. /\ IndexType(idx) /\ DOMAIN idx = DOMAIN one /\ \A b \in DOMAIN one : one[b] \subseteq idx[b]
  <2>1. /\ IndexType(SetStatusFlags(one, R, g)) /\ DOMAIN SetStatusFlags(one, R, g) = DOMAIN one
        /\ \A x \in DOMAIN one :
             /\ SetStatusFlags(one, R, g)[x] = IF x \in R THEN one[x] \cup {g} ELSE one[x]
             /\ one[x] \subseteq SetStatusFlags(one, R, g)[x]
    BY <1>9, SetStatusFacts
  <2>. QED BY <1>11, <2>1
<1>13. ASSUME NEW x \in R PROVE \E a \in On(x) : a /= x /\ a \in DOMAIN one /\ "failed" \in one[a]
  <2>1. h \in On(x) /\ h /= x BY <1>2, <1>5, ChainAbove
  <2>2. h \in DOMAIN one /\ "failed" \in one[h] BY <1>3, <1>4, <1>6, <1>9
  <2>. QED BY <2>1, <2>2
<1>14. FlagsOK(SetStatusFlags(one, R, "badAncestor"), env.kind, FlagsTrusted)
  BY <1>9, <1>10, <1>13, BadAncestorFacts
<1>15. FlagsOK(idx, env.kind, FlagsTrusted) BY <1>7, <1>11, <1>14
<1>. QED BY <1>9, <1>12, <1>15

LEMMA BaseAttach == ASSUME BaseOK, NEW c \in Callers, Attach(c) PROVE BaseOK'
<1>1. Runs(c) /\ job[c].at = "reorging" /\ job[c].attach /= <<>> BY DEF Attach, At
<1>2. PICK j \in JobType : j = job[c] /\ j.at = "reorging" /\ j.attach /= <<>> /\ JobOK(j, DOMAIN index, env)
  BY <1>1, CallFacts
<1>3. PICK b : b = Head(j.attach) OBVIOUS
<1>4. IndexOK /\ DiskOK /\ PoolOK /\ MemoryOK BY DEF BaseOK
<1>5. /\ j.detach \in Seq(Blocks) /\ j.attach \in Seq(Blocks) /\ Linked(j.attach)
      /\ Range(j.detach) \subseteq DOMAIN index /\ Range(j.attach) \subseteq DOMAIN index
      /\ Genesis \notin Range(j.attach)
      /\ j.target \in DOMAIN index /\ j.orig \in DOMAIN index
      /\ (~j.forced => j.block \in DOMAIN index /\ j.block /= Genesis)
      /\ (j.fast => env.checkpoints /= <<>>) /\ Range(j.queue) \subseteq DOMAIN index
  BY <1>2, MovingFacts
<1>6. PICK s \in Seq(Blocks) : s = j.attach BY <1>5
<1>7. Tail(s) \in Seq(Blocks) /\ Range(Tail(s)) \subseteq Range(s) /\ Head(s) \in Range(s) /\ Linked(Tail(s))
  BY <1>2, <1>5, <1>6, TailFacts, LinkedTail
<1>8. b \in DOMAIN index /\ b /= Genesis BY <1>3, <1>5, <1>6, <1>7
<1>9. CASE Panics BY <1>1, <1>9, BasePanic
<1>10. ASSUME NEW idx, GoBack(c, idx), Fault \/ NoFault, IndexType(idx), DOMAIN idx = DOMAIN index,
              \A x \in DOMAIN index : index[x] \subseteq idx[x], FlagsOK(idx, env.kind, FlagsTrusted),
              UNCHANGED <<env, chainTips, bestChain, pool, cps, stakeNodes, blockCache, disk, restarts>>
       PROVE  BaseOK'
  <2>1. /\ UNCHANGED <<env, chainTips, bestChain, orphans, oldestOrphan, checkpointNode,
                       nextCheckpoint, stakeNodes, blockCache, diskIndex, diskBest>>
        /\ restarts' = restarts
    BY <1>10 DEF pool, cps, disk
  <2>2. CountOK'
    <3>1. panicked' \in BOOLEAN BY <1>10 DEF GoBack, BaseOK, CountOK
    <3>2. faults' \in Nat BY <1>10 DEF Fault, NoFault, BaseOK, CountOK
    <3>. QED BY <3>1, <3>2, <2>1 DEF BaseOK, CountOK
  <2>3. job[c].at \in {"reorg", "reorging"} BY <1>1
  <2>. QED BY <1>1, <1>10, <2>1, <2>2, <2>3, BaseGoBack
<1>11. CASE /\ "valid" \notin index[b] /\ env.kind[b] = "invalid" /\ NoFault
            /\ GoBack(c, FailedToConnect(j.attach))
            /\ UNCHANGED <<env, chainTips, bestChain, pool, cps, stakeNodes, blockCache, disk, restarts>>
  <2>1. PICK idx : idx = FailedToConnect(s) OBVIOUS
  <2>2. s /= <<>> /\ Range(s) \subseteq DOMAIN index /\ Genesis \notin Range(s) /\ Linked(s)
        /\ env.kind[Head(s)] = "invalid" /\ "valid" \notin index[Head(s)]
    BY <1>2, <1>3, <1>5, <1>6, <1>11
  <2>3. /\ IndexType(idx) /\ DOMAIN idx = DOMAIN index /\ \A x \in DOMAIN index : index[x] \subseteq idx[x]
        /\ FlagsOK(idx, env.kind, FlagsTrusted)
    BY <1>4, <2>1, <2>2, FailedFacts
  <2>4. GoBack(c, idx) BY <1>6, <1>11, <2>1
  <2>. QED BY <1>10, <1>11, <2>3, <2>4
<1>12. CASE /\ Fault /\ GoBack(c, index)
            /\ UNCHANGED <<env, chainTips, bestChain, pool, cps, stakeNodes, blockCache, disk, restarts>>
  <2>1. PICK idx : idx = index OBVIOUS
  <2>2. IndexType(idx) /\ FlagsOK(idx, env.kind, FlagsTrusted) BY <1>4, <2>1 DEF IndexOK
  <2>3. GoBack(c, idx) /\ DOMAIN idx = DOMAIN index /\ \A x \in DOMAIN index : index[x] \subseteq idx[x]
    BY <1>12, <2>1
  <2>. QED BY <1>10, <1>12, <2>2, <2>3
<1>13. CASE /\ "valid" \in index[b] \/ env.kind[b] /= "invalid"
            /\ Parent[b] = Tip
            /\ Connected(b, IF "valid" \in index[b] THEN index ELSE SetStatusFlags(index, {b}, "valid"))
            /\ Notifies(c, [j EXCEPT !.at = "attached", !.moved = b, !.attach = Tail(@)])
            /\ UNCHANGED <<env, chainTips, pool, cps, blockCache, panicked, count>>
  <2>1. UNCHANGED <<env, chainTips, orphans, oldestOrphan, checkpointNode, nextCheckpoint, blockCache>>
        /\ CountOK'
    BY <1>13 DEF pool, cps, count, BaseOK, CountOK
  <2>2. PICK idx : idx = IF "valid" \in index[b] THEN index ELSE SetStatusFlags(index, {b}, "valid") OBVIOUS
  <2>3. /\ IndexType(idx) /\ DOMAIN idx = DOMAIN index /\ FlagsOK(idx, env.kind, FlagsTrusted)
        /\ "valid" \in idx[b]
    <3>1. IndexType(index) /\ FlagsOK(index, env.kind, FlagsTrusted) BY <1>4 DEF IndexOK
    <3>2. CASE "valid" \in index[b] BY <3>1, <3>2, <2>2
    <3>3. CASE "valid" \notin index[b]
      <4>1. "failed" \notin index[b] BY <1>8, <1>13, <3>1, <3>3 DEF FlagsOK
      <4>2. Parent[b] = diskBest BY <1>4, <1>13, ChainFacts
      <4>3. FlagsOK(SetStatusFlags(index, {b}, "valid"), env.kind, FlagsTrusted)
        BY <1>4, <1>8, <1>13, <3>3, <4>1, <4>2, ValidTip
      <4>4. PICK f \in Flags : f = "valid" BY DEF Flags
      <4>5. PICK S : S = {b} OBVIOUS
      <4>6. /\ IndexType(SetStatusFlags(index, S, f)) /\ DOMAIN SetStatusFlags(index, S, f) = DOMAIN index
            /\ \A x \in DOMAIN index :
                 /\ SetStatusFlags(index, S, f)[x] = IF x \in S THEN index[x] \cup {f} ELSE index[x]
                 /\ index[x] \subseteq SetStatusFlags(index, S, f)[x]
        BY <3>1, SetStatusFacts
      <4>7. idx = SetStatusFlags(index, S, f) BY <2>2, <3>3, <4>4, <4>5
      <4>8. "valid" \in idx[b] BY <1>8, <4>4, <4>5, <4>6, <4>7
      <4>. QED BY <4>3, <4>4, <4>5, <4>6, <4>7, <4>8
    <3>. QED BY <3>2, <3>3
  <2>4. Connected(b, idx) BY <1>13, <2>2
  <2>5. /\ IndexOK' /\ DiskOK' /\ index' = idx /\ diskBest' = b
        /\ stakeNodes' \subseteq DOMAIN index /\ b \in stakeNodes'
    BY <1>4, <1>8, <2>1, <2>3, <2>4, ChainConnect
  <2>6. DOMAIN index' = DOMAIN index BY <2>3, <2>5
  <2>7. blockCache' \subseteq DOMAIN index BY <1>4, <2>1 DEF MemoryOK
  <2>8. MemoryOK' BY <1>4, <2>1, <2>5, <2>6, <2>7, MemoryMoved
  <2>9. PoolOK' BY <1>4, <2>1, <2>6, PoolSame
  <2>10. JobsOK'
    <3>2. PICK a : a = Tail(s) OBVIOUS
    <3>4. a \in Seq(Blocks) /\ Range(a) \subseteq DOMAIN index /\ Genesis \notin Range(a) /\ Linked(a)
      BY <1>5, <1>6, <1>7, <3>2
    <3>5. PICK k : k = [j EXCEPT !.at = "attached", !.moved = b, !.attach = Tail(@)] OBVIOUS
    <3>6. b \in Some BY <1>4, <1>8, ChainFacts DEF Some
    <3>7. "attached" \in Positions BY DEF Positions
    <3>8. k = [j EXCEPT !.at = "attached", !.moved = b, !.attach = a] BY <1>6, <3>2, <3>5
    <3>9. /\ k \in JobType /\ k.at = "attached" /\ k.block = j.block /\ k.queue = j.queue
          /\ k.fast = j.fast /\ k.forced = j.forced /\ k.target = j.target /\ k.orig = j.orig
          /\ k.detach = j.detach /\ k.attach = a /\ k.moved = b
      BY <3>4, <3>6, <3>7, <3>8 DEF JobType
    <3>11. JobOK(k, DOMAIN index', env)
      BY <1>5, <1>8, <2>6, <3>4, <3>9 DEF JobOK, Connecting, Reorganizing, Moving
    <3>12. HoldOK(k, index', Range(orphans'), env) /\ k.at \notin Holding BY <3>9 DEF HoldOK, Holding
    <3>13. job' = [job EXCEPT ![c] = k] /\ chainLock' = Nobody BY <1>13, <3>5 DEF Notifies
    <3>14. DOMAIN index \subseteq DOMAIN index' BY <2>6
    <3>. QED BY <1>1, <2>1, <3>9, <3>11, <3>12, <3>13, <3>14, JobsStep
  <2>. QED BY <2>1, <2>5, <2>8, <2>9, <2>10 DEF BaseOK
<1>. QED BY <1>2, <1>3, <1>9, <1>11, <1>12, <1>13 DEF Attach, KnownValid

LEMMA BaseRestart == ASSUME BaseOK, Restart PROVE BaseOK'
<1>1. IndexOK /\ DiskOK BY DEF BaseOK
<1>2. /\ UNCHANGED <<env, diskIndex, diskBest>> /\ chainLock' = Nobody
      /\ job' = [c \in {"p", "q"} |-> Idle] /\ index' = diskIndex /\ modified' = {}
      /\ chainTips' = LoadedTips(diskIndex) /\ bestChain' = SetTip(<<>>, diskBest)
      /\ orphans' = <<>> /\ oldestOrphan' = None /\ checkpointNode' = None /\ nextCheckpoint' = None
      /\ stakeNodes' = {diskBest} /\ blockCache' = {diskBest, Parent[diskBest]}
  BY DEF Restart, disk
<1>3. diskBest \in Blocks /\ diskBest \in DOMAIN index /\ Parent[diskBest] \in DOMAIN index
      /\ DOMAIN index \subseteq Blocks
  BY <1>1, ChainFacts DEF DiskOK
<1>4. DOMAIN diskIndex = DOMAIN index /\ diskIndex \in [DOMAIN index -> SUBSET Flags] BY <1>1 DEF DiskOK
<1>5. FlagsTrusted' = FlagsTrusted /\ Checkpoints' = Checkpoints BY <1>2, SameTrust
<1>6. IndexOK'
  <2>1. IndexType(diskIndex) BY <1>3, <1>4 DEF IndexType
  <2>2. FlagsOK(diskIndex, env.kind, FlagsTrusted) BY <1>1 DEF DiskOK
  <2>3. PassedOK(DOMAIN diskIndex, env, FlagsTrusted) BY <1>1, <1>4 DEF IndexOK
  <2>4. env \in Scenarios BY <1>1 DEF IndexOK
  <2>. QED BY <1>2, <1>5, <2>1, <2>2, <2>3, <2>4 DEF IndexOK
<1>7. DiskOK'
  <2>1. bestChain' = Path[diskBest] BY <1>2, <1>3, SetTipFacts
  <2>. QED BY <1>1, <1>2, <1>4, <1>5, <2>1 DEF DiskOK
<1>8. MemoryOK'
  <2>1. LoadedTips(diskIndex) = {b \in DOMAIN diskIndex : \A x \in DOMAIN diskIndex \ {b} : Parent[x] /= b}
    <3>1. ASSUME NEW b \in DOMAIN index
          PROVE  (\A x \in DOMAIN index : Height[x] > Height[b] => Parent[x] /= b)
                   <=> (\A x \in DOMAIN index \ {b} : Parent[x] /= b)
      <4>1. ASSUME NEW x \in DOMAIN index, Parent[x] = b, x /= b PROVE Height[x] > Height[b]
        <5>1. x \in Blocks /\ x /= Genesis BY <1>3, <4>1, TreeAssumption
        <5>2. Height[x] = Height[b] + 1 /\ Height[b] \in Nat BY <4>1, <5>1, TreeFacts
        <5>. QED BY <5>2
      <4>2. ~(Height[b] > Height[b])
        <5>1. Height[b] \in Nat BY <1>3, TreeFacts
        <5>. QED BY <5>1
      <4>. QED BY <4>1, <4>2
    <3>. QED BY <1>4, <3>1 DEF LoadedTips
  <2>2. TipsAreLeaves' BY <1>2, <2>1 DEF TipsAreLeaves
  <2>. QED BY <1>2, <1>3, <1>4, <2>2 DEF MemoryOK
<1>9. PoolOK'
  <2>1. <<>> \in Seq(env.sent) /\ Range(<<>>) = {} /\ Distinct(<<>>) BY DEF Range, Distinct
  <2>2. Distinct(orphans)' BY <1>2, <2>1 DEF Distinct
  <2>. QED BY <1>2, <2>1, <2>2 DEF PoolOK
<1>10. CountOK' BY DEF Restart, CountOK, BaseOK
<1>11. JobsOK'
  <2>1. \A c \in Callers : job'[c] = Idle BY <1>2 DEF Callers
  <2>2. job' \in [Callers -> JobType] BY <1>2, IdleFacts DEF Callers
  <2>3. Idle.at \notin Holding /\ Idle.at = "idle" BY IdleFacts DEF Holding
  <2>4. JobOK(Idle, DOMAIN index', env') /\ HoldOK(Idle, index', Range(orphans'), env') BY IdleFacts
  <2>. QED BY <1>2, <2>1, <2>2, <2>3, <2>4 DEF JobsOK
<1>. QED BY <1>6, <1>7, <1>8, <1>9, <1>10, <1>11 DEF BaseOK

LEMMA BaseStep == ASSUME BaseOK, Next PROVE BaseOK'
<1>1. CASE Restart BY <1>1, BaseRestart
<1>2. ASSUME NEW c \in Callers, ProcessBlock(c) \/ ForceHeadReorganization(c) \/ Steps(c) PROVE BaseOK'
  BY <1>2, BaseProcessBlock, BaseForce, BaseAccept, BaseConnect, BaseExtend, BaseExtended, BaseAccepted,
     BaseReorg, BaseDetach, BaseAttach, BaseMoved, BaseArrived, BaseReorged, BaseDone DEF Steps
<1>. QED BY <1>1, <1>2 DEF Next, Callers

LEMMA BaseInit == ASSUME Init PROVE BaseOK
<1>1. /\ env \in Scenarios /\ diskIndex = [b \in {Genesis} |-> {"data", "valid"}] /\ diskBest = Genesis
      /\ chainLock = Nobody /\ job = [c \in {"p", "q"} |-> Idle]
      /\ index = diskIndex /\ modified = {} /\ chainTips = {diskBest}
      /\ bestChain = Path[diskBest]
      /\ orphans = <<>> /\ oldestOrphan = None
      /\ checkpointNode = None /\ nextCheckpoint = None
      /\ stakeNodes = {diskBest} /\ blockCache = {diskBest, Parent[diskBest]}
      /\ panicked = FALSE /\ restarts = 0 /\ faults = 0
  BY DEF Init, Fresh
<1>2. Genesis \in Blocks /\ Parent[Genesis] = Genesis /\ Path[Genesis] = <<Genesis>> BY TreeAssumption
<1>3. On(Genesis) = {Genesis} BY <1>2 DEF On, Range
<1>4. DOMAIN index = {Genesis} /\ index[Genesis] = {"data", "valid"}
  BY <1>1
<1>5. index \in [{Genesis} -> SUBSET Flags] BY <1>1 DEF Flags
<1>6. FlagsOK(index, env.kind, FlagsTrusted)
  <2>1. env.kind[Genesis] = "ok" BY <1>1, EnvFacts
  <2>. QED BY <1>2, <1>4, <2>1 DEF FlagsOK
<1>7. IndexOK
  <2>1. PassedOK(DOMAIN index, env, FlagsTrusted)
    <3>1. env.kind[Genesis] = "ok" /\ Range(env.checkpoints) \subseteq Blocks BY <1>1, EnvFacts
    <3>2. \A x \in Range(env.checkpoints) : Height[x] = Height[Genesis] => x = Genesis
      <4>1. ASSUME NEW x \in Blocks, Height[x] = Height[Genesis] PROVE x = Genesis
        <5>1. Height[Genesis] = 0 BY <1>2, TreeFacts
        <5>2. x /= Genesis => Height[x] = Height[Parent[x]] + 1 /\ Height[Parent[x]] \in Nat BY TreeFacts
        <5>. QED BY <4>1, <5>1, <5>2
      <4>. QED BY <3>1, <4>1
    <3>. QED BY <1>4, <3>1, <3>2 DEF PassedOK
  <2>. QED BY <1>1, <1>2, <1>4, <1>5, <1>6, <2>1 DEF IndexOK, IndexType
<1>8. DiskOK BY <1>1, <1>4, <1>5, <1>6 DEF DiskOK
<1>9. MemoryOK BY <1>1, <1>2, <1>4 DEF MemoryOK, TipsAreLeaves
<1>10. PoolOK
  <2>1. <<>> \in Seq(env.sent) /\ Range(<<>>) = {} /\ Distinct(<<>>) BY DEF Range, Distinct
  <2>. QED BY <1>1, <2>1 DEF PoolOK
<1>11. CountOK BY <1>1 DEF CountOK
<1>12. JobsOK
  <2>1. \A c \in Callers : job[c] = Idle BY <1>1 DEF Callers
  <2>2. job \in [Callers -> JobType] BY <1>1, IdleFacts DEF Callers
  <2>3. Idle.at \notin Holding /\ Idle.at = "idle" BY IdleFacts DEF Holding
  <2>4. JobOK(Idle, DOMAIN index, env) /\ HoldOK(Idle, index, Range(orphans), env) BY IdleFacts
  <2>. QED BY <1>1, <2>1, <2>2, <2>3, <2>4 DEF JobsOK
<1>. QED BY <1>7, <1>8, <1>9, <1>10, <1>11, <1>12 DEF BaseOK

-----------------------------------------------------------------------------
(* One caller at a time. *)

LEMMA OneFacts ==
    ASSUME BaseOK, AloneOK, Alone, NEW c \in Callers, Runs(c), NEW j, j = job[c]
    PROVE  /\ PlaceOK(j, index, diskBest) /\ CacheOK(j, diskBest, blockCache)
           /\ CheckpointOK(j, diskBest, checkpointNode) /\ WorkOK(j, DOMAIN index, diskBest, env)
BY CallFacts DEF AloneOK, OneOK

LEMMA AloneStep ==
    ASSUME BaseOK, Alone, NEW c \in Callers, Runs(c), env' = env, NEW k, job' = [job EXCEPT ![c] = k],
           panicked' = panicked, PlaceOK(k, index', diskBest'), CacheOK(k, diskBest', blockCache'),
           CheckpointOK(k, diskBest', checkpointNode'), WorkOK(k, DOMAIN index', diskBest', env)
    PROVE  AloneOK'
<1>1. c \in env.callers /\ ~panicked BY DEF Runs
<1>2. \A d \in env.callers : d = c BY <1>1, AloneFacts DEF BaseOK, IndexOK
<1>3. job'[c] = k BY DEF BaseOK, JobsOK
<1>4. \A d \in env.callers : job'[d] = k BY <1>2, <1>3
<1>5. PanicsAtGenesisOnly' BY <1>1 DEF PanicsAtGenesisOnly
<1>. QED BY <1>4, <1>5 DEF AloneOK, OneOK

LEMMA AloneStutter == ASSUME AloneOK, UNCHANGED vars PROVE AloneOK'
<1>1. UNCHANGED <<env, job, index, bestChain, checkpointNode, stakeNodes, blockCache, diskBest, panicked>>
  BY DEF vars, cps, disk
<1>2. Alone' = Alone /\ Tip' = Tip BY <1>1 DEF Alone, Tip
<1>3. PanicsAtGenesisOnly' = PanicsAtGenesisOnly BY <1>1, <1>2 DEF PanicsAtGenesisOnly
<1>4. \A d : OneOK(job[d])' <=> OneOK(job[d]) BY <1>1 DEF OneOK
<1>. QED BY <1>1, <1>2, <1>3, <1>4 DEF AloneOK

\* A job that only changes its position, among those that ask no more of it.
LEMMA IdleAlone ==
    ASSUME NEW j, NEW k, NEW idx, NEW idx2, NEW best, NEW cache, NEW cp, NEW D, NEW e,
           j.at \in {"idle", "accept", "accepted", "extended"}, k.at \in {"idle", "accept", "accepted"}, ~k.back,
           CacheOK(j, best, cache), WorkOK(j, D, best, e), cp /= None => cp \in On(best)
    PROVE  /\ PlaceOK(k, idx2, best) /\ CacheOK(k, best, cache) /\ CheckpointOK(k, best, cp)
           /\ WorkOK(k, D, best, e)
<1>1. PlaceOK(k, idx2, best) BY DEF PlaceOK, Reorganizing, Moving
<1>2. CacheOK(k, best, cache) BY DEF CacheOK
<1>3. CheckpointOK(k, best, cp) BY DEF CheckpointOK, Reorganizing, Moving
<1>4. WorkOK(k, D, best, e) BY DEF WorkOK, Reorganizing
<1>. QED BY <1>1, <1>2, <1>3, <1>4

LEMMA AloneProcessBlock == ASSUME BaseOK, AloneOK, Alone, NEW c \in Callers, ProcessBlock(c) PROVE AloneOK'
<1>1. Runs(c) /\ job[c].at = "idle" BY DEF ProcessBlock, At
<1>2. PICK j : j = job[c] OBVIOUS
<1>3. CacheOK(j, diskBest, blockCache) /\ CheckpointOK(j, diskBest, checkpointNode)
      /\ WorkOK(j, DOMAIN index, diskBest, env)
  BY <1>1, <1>2, OneFacts
<1>4. UNCHANGED <<env, index, blockCache, diskBest, panicked>> /\ FoundCheckpoint BY DEF ProcessBlock, disk
<1>5. checkpointNode' /= None => checkpointNode' \in On(diskBest)
  <2>1. checkpointNode' = FindPreviousCheckpoint[1] BY <1>4 DEF FoundCheckpoint
  <2>2. checkpointNode /= None => checkpointNode \in On(diskBest) BY <1>3 DEF CheckpointOK
  <2>3. \/ FindPreviousCheckpoint[1] = checkpointNode
        \/ FindPreviousCheckpoint[1] \in On(diskBest)
        \/ FindPreviousCheckpoint[1] = None
    BY CheckpointFacts DEF BaseOK
  <2>. QED BY <2>1, <2>2, <2>3
<1>6. PICK b, fast : \/ Returns(c)
                     \/ Locked(c, [Idle EXCEPT !.at = "accept", !.block = b, !.fast = fast])
  BY DEF ProcessBlock
<1>7. PICK k : /\ job' = [job EXCEPT ![c] = k] /\ k.at \in {"idle", "accept"} /\ ~k.back
  <2>1. CASE Returns(c)
    <3>1. PICK k : k = Idle OBVIOUS
    <3>2. job' = [job EXCEPT ![c] = k] BY <2>1, <3>1 DEF Returns, Notifies
    <3>3. k.at = "idle" /\ ~k.back BY <3>1, IdleFacts
    <3>. QED BY <3>2, <3>3
  <2>2. CASE Locked(c, [Idle EXCEPT !.at = "accept", !.block = b, !.fast = fast])
    <3>1. PICK k : k = [Idle EXCEPT !.at = "accept", !.block = b, !.fast = fast] OBVIOUS
    <3>2. job' = [job EXCEPT ![c] = k] BY <2>2, <3>1 DEF Locked
    <3>3. k.at = "accept" /\ ~k.back BY <3>1 DEF Idle
    <3>. QED BY <3>2, <3>3
  <2>. QED BY <1>6, <2>1, <2>2
<1>8. j.at \in {"idle", "accept", "accepted", "extended"} /\ k.at \in {"idle", "accept", "accepted"}
  BY <1>1, <1>2, <1>7
<1>9. PICK cp : cp = checkpointNode' OBVIOUS
<1>10. /\ PlaceOK(k, index, diskBest) /\ CacheOK(k, diskBest, blockCache) /\ CheckpointOK(k, diskBest, cp)
       /\ WorkOK(k, DOMAIN index, diskBest, env)
  BY <1>3, <1>5, <1>7, <1>8, <1>9, IdleAlone
<1>. QED BY <1>1, <1>4, <1>7, <1>9, <1>10, AloneStep

LEMMA AloneForce == ASSUME BaseOK, AloneOK, Alone, NEW c \in Callers, ForceHeadReorganization(c) PROVE AloneOK'
<1>1. Runs(c) /\ job[c].at = "idle" /\ env.force BY DEF ForceHeadReorganization, At
<1>2. PICK j : j = job[c] OBVIOUS
<1>3. CacheOK(j, diskBest, blockCache) /\ CheckpointOK(j, diskBest, checkpointNode)
  BY <1>1, <1>2, OneFacts
<1>4. UNCHANGED <<env, index, blockCache, diskBest, checkpointNode, panicked>>
  BY DEF ForceHeadReorganization, disk, cps
<1>5. PICK b \in DOMAIN index \ {Tip, Genesis} :
        /\ Tip /= Genesis /\ Parent[b] = Parent[Tip]
        /\ Notifies(c, [Idle EXCEPT !.at = "reorg", !.target = b, !.orig = Tip, !.forced = TRUE])
  BY DEF ForceHeadReorganization
<1>6. IndexOK /\ DiskOK /\ PoolOK BY DEF BaseOK
<1>7. Tip = diskBest /\ diskBest \in Blocks /\ b \in Blocks BY <1>6, ChainFacts
<1>8. PICK k : k = [Idle EXCEPT !.at = "reorg", !.target = b, !.orig = Tip, !.forced = TRUE] OBVIOUS
<1>9. k.at = "reorg" /\ k.target = b /\ k.orig = diskBest /\ ~k.back BY <1>7, <1>8 DEF Idle
<1>10. job' = [job EXCEPT ![c] = k] BY <1>5, <1>8 DEF Notifies
<1>11. PlaceOK(k, index', diskBest')
  <2>1. "valid" \in index[diskBest] BY <1>6 DEF DiskOK
  <2>. QED BY <1>4, <1>9, <2>1 DEF PlaceOK, Reorganizing, Moving
<1>12. CacheOK(k, diskBest', blockCache') BY <1>1, <1>2, <1>3, <1>4 DEF CacheOK
<1>13. CheckpointOK(k, diskBest', checkpointNode')
  <2>1. SUFFICES ASSUME checkpointNode /= None
                 PROVE  checkpointNode \in On(diskBest) /\ checkpointNode \in On(b)
    BY <1>4, <1>9 DEF CheckpointOK, Moving
  <2>2. checkpointNode \in On(diskBest) BY <2>1, <1>3 DEF CheckpointOK
  <2>3. checkpointNode /= diskBest
    <3>1. SUFFICES ASSUME checkpointNode = diskBest PROVE FALSE OBVIOUS
    <3>2. diskBest \in Range(env.checkpoints) BY <2>1, <3>1, <1>6 DEF PoolOK, Checkpoints
    <3>3. Height[diskBest] = Height[Parent[diskBest]] + 1 /\ Height[b] = Height[Parent[b]] + 1
      BY <1>5, <1>7, TreeFacts
    <3>4. Height[diskBest] = Height[b] BY <1>5, <1>7, <3>3
    <3>5. diskBest = b BY <3>2, <3>4, <1>6 DEF IndexOK, PassedOK
    <3>. QED BY <3>5, <1>5, <1>7
  <2>4. checkpointNode \in On(Parent[diskBest]) BY <2>2, <2>3, <1>5, <1>7, OnParent
  <2>5. checkpointNode \in On(b) BY <2>4, <1>5, <1>7, OnChild
  <2>. QED BY <2>2, <2>5
<1>14. WorkOK(k, DOMAIN index', diskBest', env) BY <1>1 DEF WorkOK, Undisturbed
<1>. QED BY <1>1, <1>4, <1>10, <1>11, <1>12, <1>13, <1>14, AloneStep

LEMMA AloneAccept == ASSUME BaseOK, AloneOK, Alone, BaseOK', NEW c \in Callers, Accept(c) PROVE AloneOK'
<1>1. Runs(c) /\ job[c].at = "accept" BY DEF Accept, At
<1>2. PICK j \in JobType : j = job[c] /\ j.at = "accept" /\ HoldOK(j, index, Range(orphans), env)
  BY <1>1, CallFacts
<1>3. PlaceOK(j, index, diskBest) /\ CacheOK(j, diskBest, blockCache)
      /\ CheckpointOK(j, diskBest, checkpointNode) /\ WorkOK(j, DOMAIN index, diskBest, env)
  BY <1>1, <1>2, OneFacts
<1>4. UNCHANGED <<env, blockCache, diskBest, panicked>> BY DEF Accept
<1>5. PICK b : b = j.block OBVIOUS
<1>6. b \in env.sent /\ b \notin DOMAIN index /\ Parent[b] \in DOMAIN index BY <1>2, <1>5 DEF HoldOK
<1>7. checkpointNode' /= None => checkpointNode' \in On(diskBest)
  <2>1. FoundCheckpoint \/ UNCHANGED cps BY DEF Accept
  <2>2. checkpointNode /= None => checkpointNode \in On(diskBest) BY <1>3 DEF CheckpointOK
  <2>3. \/ FindPreviousCheckpoint[1] = checkpointNode
        \/ FindPreviousCheckpoint[1] \in On(diskBest)
        \/ FindPreviousCheckpoint[1] = None
    BY CheckpointFacts DEF BaseOK
  <2>4. CASE FoundCheckpoint BY <2>2, <2>3, <2>4 DEF FoundCheckpoint
  <2>5. CASE UNCHANGED cps BY <2>2, <2>5 DEF cps
  <2>. QED BY <2>1, <2>4, <2>5
<1>8. PICK cp : cp = checkpointNode' OBVIOUS
<1>9. ~j.back BY <1>2, <1>3 DEF PlaceOK, Reorganizing
<1>10. CASE Returns(c) /\ UNCHANGED <<index, modified, chainTips, diskIndex, stakeNodes>>
  <2>1. PICK k : k = Idle OBVIOUS
  <2>2. job' = [job EXCEPT ![c] = k] BY <2>1, <1>10 DEF Returns, Notifies
  <2>3. k.at \in {"idle", "accept", "accepted"} /\ ~k.back BY <2>1, IdleFacts
  <2>4. j.at \in {"idle", "accept", "accepted", "extended"} BY <1>2
  <2>5. /\ PlaceOK(k, index, diskBest) /\ CacheOK(k, diskBest, blockCache) /\ CheckpointOK(k, diskBest, cp)
        /\ WorkOK(k, DOMAIN index, diskBest, env)
    BY <1>3, <1>7, <1>8, <2>3, <2>4, IdleAlone
  <2>. QED BY <1>1, <1>4, <1>8, <1>10, <2>2, <2>5, AloneStep
<1>11. CASE ~(Returns(c) /\ UNCHANGED <<index, modified, chainTips, diskIndex, stakeNodes>>)
  <2>1. /\ Acceptable(b, j.fast)
        /\ index' = [x \in DOMAIN index \cup {b} |-> IF x = b THEN {"data"} ELSE index[x]]
        /\ Locked(c, [j EXCEPT !.at = "connect"])
    BY <1>2, <1>5, <1>11 DEF Accept
  <2>2. DOMAIN index' = DOMAIN index \cup {b} BY <2>1
  <2>3. FoundCheckpoint /\ PositionFits(b) BY <1>2, <1>5, <2>1 DEF Accept, Acceptable
  <2>4. PICK k : k = [j EXCEPT !.at = "connect"] OBVIOUS
  <2>5. job' = [job EXCEPT ![c] = k] BY <2>1, <2>4 DEF Locked
  <2>6. k.at = "connect" /\ k.block = b /\ ~k.back BY <1>5, <1>9, <2>4 DEF JobType
  <2>7. PlaceOK(k, index', diskBest') BY <2>6 DEF PlaceOK, Reorganizing, Moving
  <2>8. CacheOK(k, diskBest', blockCache') BY <1>2, <1>3, <1>4 DEF CacheOK
  <2>9. CheckpointOK(k, diskBest', checkpointNode')
    <3>1. SUFFICES ASSUME cp /= None PROVE cp \in On(diskBest) /\ cp \in On(b)
      BY <1>4, <1>8, <2>6 DEF CheckpointOK, Reorganizing, Moving
    <3>2. cp \in On(diskBest) BY <3>1, <1>7, <1>8
    <3>3. cp = FindPreviousCheckpoint[1] BY <1>8, <2>3 DEF FoundCheckpoint
    <3>4. Height[b] >= Height[cp] BY <3>1, <3>3, <2>3 DEF PositionFits
    <3>5. cp \in Range(env.checkpoints)
      <4>1. cp \in Range(Checkpoints)' \cup {None} BY <1>8 DEF BaseOK, PoolOK
      <4>2. Range(Checkpoints)' = Range(env.checkpoints) BY <1>4 DEF Checkpoints
      <4>. QED BY <3>1, <4>1, <4>2
    <3>6. cp \in Blocks /\ b \in Blocks BY <3>5, <1>6, EnvFacts DEF BaseOK, IndexOK
    <3>7. Height[cp] \in Nat /\ Height[b] \in Nat BY <3>6, TreeFacts
    <3>8. Height[cp] + 1 \in 1 .. Height[b] + 1 BY <3>4, <3>7
    <3>9. PICK u \in 1 .. Height[b] + 1 : u = Height[cp] + 1 BY <3>8
    <3>10. PICK x \in Blocks : x = Path[b][u] /\ x \in On(b) /\ Height[x] = u - 1 BY <3>6, OnPath
    <3>11. Height[x] = Height[cp] BY <3>7, <3>9, <3>10
    <3>12. x \in DOMAIN index'
      <4>1. IndexType(index') /\ FlagsOK(index', env.kind', FlagsTrusted') BY DEF BaseOK, IndexOK
      <4>2. PICK new : new = index' OBVIOUS
      <4>3. PICK kk : kk = env.kind' OBVIOUS
      <4>4. PICK tt : tt = FlagsTrusted' OBVIOUS
      <4>5. IndexType(new) /\ FlagsOK(new, kk, tt) /\ b \in DOMAIN new BY <2>2, <4>1, <4>2, <4>3, <4>4
      <4>6. On(b) \subseteq DOMAIN new BY <4>5, PathClosed
      <4>. QED BY <3>10, <4>2, <4>6
    <3>13. cp = x
      <4>1. PassedOK(DOMAIN index', env, FlagsTrusted') BY <1>4 DEF BaseOK, IndexOK
      <4>. QED BY <3>5, <3>11, <3>12, <4>1 DEF PassedOK
    <3>. QED BY <3>2, <3>10, <3>13
  <2>10. WorkOK(k, DOMAIN index', diskBest', env)
    <3>1. Undisturbed(env) => \A x \in DOMAIN index : Clean(x, env) => WorkSum[x] <= WorkSum[diskBest]
      BY <1>2, <1>3 DEF WorkOK
    <3>. QED BY <3>1, <1>4, <2>2, <2>6 DEF WorkOK, Reorganizing
  <2>. QED BY <1>1, <1>4, <2>5, <2>7, <2>8, <2>9, <2>10, AloneStep
<1>. QED BY <1>10, <1>11

LEMMA NoFaultAlone ==
    ASSUME BaseOK, Fault PROVE ~Undisturbed(env)
<1>1. faults \in Nat /\ faults < env.faults BY DEF BaseOK, CountOK, Fault
<1>2. env.faults = 0 => FALSE BY <1>1
<1>. QED BY <1>2 DEF Undisturbed

\* A block has more work than its parent.
LEMMA WorkFacts ==
    ASSUME NEW b \in Blocks
    PROVE  WorkSum[b] \in Nat /\ (b /= Genesis => WorkSum[Parent[b]] < WorkSum[b] /\ WorkSum[Parent[b]] \in Nat)
<1>1. WorkSum[b] \in Nat BY WorkAssumption
<1>2. CASE b = Genesis BY <1>1, <1>2
<1>3. CASE b /= Genesis
  <2>1. Parent[b] \in Blocks BY <1>3, TreeFacts
  <2>2. PICK w \in Nat : w = Work[b] /\ w /= 0 BY WorkAssumption
  <2>3. WorkSum[b] = WorkSum[Parent[b]] + w BY <1>3, <2>2, WorkAssumption
  <2>4. WorkSum[Parent[b]] \in Nat BY <2>1, WorkAssumption
  <2>. QED BY <1>1, <2>2, <2>3, <2>4
<1>. QED BY <1>2, <1>3

LEMMA AloneConnect == ASSUME BaseOK, AloneOK, Alone, NEW c \in Callers, ConnectBestChain(c) PROVE AloneOK'
<1>1. Runs(c) /\ job[c].at = "connect" BY DEF ConnectBestChain, At
<1>2. PICK j \in JobType : j = job[c] /\ j.at = "connect" /\ JobOK(j, DOMAIN index, env)
  BY <1>1, CallFacts
<1>3. PlaceOK(j, index, diskBest) /\ CacheOK(j, diskBest, blockCache)
      /\ CheckpointOK(j, diskBest, checkpointNode) /\ WorkOK(j, DOMAIN index, diskBest, env)
  BY <1>1, <1>2, OneFacts
<1>4. UNCHANGED <<env, blockCache, diskBest, panicked, checkpointNode>> BY DEF ConnectBestChain, cps
<1>5. PICK b : b = j.block OBVIOUS
<1>6. b \in DOMAIN index /\ b /= Genesis BY <1>2, <1>5 DEF JobOK, Connecting
<1>7. Tip = diskBest /\ diskBest \in Blocks /\ b \in Blocks /\ "valid" \in index[diskBest]
  BY <1>6, ChainFacts DEF BaseOK, DiskOK
<1>8. ~j.back BY <1>2, <1>3 DEF PlaceOK, Reorganizing
<1>9. Undisturbed(env) =>
        \A x \in DOMAIN index : x /= b /\ Clean(x, env) => WorkSum[x] <= WorkSum[diskBest]
  BY <1>2, <1>3, <1>5 DEF WorkOK
<1>10. checkpointNode /= None => checkpointNode \in On(diskBest) /\ checkpointNode \in On(b)
  BY <1>2, <1>3, <1>5 DEF CheckpointOK
<1>11. \A x \in blockCache : x \in On(diskBest) BY <1>2, <1>3 DEF CacheOK
<1>12. DOMAIN index' = DOMAIN index BY DEF ConnectBestChain, SetStatusFlags
<1>13. WorkSum[b] \in Nat /\ WorkSum[diskBest] \in Nat BY <1>7, WorkFacts
<1>14. \/ (env.kind[b] = "invalid" \/ Fault) /\ Returns(c)
       \/ Parent[b] = Tip /\ Locked(c, [j EXCEPT !.at = "extend"])
       \/ ~MoreWork(b, Tip) /\ Notifies(c, [j EXCEPT !.at = "accepted"])
       \/ /\ MoreWork(b, Tip) /\ index' = index
          /\ Notifies(c, [j EXCEPT !.at = "reorg", !.target = b, !.orig = Tip])
  BY <1>2, <1>5 DEF ConnectBestChain
<1>15. CASE (env.kind[b] = "invalid" \/ Fault) /\ Returns(c)
  <2>1. PICK k : k = Idle OBVIOUS
  <2>2. job' = [job EXCEPT ![c] = k] BY <2>1, <1>15 DEF Returns, Notifies
  <2>3. k.at = "idle" /\ ~k.back BY <2>1, IdleFacts
  <2>4. PlaceOK(k, index', diskBest') BY <2>3 DEF PlaceOK, Reorganizing, Moving
  <2>5. CacheOK(k, diskBest', blockCache') BY <1>4, <1>11 DEF CacheOK
  <2>6. CheckpointOK(k, diskBest', checkpointNode')
    BY <1>4, <1>10, <2>3 DEF CheckpointOK, Reorganizing, Moving
  <2>7. WorkOK(k, DOMAIN index', diskBest', env)
    <3>1. SUFFICES ASSUME Undisturbed(env)
                   PROVE  \A x \in DOMAIN index : Clean(x, env) => WorkSum[x] <= WorkSum[diskBest]
      BY <1>4, <1>12, <2>3 DEF WorkOK, Reorganizing
    <3>2. env.kind[b] = "invalid" BY <3>1, <1>15, NoFaultAlone
    <3>3. ~Clean(b, env) BY <3>2, <1>7, OnSelf DEF Clean
    <3>. QED BY <3>1, <3>3, <1>9
  <2>. QED BY <1>1, <1>4, <2>2, <2>4, <2>5, <2>6, <2>7, AloneStep
<1>16. CASE Parent[b] = Tip /\ Locked(c, [j EXCEPT !.at = "extend"])
  <2>1. PICK k : k = [j EXCEPT !.at = "extend"] OBVIOUS
  <2>2. job' = [job EXCEPT ![c] = k] BY <2>1, <1>16 DEF Locked
  <2>3. k.at = "extend" /\ ~k.back /\ k.block = b BY <2>1, <1>5, <1>8 DEF JobType
  <2>4. PlaceOK(k, index', diskBest') BY <1>4, <1>7, <1>16, <2>3 DEF PlaceOK, Reorganizing, Moving
  <2>5. CacheOK(k, diskBest', blockCache') BY <1>4, <1>11 DEF CacheOK
  <2>6. CheckpointOK(k, diskBest', checkpointNode')
    BY <1>4, <1>10, <2>3 DEF CheckpointOK, Reorganizing, Moving
  <2>7. WorkOK(k, DOMAIN index', diskBest', env) BY <1>4, <1>9, <1>12, <2>3 DEF WorkOK, Reorganizing
  <2>. QED BY <1>1, <1>4, <2>2, <2>4, <2>5, <2>6, <2>7, AloneStep
<1>17. CASE ~MoreWork(b, Tip) /\ Notifies(c, [j EXCEPT !.at = "accepted"])
  <2>1. PICK k : k = [j EXCEPT !.at = "accepted"] OBVIOUS
  <2>2. job' = [job EXCEPT ![c] = k] BY <2>1, <1>17 DEF Notifies
  <2>3. k.at = "accepted" /\ ~k.back BY <2>1, <1>8 DEF JobType
  <2>4. PlaceOK(k, index', diskBest') BY <2>3 DEF PlaceOK, Reorganizing, Moving
  <2>5. CacheOK(k, diskBest', blockCache') BY <1>4, <1>11 DEF CacheOK
  <2>6. CheckpointOK(k, diskBest', checkpointNode')
    BY <1>4, <1>10, <2>3 DEF CheckpointOK, Reorganizing, Moving
  <2>7. WorkOK(k, DOMAIN index', diskBest', env)
    <3>1. WorkSum[b] <= WorkSum[diskBest] BY <1>7, <1>13, <1>17 DEF MoreWork
    <3>. QED BY <3>1, <1>4, <1>9, <1>12, <2>3 DEF WorkOK, Reorganizing
  <2>. QED BY <1>1, <1>4, <2>2, <2>4, <2>5, <2>6, <2>7, AloneStep
<1>18. CASE /\ MoreWork(b, Tip) /\ index' = index
            /\ Notifies(c, [j EXCEPT !.at = "reorg", !.target = b, !.orig = Tip])
  <2>1. PICK k : k = [j EXCEPT !.at = "reorg", !.target = b, !.orig = Tip] OBVIOUS
  <2>2. job' = [job EXCEPT ![c] = k] BY <2>1, <1>18 DEF Notifies
  <2>3. k.at = "reorg" /\ ~k.back /\ k.target = b /\ k.orig = diskBest
    BY <2>1, <1>7, <1>8 DEF JobType
  <2>4. PlaceOK(k, index', diskBest') BY <1>4, <1>7, <1>18, <2>3 DEF PlaceOK, Reorganizing, Moving
  <2>5. CacheOK(k, diskBest', blockCache') BY <1>4, <1>11 DEF CacheOK
  <2>6. CheckpointOK(k, diskBest', checkpointNode')
    BY <1>4, <1>10, <2>3 DEF CheckpointOK, Moving
  <2>7. WorkOK(k, DOMAIN index', diskBest', env)
    <3>1. WorkSum[diskBest] < WorkSum[b] BY <1>7, <1>13, <1>18 DEF MoreWork
    <3>. QED BY <3>1, <1>4, <1>9, <1>12, <2>3 DEF WorkOK
  <2>. QED BY <1>1, <1>4, <2>2, <2>4, <2>5, <2>6, <2>7, AloneStep
<1>. QED BY <1>14, <1>15, <1>16, <1>17, <1>18

\* fetchStakeNode reaches a block above the tip.
LEMMA FetchAbove ==
    ASSUME BaseOK, NEW b, b /= Genesis PROVE ~FetchPanics(stakeNodes, bestChain, b)
<1>1. Tip = diskBest /\ diskBest \in stakeNodes BY ChainFacts DEF BaseOK, MemoryOK
<1>. QED BY <1>1 DEF FetchPanics, Tip

LEMMA AloneExtend == ASSUME BaseOK, AloneOK, Alone, NEW c \in Callers, Extend(c) PROVE AloneOK'
<1>1. Runs(c) /\ job[c].at = "extend" BY DEF Extend, At
<1>2. PICK j \in JobType : j = job[c] /\ j.at = "extend" /\ JobOK(j, DOMAIN index, env)
  BY <1>1, CallFacts
<1>3. PlaceOK(j, index, diskBest) /\ CacheOK(j, diskBest, blockCache)
      /\ CheckpointOK(j, diskBest, checkpointNode) /\ WorkOK(j, DOMAIN index, diskBest, env)
  BY <1>1, <1>2, OneFacts
<1>4. PICK b : b = j.block OBVIOUS
<1>5. b \in DOMAIN index /\ b /= Genesis BY <1>2, <1>4 DEF JobOK, Connecting
<1>6. Tip = diskBest /\ diskBest \in Blocks /\ b \in Blocks
  BY <1>5, ChainFacts DEF BaseOK
<1>7. Parent[b] = diskBest /\ ~j.back BY <1>2, <1>3, <1>4 DEF PlaceOK, Reorganizing
<1>8. ~FetchPanics(stakeNodes, bestChain, b) BY <1>5, FetchAbove
<1>9. /\ Connected(b, index) /\ Notifies(c, [j EXCEPT !.at = "extended"])
      /\ UNCHANGED <<env, checkpointNode, blockCache, panicked>>
  BY <1>2, <1>4, <1>6, <1>7, <1>8 DEF Extend, cps
<1>10. diskBest' = b /\ index' = index BY <1>9 DEF Connected
<1>11. PICK k : k = [j EXCEPT !.at = "extended"] OBVIOUS
<1>12. job' = [job EXCEPT ![c] = k] BY <1>9, <1>11 DEF Notifies
<1>13. k.at = "extended" /\ ~k.back /\ k.block = b BY <1>4, <1>7, <1>11 DEF JobType
<1>14. \A x \in On(diskBest) : x \in On(b) BY <1>5, <1>6, <1>7, OnChild
<1>15. PlaceOK(k, index', diskBest') BY <1>10, <1>13 DEF PlaceOK, Reorganizing, Moving
<1>16. CacheOK(k, diskBest', blockCache') BY <1>2, <1>3, <1>9, <1>10, <1>14 DEF CacheOK
<1>17. CheckpointOK(k, diskBest', checkpointNode')
  <2>1. checkpointNode /= None => checkpointNode \in On(diskBest) BY <1>3 DEF CheckpointOK
  <2>. QED BY <2>1, <1>9, <1>10, <1>13, <1>14 DEF CheckpointOK, Reorganizing, Moving
<1>18. WorkOK(k, DOMAIN index', diskBest', env)
  <2>1. SUFFICES ASSUME Undisturbed(env), NEW x \in DOMAIN index, Clean(x, env)
                 PROVE  WorkSum[x] <= WorkSum[b]
    BY <1>10, <1>13 DEF WorkOK, Reorganizing
  <2>2. WorkSum[diskBest] < WorkSum[b] /\ WorkSum[diskBest] \in Nat /\ WorkSum[b] \in Nat
    BY <1>5, <1>6, <1>7, WorkFacts
  <2>3. x \in Blocks BY ChainFacts DEF BaseOK
  <2>4. WorkSum[x] \in Nat BY <2>3, WorkFacts
  <2>5. CASE x = b BY <2>2, <2>5
  <2>6. CASE x /= b
    <3>1. WorkSum[x] <= WorkSum[diskBest] BY <2>1, <2>6, <1>2, <1>3, <1>4 DEF WorkOK
    <3>. QED BY <3>1, <2>2, <2>4
  <2>. QED BY <2>5, <2>6
<1>. QED BY <1>1, <1>9, <1>12, <1>15, <1>16, <1>17, <1>18, AloneStep

\* Nothing goes wrong after the notification of the block at the tip.
LEMMA AfterTip ==
    ASSUME BaseOK, NEW b, b = diskBest, b /= Genesis PROVE ~AfterConnectPanics(b)
<1>1. Tip = diskBest /\ diskBest \in stakeNodes BY ChainFacts DEF BaseOK, MemoryOK
<1>. QED BY <1>1 DEF AfterConnectPanics

LEMMA AloneExtended == ASSUME BaseOK, AloneOK, Alone, NEW c \in Callers, Extended(c) PROVE AloneOK'
<1>1. Runs(c) /\ job[c].at = "extended" BY DEF Extended, At
<1>2. PICK j \in JobType : j = job[c] /\ j.at = "extended" /\ JobOK(j, DOMAIN index, env)
  BY <1>1, CallFacts
<1>3. PlaceOK(j, index, diskBest) /\ CacheOK(j, diskBest, blockCache)
      /\ CheckpointOK(j, diskBest, checkpointNode) /\ WorkOK(j, DOMAIN index, diskBest, env)
  BY <1>1, <1>2, OneFacts
<1>4. PICK b : b = j.block OBVIOUS
<1>5. b /= Genesis /\ b = diskBest /\ ~j.back
  BY <1>2, <1>3, <1>4 DEF JobOK, Connecting, PlaceOK, Reorganizing
<1>6. ~AfterConnectPanics(b) BY <1>5, AfterTip
<1>7. /\ AfterConnect(b) /\ Notifies(c, [j EXCEPT !.at = "accepted"])
      /\ UNCHANGED <<env, index, checkpointNode, diskBest, panicked>>
  BY <1>2, <1>4, <1>6 DEF Extended, cps, disk
<1>8. PICK k : k = [j EXCEPT !.at = "accepted"] OBVIOUS
<1>9. job' = [job EXCEPT ![c] = k] BY <1>7, <1>8 DEF Notifies
<1>10. k.at \in {"idle", "accept", "accepted"} /\ ~k.back BY <1>5, <1>8 DEF JobType
<1>11. PICK cache : cache = blockCache' OBVIOUS
<1>12. CacheOK(j, diskBest, cache)
  <2>1. cache \subseteq blockCache \cup {b} BY <1>7, <1>11 DEF AfterConnect
  <2>2. b \in On(diskBest)
    <3>1. diskBest \in Blocks BY ChainFacts DEF BaseOK
    <3>. QED BY <3>1, <1>5, OnSelf
  <2>. QED BY <1>3, <2>1, <2>2 DEF CacheOK
<1>13. checkpointNode /= None => checkpointNode \in On(diskBest) BY <1>3 DEF CheckpointOK
<1>14. j.at \in {"idle", "accept", "accepted", "extended"} BY <1>2
<1>15. /\ PlaceOK(k, index, diskBest) /\ CacheOK(k, diskBest, cache) /\ CheckpointOK(k, diskBest, checkpointNode)
       /\ WorkOK(k, DOMAIN index, diskBest, env)
  BY <1>3, <1>10, <1>12, <1>13, <1>14, IdleAlone
<1>. QED BY <1>1, <1>7, <1>9, <1>11, <1>15, AloneStep

LEMMA AloneAccepted == ASSUME BaseOK, AloneOK, Alone, NEW c \in Callers, Accepted(c) PROVE AloneOK'
<1>1. Runs(c) /\ job[c].at = "accepted" BY DEF Accepted, At
<1>2. PICK j \in JobType : j = job[c] /\ j.at = "accepted" BY <1>1, CallFacts
<1>3. PlaceOK(j, index, diskBest) /\ CacheOK(j, diskBest, blockCache)
      /\ CheckpointOK(j, diskBest, checkpointNode) /\ WorkOK(j, DOMAIN index, diskBest, env)
  BY <1>1, <1>2, OneFacts
<1>4. ~j.back BY <1>2, <1>3 DEF PlaceOK, Reorganizing
<1>5. UNCHANGED <<env, index, checkpointNode, blockCache, diskBest, panicked>> BY DEF Accepted, cps, disk
<1>6. PICK o, q : \/ Returns(c)
                  \/ Locked(c, [j EXCEPT !.at = "accept", !.block = o, !.queue = q])
  BY <1>2 DEF Accepted
<1>7. PICK k : /\ job' = [job EXCEPT ![c] = k] /\ k.at \in {"idle", "accept"} /\ ~k.back
  <2>1. CASE Returns(c)
    <3>1. PICK k : k = Idle OBVIOUS
    <3>2. job' = [job EXCEPT ![c] = k] BY <2>1, <3>1 DEF Returns, Notifies
    <3>3. k.at = "idle" /\ ~k.back BY <3>1, IdleFacts
    <3>. QED BY <3>2, <3>3
  <2>2. CASE Locked(c, [j EXCEPT !.at = "accept", !.block = o, !.queue = q])
    <3>1. PICK k : k = [j EXCEPT !.at = "accept", !.block = o, !.queue = q] OBVIOUS
    <3>2. job' = [job EXCEPT ![c] = k] BY <2>2, <3>1 DEF Locked
    <3>3. k.at = "accept" /\ ~k.back BY <1>4, <3>1 DEF JobType
    <3>. QED BY <3>2, <3>3
  <2>. QED BY <1>6, <2>1, <2>2
<1>8. j.at \in {"idle", "accept", "accepted", "extended"} /\ k.at \in {"idle", "accept", "accepted"}
  BY <1>2, <1>7
<1>9. checkpointNode /= None => checkpointNode \in On(diskBest) BY <1>3 DEF CheckpointOK
<1>10. /\ PlaceOK(k, index, diskBest) /\ CacheOK(k, diskBest, blockCache)
       /\ CheckpointOK(k, diskBest, checkpointNode) /\ WorkOK(k, DOMAIN index, diskBest, env)
  BY <1>3, <1>7, <1>8, <1>9, IdleAlone
<1>. QED BY <1>1, <1>5, <1>7, <1>10, AloneStep

\* What a job knows of the way it is on: where it began is valid, and all below.
LEMMA OrigValid ==
    ASSUME BaseOK, NEW o \in DOMAIN index, "valid" \in index[o]
    PROVE  \A a \in On(o) : a \in DOMAIN index /\ "valid" \in index[a] /\ ~KnownInvalid(index[a])
<1>1. IndexType(index) /\ FlagsOK(index, env.kind, FlagsTrusted) BY DEF BaseOK, IndexOK
<1>. QED BY <1>1, ValidPath

\* A plan keeps what is known of the job.
LEMMA AlonePlan ==
    ASSUME BaseOK, Alone, NEW c \in Callers, Runs(c), NEW j \in JobType, j = job[c],
           j.at \in {"reorg", "reorging"}, JobOK(j, DOMAIN index, env),
           PlaceOK(j, index, diskBest), CacheOK(j, diskBest, blockCache),
           CheckpointOK(j, diskBest, checkpointNode), WorkOK(j, DOMAIN index, diskBest, env),
           NEW back \in BOOLEAN, back /\ Undisturbed(env) => ~Clean(j.target, env),
           NEW t \in DOMAIN index, t = IF back THEN j.orig ELSE j.target,
           NEW k, k = Plan(c, t, back), job' = [job EXCEPT ![c] = k],
           DOMAIN index' = DOMAIN index, \A b \in DOMAIN index : index[b] \subseteq index'[b],
           UNCHANGED <<env, diskBest, blockCache, checkpointNode, panicked>>
    PROVE  AloneOK'
<1>1. IndexOK /\ DiskOK BY DEF BaseOK
<1>2. /\ k \in JobType /\ k.at = "reorging" /\ k.back = back /\ k.target = j.target /\ k.orig = j.orig
      /\ k.detach = Detached(Path[diskBest], t) /\ k.attach = Attached(Path[diskBest], t)
      /\ Way(Path[diskBest], t, k.detach, k.attach)
  BY <1>1, PlanFacts
<1>3. PlaceOK(k, index', diskBest')
  <2>1. Goal(k) = t BY <1>2 DEF Goal
  <2>2. "valid" \in index[j.orig] BY DEF PlaceOK, Reorganizing
  <2>3. j.orig \in DOMAIN index BY DEF JobOK, Reorganizing
  <2>4. "valid" \in index'[k.orig] BY <1>2, <2>2, <2>3
  <2>5. Way(Path[diskBest'], Goal(k), k.detach, k.attach) BY <1>2, <2>1
  <2>. QED BY <1>2, <2>4, <2>5 DEF PlaceOK, Reorganizing
<1>4. CacheOK(k, diskBest', blockCache') BY DEF CacheOK
<1>5. CheckpointOK(k, diskBest', checkpointNode')
  <2>1. SUFFICES ASSUME checkpointNode /= None
                 PROVE  /\ checkpointNode \in On(diskBest) /\ checkpointNode \in On(j.target)
                        /\ checkpointNode \in On(j.orig)
                        /\ Height[checkpointNode] + 1 <= Len(Path[diskBest]) - Len(k.detach)
    BY <1>2 DEF CheckpointOK
  <2>2. /\ checkpointNode \in On(diskBest) /\ checkpointNode \in On(j.target)
        /\ checkpointNode \in On(j.orig)
    BY <2>1 DEF CheckpointOK, Reorganizing
  <2>3. checkpointNode \in On(t) BY <2>2
  <2>4. diskBest \in Blocks /\ t \in Blocks BY <1>1, ChainFacts
  <2>5. Height[checkpointNode] + 1 <= Len(Path[diskBest]) - Len(Detached(Path[diskBest], t))
    BY <2>2, <2>3, <2>4, PlanIsWay
  <2>. QED BY <1>2, <2>2, <2>5
<1>6. WorkOK(k, DOMAIN index', diskBest', env)
  <2>1. SUFFICES ASSUME Undisturbed(env)
                 PROVE  /\ \A b \in DOMAIN index : b /= j.target /\ Clean(b, env) => WorkSum[b] <= WorkSum[j.orig]
                        /\ WorkSum[j.orig] < WorkSum[j.target]
                        /\ back => ~Clean(j.target, env)
    BY <1>2 DEF WorkOK
  <2>. QED BY <2>1 DEF WorkOK, Reorganizing
<1>. QED BY <1>3, <1>4, <1>5, <1>6, AloneStep

LEMMA AloneGoBack ==
    ASSUME BaseOK, AloneOK, Alone, NEW c \in Callers, Runs(c), job[c].at \in {"reorg", "reorging"},
           ~job[c].back, NEW idx, DOMAIN idx = DOMAIN index,
           \A b \in DOMAIN index : index[b] \subseteq idx[b], GoBack(c, idx),
           UNCHANGED <<env, diskBest, blockCache, checkpointNode>>,
           Undisturbed(env) => ~Clean(job[c].target, env)
    PROVE  AloneOK'
<1>1. PICK j \in JobType : j = job[c] /\ j.at \in {"reorg", "reorging"} /\ JobOK(j, DOMAIN index, env)
  BY CallFacts
<1>2. PlaceOK(j, index, diskBest) /\ CacheOK(j, diskBest, blockCache)
      /\ CheckpointOK(j, diskBest, checkpointNode) /\ WorkOK(j, DOMAIN index, diskBest, env)
  BY <1>1, OneFacts
<1>3. PICK o \in DOMAIN index : o = j.orig BY <1>1 DEF JobOK, Reorganizing
<1>4. "valid" \in index[o] BY <1>1, <1>2, <1>3 DEF PlaceOK, Reorganizing
<1>5. BadOnTheWay(o) = {}
  <2>1. IndexOK /\ DiskOK BY DEF BaseOK
  <2>2. diskBest \in Blocks /\ o \in Blocks /\ bestChain = Path[diskBest] BY <2>1, ChainFacts DEF DiskOK
  <2>3. PICK d : d = Detached(Path[diskBest], o) OBVIOUS
  <2>4. PICK a : a = Attached(Path[diskBest], o) OBVIOUS
  <2>5. Way(Path[diskBest], o, d, a) BY <2>2, <2>3, <2>4, PlanIsWay
  <2>6. Range(a) \subseteq On(o) BY <2>2, <2>5, WayBlocks
  <2>7. a \in Seq(Blocks) BY <2>5 DEF Way
  <2>8. \A i \in 1 .. Len(a) : a[i] \in On(o) BY <2>6, <2>7 DEF Range
  <2>9. \A i \in 1 .. Len(a) : ~KnownInvalid(index[a[i]]) BY <1>4, <2>8, OrigValid
  <2>. QED BY <2>2, <2>4, <2>9 DEF BadOnTheWay
<1>6. index' = idx /\ Locked(c, Plan(c, o, TRUE)) /\ panicked' = panicked BY <1>1, <1>3, <1>5 DEF GoBack
<1>7. PICK back \in BOOLEAN : back = TRUE OBVIOUS
<1>8. PICK k : k = Plan(c, o, back) OBVIOUS
<1>9. job' = [job EXCEPT ![c] = k] BY <1>6, <1>7, <1>8 DEF Locked
<1>10. o = (IF back THEN j.orig ELSE j.target) BY <1>3, <1>7
<1>11. back /\ Undisturbed(env) => ~Clean(j.target, env) BY <1>1
<1>12. DOMAIN index' = DOMAIN index /\ \A b \in DOMAIN index : index[b] \subseteq index'[b] BY <1>6
<1>. QED BY <1>1, <1>2, <1>6, <1>8, <1>9, <1>10, <1>11, <1>12, AlonePlan

LEMMA AloneReorg == ASSUME BaseOK, AloneOK, Alone, NEW c \in Callers, Reorg(c) PROVE AloneOK'
<1>1. Runs(c) /\ job[c].at = "reorg" BY DEF Reorg, At
<1>2. PICK j \in JobType : j = job[c] /\ j.at = "reorg" /\ JobOK(j, DOMAIN index, env)
  BY <1>1, CallFacts
<1>3. PlaceOK(j, index, diskBest) /\ CacheOK(j, diskBest, blockCache)
      /\ CheckpointOK(j, diskBest, checkpointNode) /\ WorkOK(j, DOMAIN index, diskBest, env)
  BY <1>1, <1>2, OneFacts
<1>4. ~j.back BY <1>2, <1>3 DEF PlaceOK
<1>5. PICK t \in DOMAIN index : t = j.target BY <1>2 DEF JobOK, Reorganizing
<1>6. UNCHANGED <<env, diskBest, blockCache, checkpointNode>> BY DEF Reorg, cps, disk
<1>7. IndexOK /\ DiskOK BY DEF BaseOK
<1>8. CASE BadOnTheWay(t) = {}
  <2>1. Locked(c, Plan(c, t, FALSE)) /\ UNCHANGED <<index, panicked>> BY <1>2, <1>5, <1>8 DEF Reorg
  <2>2. PICK back \in BOOLEAN : back = FALSE OBVIOUS
  <2>3. PICK k : k = Plan(c, t, back) OBVIOUS
  <2>4. job' = [job EXCEPT ![c] = k] BY <2>1, <2>2, <2>3 DEF Locked
  <2>5. t = (IF back THEN j.orig ELSE j.target) BY <1>5, <2>2
  <2>6. back /\ Undisturbed(env) => ~Clean(j.target, env) BY <2>2
  <2>7. j.at \in {"reorg", "reorging"} BY <1>2
  <2>8. DOMAIN index' = DOMAIN index /\ \A b \in DOMAIN index : index[b] \subseteq index'[b] BY <2>1
  <2>. QED BY <1>1, <1>2, <1>3, <1>6, <2>1, <2>3, <2>4, <2>5, <2>6, <2>7, <2>8, AlonePlan
<1>9. CASE BadOnTheWay(t) /= {}
  <2>1. PICK bad : bad = BadOnTheWay(t) OBVIOUS
  <2>2. PICK way : way = Attached(bestChain, t) OBVIOUS
  <2>3. PICK above : above = {way[i] : i \in {n \in 1 .. Len(way) : n > Max(bad)}} OBVIOUS
  <2>4. GoBack(c, SetStatusFlags(index, above, "badAncestor"))
    <3>1. {way[i] : i \in {n \in 1 .. Len(way) : bad /= {} /\ n > Max(bad)}} = above BY <1>9, <2>1, <2>3
    <3>. QED BY <1>2, <1>5, <1>9, <2>1, <2>2, <3>1 DEF Reorg
  <2>5. PICK idx : idx = SetStatusFlags(index, above, "badAncestor") OBVIOUS
  <2>6. \E a \in On(t) : env.kind[a] = "invalid"
    <3>1. above = {Attached(bestChain, t)[i] :
                      i \in {n \in 1 .. Len(Attached(bestChain, t)) : n > Max(BadOnTheWay(t))}}
      BY <2>1, <2>2, <2>3
    <3>. QED BY <1>7, <1>9, <3>1, AboveFacts
  <2>7. DOMAIN idx = DOMAIN index /\ \A b \in DOMAIN index : index[b] \subseteq idx[b]
    <3>1. IndexType(index) BY <1>7 DEF IndexOK
    <3>2. PICK f \in Flags : f = "badAncestor" BY DEF Flags
    <3>3. /\ DOMAIN SetStatusFlags(index, above, f) = DOMAIN index
          /\ \A b \in DOMAIN index : index[b] \subseteq SetStatusFlags(index, above, f)[b]
      BY <3>1, SetStatusFacts
    <3>. QED BY <2>5, <3>2, <3>3
  <2>8. ~Clean(job[c].target, env) BY <1>2, <1>5, <2>6 DEF Clean
  <2>9. GoBack(c, idx) BY <2>4, <2>5
  <2>10. job[c].at \in {"reorg", "reorging"} /\ ~job[c].back BY <1>1, <1>2, <1>4
  <2>. QED BY <1>1, <1>6, <2>7, <2>8, <2>9, <2>10, AloneGoBack
<1>. QED BY <1>8, <1>9

\* A panic leaves everything else as it is.
LEMMA AlonePanic ==
    ASSUME AloneOK, Panics, Tip /= Genesis, Parent[Tip] = Genesis, Genesis \notin stakeNodes
    PROVE  AloneOK'
<1>1. UNCHANGED <<env, job, index, bestChain, checkpointNode, stakeNodes, blockCache, diskBest>>
  BY DEF Panics, cps, disk
<1>2. Alone' = Alone /\ Tip' = Tip BY <1>1 DEF Alone, Tip
<1>3. PanicsAtGenesisOnly' BY <1>1, <1>2 DEF PanicsAtGenesisOnly
<1>4. \A d : OneOK(job[d])' <=> OneOK(job[d]) BY <1>1 DEF OneOK
<1>. QED BY <1>1, <1>2, <1>3, <1>4 DEF AloneOK

LEMMA AloneDetach == ASSUME BaseOK, AloneOK, Alone, NEW c \in Callers, Detach(c) PROVE AloneOK'
<1>1. Runs(c) /\ job[c].at = "reorging" /\ job[c].detach /= <<>> BY DEF Detach, At
<1>2. PICK j \in JobType : j = job[c] /\ j.at = "reorging" /\ j.detach /= <<>> /\ JobOK(j, DOMAIN index, env)
  BY <1>1, CallFacts
<1>3. PlaceOK(j, index, diskBest) /\ CacheOK(j, diskBest, blockCache)
      /\ CheckpointOK(j, diskBest, checkpointNode) /\ WorkOK(j, DOMAIN index, diskBest, env)
  BY <1>1, <1>2, OneFacts
<1>4. IndexOK /\ DiskOK /\ MemoryOK BY DEF BaseOK
<1>5. diskBest \in Blocks /\ Tip = diskBest /\ diskBest \in stakeNodes BY <1>4, ChainFacts DEF MemoryOK
<1>6. j.target \in Blocks /\ j.orig \in Blocks
  BY <1>2, <1>4, ChainFacts DEF JobOK, Reorganizing
<1>7. PICK g \in Blocks : g = Goal(j) BY <1>6 DEF Goal
<1>8. PICK d : d = j.detach OBVIOUS
<1>9. Way(Path[diskBest], g, d, j.attach) BY <1>2, <1>3, <1>7, <1>8 DEF PlaceOK, Moving
<1>10. /\ Head(d) = diskBest /\ diskBest /= Genesis /\ Way(Path[Parent[diskBest]], g, Tail(d), j.attach)
       /\ Len(Path[Parent[diskBest]]) - Len(Tail(d)) = Len(Path[diskBest]) - Len(d)
  BY <1>2, <1>5, <1>8, <1>9, WayDown
<1>11. PICK p \in Blocks : p = Parent[diskBest] BY <1>5, <1>10, OnParent
<1>12. \A x : x \in On(diskBest) <=> x = diskBest \/ x \in On(p) BY <1>5, <1>10, <1>11, OnParent
<1>13. p \in On(diskBest) /\ diskBest \in On(diskBest) BY <1>5, <1>10, <1>11, OnParent, OnSelf
<1>14. InChain(bestChain, diskBest) /\ InChain(bestChain, p) BY <1>4, <1>5, <1>11, <1>13, ChainFacts
<1>15. ~FetchPanics(stakeNodes, bestChain, diskBest) BY <1>10, FetchAbove
<1>16. CASE Panics
  <2>1. FetchPanics(fetchStakeNode(stakeNodes, bestChain, diskBest), bestChain, p)
    <3>1. ~panicked BY <1>1 DEF Runs
    <3>2. panicked' BY <1>16 DEF Panics
    <3>. QED BY <1>2, <1>5, <1>8, <1>10, <1>11, <1>14, <1>15, <3>1, <3>2 DEF Detach
  <2>2. fetchStakeNode(stakeNodes, bestChain, diskBest) = stakeNodes BY <1>5 DEF fetchStakeNode
  <2>3. FetchPanics(stakeNodes, bestChain, p) BY <2>1, <2>2
  <2>4. p = Genesis /\ Genesis \notin stakeNodes
    <3>1. TipOf(bestChain) \in stakeNodes BY <1>5 DEF Tip
    <3>. QED BY <2>3, <3>1 DEF FetchPanics
  <2>. QED BY <1>5, <1>10, <1>11, <1>16, <2>4, AlonePanic
<1>17. CASE ~Panics
  <2>1. /\ Disconnected(diskBest)
        /\ Notifies(c, [j EXCEPT !.at = "detached", !.moved = diskBest, !.detach = Tail(@)])
        /\ UNCHANGED <<env, index, checkpointNode, blockCache, panicked>>
    BY <1>2, <1>5, <1>8, <1>10, <1>11, <1>14, <1>17 DEF Detach, cps
  <2>2. diskBest' = p BY <1>11, <2>1 DEF Disconnected
  <2>3. PICK k : k = [j EXCEPT !.at = "detached", !.moved = diskBest, !.detach = Tail(d)] OBVIOUS
  <2>4. job' = [job EXCEPT ![c] = k] BY <1>8, <2>1, <2>3 DEF Notifies
  <2>5. /\ k.at = "detached" /\ k.back = j.back /\ k.target = j.target /\ k.orig = j.orig
        /\ k.moved = diskBest /\ k.detach = Tail(d) /\ k.attach = j.attach
    BY <2>3 DEF JobType
  <2>6. PlaceOK(k, index', diskBest')
    <3>1. Goal(k) = g BY <1>7, <2>5 DEF Goal
    <3>2. Way(Path[p], Goal(k), k.detach, k.attach) BY <1>10, <1>11, <2>5, <3>1
    <3>3. "valid" \in index'[k.orig] BY <1>2, <1>3, <2>1, <2>5 DEF PlaceOK, Reorganizing
    <3>. QED BY <2>2, <2>5, <3>2, <3>3 DEF PlaceOK, Reorganizing
  <2>7. CacheOK(k, diskBest', blockCache') BY <1>2, <1>3, <1>12, <2>1, <2>2, <2>5 DEF CacheOK
  <2>8. CheckpointOK(k, diskBest', checkpointNode')
    <3>1. SUFFICES ASSUME checkpointNode /= None
                   PROVE  /\ checkpointNode \in On(p)
                          /\ checkpointNode \in On(j.target) /\ checkpointNode \in On(j.orig)
                          /\ Height[checkpointNode] + 1 <= Len(Path[p]) - Len(Tail(d))
      BY <2>1, <2>2, <2>5 DEF CheckpointOK
    <3>2. PICK cp : cp = checkpointNode OBVIOUS
    <3>3. /\ cp \in On(diskBest) /\ cp \in On(j.target) /\ cp \in On(j.orig)
          /\ Height[cp] + 1 <= Len(Path[diskBest]) - Len(d)
      BY <3>1, <3>2, <1>2, <1>3, <1>8 DEF CheckpointOK, Reorganizing, Moving
    <3>4. cp /= diskBest
      <4>1. Len(Path[diskBest]) = Height[diskBest] + 1 /\ Height[diskBest] \in Nat BY <1>5, TreeFacts
      <4>2. Len(d) \in Nat /\ Len(d) /= 0
        <5>1. d \in Seq(Blocks) /\ d /= <<>> BY <1>2, <1>8, <1>9 DEF Way
        <5>. QED BY <5>1
      <4>. QED BY <3>3, <4>1, <4>2
    <3>5. cp \in On(p) BY <3>3, <3>4, <1>12
    <3>6. Height[cp] + 1 <= Len(Path[p]) - Len(Tail(d)) BY <3>3, <1>10, <1>11
    <3>. QED BY <3>2, <3>3, <3>5, <3>6
  <2>9. WorkOK(k, DOMAIN index', diskBest', env)
    <3>1. SUFFICES ASSUME Undisturbed(env)
                   PROVE  /\ \A b \in DOMAIN index : b /= j.target /\ Clean(b, env) => WorkSum[b] <= WorkSum[j.orig]
                          /\ WorkSum[j.orig] < WorkSum[j.target]
                          /\ j.back => ~Clean(j.target, env)
      BY <2>1, <2>5 DEF WorkOK
    <3>. QED BY <1>2, <1>3, <3>1 DEF WorkOK, Reorganizing
  <2>. QED BY <1>1, <2>1, <2>4, <2>6, <2>7, <2>8, <2>9, AloneStep
<1>. QED BY <1>16, <1>17

\* What a job on its way upwards has before it.
LEMMA UpFacts ==
    ASSUME BaseOK, NEW j \in JobType, j.at = "reorging", j.detach = <<>>, j.attach /= <<>>,
           JobOK(j, DOMAIN index, env), PlaceOK(j, index, diskBest), NEW b, b = Head(j.attach)
    PROVE  /\ b \in DOMAIN index /\ b \in Blocks /\ b /= Genesis /\ Parent[b] = diskBest
           /\ Way(Path[b], Goal(j), <<>>, Tail(j.attach)) /\ Len(Path[b]) = Len(Path[diskBest]) + 1
           /\ b \in On(Goal(j)) /\ (j.back => "valid" \in index[b])
<1>1. IndexOK /\ DiskOK BY DEF BaseOK
<1>2. diskBest \in Blocks BY <1>1, ChainFacts
<1>3. j.target \in DOMAIN index /\ j.orig \in DOMAIN index BY DEF JobOK, Reorganizing
<1>4. PICK g \in DOMAIN index : g = Goal(j) BY <1>3 DEF Goal
<1>5. g \in Blocks /\ On(g) \subseteq DOMAIN index BY <1>1, <1>4, ChainFacts
<1>6. PICK t : t = j.attach OBVIOUS
<1>7. Way(Path[diskBest], g, <<>>, t) BY <1>4, <1>6 DEF PlaceOK, Moving
<1>8. /\ Head(t) \in Blocks \ {Genesis} /\ Parent[Head(t)] = diskBest
      /\ Way(Path[Head(t)], g, <<>>, Tail(t)) /\ Len(Path[Head(t)]) = Len(Path[diskBest]) + 1
  BY <1>2, <1>5, <1>6, <1>7, WayUp
<1>9. PICK none : none = <<>> OBVIOUS
<1>10. Way(Path[diskBest], g, none, t) BY <1>7, <1>9
<1>11. Head(t) \in On(g) BY <1>2, <1>5, <1>6, <1>10, WayBlocks
<1>12. ASSUME j.back PROVE "valid" \in index[Head(t)]
  <2>1. g = j.orig BY <1>4, <1>12 DEF Goal
  <2>2. "valid" \in index[g] BY <2>1 DEF PlaceOK, Reorganizing
  <2>. QED BY <1>4, <1>11, <2>2, OrigValid
<1>. QED BY <1>4, <1>5, <1>6, <1>8, <1>11, <1>12

LEMMA AloneAttach == ASSUME BaseOK, AloneOK, Alone, NEW c \in Callers, Attach(c) PROVE AloneOK'
<1>1. Runs(c) /\ job[c].at = "reorging" /\ job[c].detach = <<>> /\ job[c].attach /= <<>> BY DEF Attach, At
<1>2. PICK j \in JobType : /\ j = job[c] /\ j.at = "reorging" /\ j.detach = <<>> /\ j.attach /= <<>>
                           /\ JobOK(j, DOMAIN index, env)
  BY <1>1, CallFacts
<1>3. PlaceOK(j, index, diskBest) /\ CacheOK(j, diskBest, blockCache)
      /\ CheckpointOK(j, diskBest, checkpointNode) /\ WorkOK(j, DOMAIN index, diskBest, env)
  BY <1>1, <1>2, OneFacts
<1>4. PICK b : b = Head(j.attach) OBVIOUS
<1>5. /\ b \in DOMAIN index /\ b \in Blocks /\ b /= Genesis /\ Parent[b] = diskBest
      /\ Way(Path[b], Goal(j), <<>>, Tail(j.attach)) /\ Len(Path[b]) = Len(Path[diskBest]) + 1
      /\ b \in On(Goal(j)) /\ (j.back => "valid" \in index[b])
  BY <1>2, <1>3, <1>4, UpFacts
<1>6. IndexOK /\ DiskOK BY DEF BaseOK
<1>7. Tip = diskBest /\ diskBest \in Blocks BY <1>6, ChainFacts
<1>8. ~FetchPanics(stakeNodes, bestChain, b) BY <1>5, FetchAbove
<1>9. CASE /\ "valid" \notin index[b] /\ env.kind[b] = "invalid"
           /\ GoBack(c, FailedToConnect(j.attach)) /\ UNCHANGED <<env, cps, blockCache, disk>>
  <2>1. ~j.back BY <1>5, <1>9
  <2>2. ~Clean(j.target, env) BY <1>5, <1>9, <2>1 DEF Goal, Clean
  <2>3. PICK s \in Seq(Blocks) : s = j.attach BY DEF JobType
  <2>4. PICK idx : idx = FailedToConnect(s) OBVIOUS
  <2>5. s /= <<>> /\ Range(s) \subseteq DOMAIN index /\ Genesis \notin Range(s) /\ Linked(s)
        /\ env.kind[Head(s)] = "invalid" /\ "valid" \notin index[Head(s)]
    <3>1. Range(j.attach) \subseteq DOMAIN index /\ Genesis \notin Range(j.attach) /\ Linked(j.attach)
      BY <1>2, MovingFacts
    <3>. QED BY <1>2, <1>4, <1>9, <2>3, <3>1
  <2>6. DOMAIN idx = DOMAIN index /\ \A x \in DOMAIN index : index[x] \subseteq idx[x]
    BY <1>6, <2>4, <2>5, FailedFacts
  <2>7. GoBack(c, idx) BY <1>9, <2>3, <2>4
  <2>8. job[c].at \in {"reorg", "reorging"} /\ ~job[c].back /\ ~Clean(job[c].target, env)
    BY <1>2, <2>1, <2>2
  <2>9. UNCHANGED <<env, diskBest, blockCache, checkpointNode>> BY <1>9 DEF cps, disk
  <2>. QED BY <1>1, <2>6, <2>7, <2>8, <2>9, AloneGoBack
<1>10. CASE /\ "valid" \notin index[b] /\ Fault /\ GoBack(c, index) /\ UNCHANGED <<env, cps, blockCache, disk>>
  <2>1. PICK idx : idx = index OBVIOUS
  <2>2. GoBack(c, idx) /\ DOMAIN idx = DOMAIN index /\ \A x \in DOMAIN index : index[x] \subseteq idx[x]
    BY <1>10, <2>1
  <2>3. ~Undisturbed(env) BY <1>10, NoFaultAlone
  <2>4. job[c].at \in {"reorg", "reorging"} /\ ~job[c].back BY <1>2, <1>5, <1>10
  <2>5. UNCHANGED <<env, diskBest, blockCache, checkpointNode>> BY <1>10 DEF cps, disk
  <2>. QED BY <1>1, <2>2, <2>3, <2>4, <2>5, AloneGoBack
<1>11. CASE /\ Connected(b, IF "valid" \in index[b] THEN index ELSE SetStatusFlags(index, {b}, "valid"))
            /\ Notifies(c, [j EXCEPT !.at = "attached", !.moved = b, !.attach = Tail(@)])
            /\ UNCHANGED <<env, cps, blockCache, panicked>>
  <2>1. diskBest' = b /\ index' = (IF "valid" \in index[b] THEN index ELSE SetStatusFlags(index, {b}, "valid"))
    BY <1>11 DEF Connected
  <2>2. DOMAIN index' = DOMAIN index /\ \A x \in DOMAIN index : index[x] \subseteq index'[x]
    <3>1. CASE index' = index BY <3>1
    <3>2. CASE index' = SetStatusFlags(index, {b}, "valid")
      <4>1. IndexType(index) BY <1>6 DEF IndexOK
      <4>2. PICK f \in Flags : f = "valid" BY DEF Flags
      <4>3. PICK S : S = {b} OBVIOUS
      <4>4. /\ DOMAIN SetStatusFlags(index, S, f) = DOMAIN index
            /\ \A x \in DOMAIN index : index[x] \subseteq SetStatusFlags(index, S, f)[x]
        BY <4>1, SetStatusFacts
      <4>. QED BY <3>2, <4>2, <4>3, <4>4
    <3>. QED BY <2>1, <3>1, <3>2
  <2>3. UNCHANGED <<env, checkpointNode, blockCache, panicked>> BY <1>11 DEF cps
  <2>4. PICK k : k = [j EXCEPT !.at = "attached", !.moved = b, !.attach = Tail(@)] OBVIOUS
  <2>5. job' = [job EXCEPT ![c] = k] BY <1>11, <2>4 DEF Notifies
  <2>6. /\ k.at = "attached" /\ k.back = j.back /\ k.target = j.target /\ k.orig = j.orig
        /\ k.moved = b /\ k.detach = <<>> /\ k.attach = Tail(j.attach)
    BY <1>2, <2>4 DEF JobType
  <2>7. \A x \in On(diskBest) : x \in On(b) BY <1>5, <1>7, OnChild
  <2>8. PlaceOK(k, index', diskBest')
    <3>1. Goal(k) = Goal(j) BY <2>6 DEF Goal
    <3>2. Way(Path[b], Goal(k), k.detach, k.attach) BY <1>5, <2>6, <3>1
    <3>3. "valid" \in index[j.orig] /\ j.orig \in DOMAIN index
      BY <1>2, <1>3 DEF PlaceOK, Reorganizing, JobOK
    <3>4. "valid" \in index'[k.orig] BY <2>2, <2>6, <3>3
    <3>. QED BY <2>1, <2>6, <3>2, <3>4 DEF PlaceOK, Reorganizing
  <2>9. CacheOK(k, diskBest', blockCache') BY <1>2, <1>3, <2>1, <2>3, <2>7 DEF CacheOK
  <2>10. CheckpointOK(k, diskBest', checkpointNode')
    <3>1. SUFFICES ASSUME checkpointNode /= None
                   PROVE  /\ checkpointNode \in On(b)
                          /\ checkpointNode \in On(j.target) /\ checkpointNode \in On(j.orig)
                          /\ Height[checkpointNode] + 1 <= Len(Path[b]) - Len(k.detach)
      BY <2>1, <2>3, <2>6 DEF CheckpointOK
    <3>2. PICK cp : cp = checkpointNode OBVIOUS
    <3>3. /\ cp \in On(diskBest) /\ cp \in On(j.target) /\ cp \in On(j.orig)
      BY <3>1, <3>2, <1>2, <1>3 DEF CheckpointOK, Reorganizing, Moving
    <3>4. Height[cp] \in Nat /\ Height[cp] <= Height[diskBest] /\ Height[diskBest] \in Nat
          /\ Len(Path[diskBest]) = Height[diskBest] + 1
      <4>1. cp \in Blocks /\ Height[cp] <= Height[diskBest] BY <3>3, <1>7, OnFacts
      <4>. QED BY <4>1, <1>7, TreeFacts
    <3>5. Len(k.detach) = 0 BY <2>6
    <3>6. Height[cp] + 1 <= Len(Path[b]) - Len(k.detach) BY <3>4, <3>5, <1>5
    <3>. QED BY <3>2, <3>3, <3>6, <2>7
  <2>11. WorkOK(k, DOMAIN index', diskBest', env)
    <3>1. SUFFICES ASSUME Undisturbed(env)
                   PROVE  /\ \A x \in DOMAIN index : x /= j.target /\ Clean(x, env) => WorkSum[x] <= WorkSum[j.orig]
                          /\ WorkSum[j.orig] < WorkSum[j.target]
                          /\ j.back => ~Clean(j.target, env)
      BY <2>2, <2>6 DEF WorkOK
    <3>. QED BY <1>2, <1>3, <3>1 DEF WorkOK, Reorganizing
  <2>. QED BY <1>1, <2>3, <2>5, <2>8, <2>9, <2>10, <2>11, AloneStep
<1>. QED BY <1>2, <1>4, <1>5, <1>7, <1>8, <1>9, <1>10, <1>11 DEF Attach, KnownValid

\* A job that stays in its reorganization keeps what is known of the works and
\* of the checkpoint.
LEMMA SameReorg ==
    ASSUME NEW j, NEW k, NEW D, NEW best, NEW e, NEW cp, j.at \in Reorganizing, k.at \in Reorganizing,
           k.target = j.target, k.orig = j.orig, k.back = j.back, k.detach = j.detach,
           k.at \in Moving => j.at \in Moving,
           WorkOK(j, D, best, e), CheckpointOK(j, best, cp)
    PROVE  WorkOK(k, D, best, e) /\ CheckpointOK(k, best, cp)
<1>1. k.at \notin {"idle", "accept", "accepted", "extended", "connect", "extend"} BY DEF Reorganizing
<1>2. WorkOK(k, D, best, e) BY <1>1 DEF WorkOK
<1>3. CheckpointOK(k, best, cp) BY <1>1 DEF CheckpointOK
<1>. QED BY <1>2, <1>3

LEMMA AloneMoved == ASSUME BaseOK, AloneOK, Alone, NEW c \in Callers, Moved(c) PROVE AloneOK'
<1>1. Runs(c) /\ job[c].at \in {"detached", "attached"} BY DEF Moved, At
<1>2. PICK j \in JobType : j = job[c] /\ j.at \in {"detached", "attached"} /\ JobOK(j, DOMAIN index, env)
  BY <1>1, CallFacts
<1>3. PlaceOK(j, index, diskBest) /\ CacheOK(j, diskBest, blockCache)
      /\ CheckpointOK(j, diskBest, checkpointNode) /\ WorkOK(j, DOMAIN index, diskBest, env)
  BY <1>1, <1>2, OneFacts
<1>4. j.at = "attached" => j.moved = diskBest /\ j.moved /= Genesis BY <1>2, <1>3 DEF PlaceOK, JobOK
<1>5. j.at = "attached" => ~AfterConnectPanics(j.moved) BY <1>4, AfterTip
<1>6. /\ \/ j.at = "detached" /\ blockCache' = blockCache \ {j.moved}
         \/ j.at = "attached" /\ AfterConnect(j.moved)
      /\ Locked(c, [j EXCEPT !.at = "reorging"])
      /\ UNCHANGED <<env, index, checkpointNode, diskBest, panicked>>
  BY <1>2, <1>5 DEF Moved, DropFromCache, cps, disk
<1>7. PICK k : k = [j EXCEPT !.at = "reorging"] OBVIOUS
<1>8. job' = [job EXCEPT ![c] = k] BY <1>6, <1>7 DEF Locked
<1>9. /\ k.at = "reorging" /\ k.target = j.target /\ k.orig = j.orig /\ k.back = j.back
      /\ k.detach = j.detach /\ k.attach = j.attach
  BY <1>7 DEF JobType
<1>10. PlaceOK(k, index', diskBest')
  <2>1. Goal(k) = Goal(j) BY <1>9 DEF Goal
  <2>2. "valid" \in index[j.orig] /\ Way(Path[diskBest], Goal(j), j.detach, j.attach)
    BY <1>2, <1>3 DEF PlaceOK, Reorganizing, Moving
  <2>. QED BY <1>6, <1>9, <2>1, <2>2 DEF PlaceOK, Reorganizing
<1>11. CacheOK(k, diskBest', blockCache')
  <2>1. CASE j.at = "detached" /\ blockCache' = blockCache \ {j.moved}
    BY <1>3, <1>6, <2>1 DEF CacheOK
  <2>2. CASE j.at = "attached" /\ AfterConnect(j.moved)
    <3>1. blockCache' \subseteq blockCache \cup {j.moved} BY <2>2 DEF AfterConnect
    <3>2. diskBest \in Blocks BY ChainFacts DEF BaseOK
    <3>3. j.moved \in On(diskBest) BY <1>4, <2>2, <3>2, OnSelf
    <3>. QED BY <1>3, <1>6, <2>2, <3>1, <3>3 DEF CacheOK
  <2>. QED BY <1>6, <2>1, <2>2
<1>12. WorkOK(k, DOMAIN index, diskBest, env) /\ CheckpointOK(k, diskBest, checkpointNode)
  <2>1. j.at \in Reorganizing /\ k.at \in Reorganizing /\ j.at \in Moving
    BY <1>2, <1>9 DEF Reorganizing, Moving
  <2>. QED BY <1>3, <1>9, <2>1, SameReorg
<1>. QED BY <1>1, <1>6, <1>8, <1>10, <1>11, <1>12, AloneStep

LEMMA AloneArrived == ASSUME BaseOK, AloneOK, Alone, NEW c \in Callers, Arrived(c) PROVE AloneOK'
<1>1. Runs(c) /\ job[c].at = "reorging" /\ job[c].detach = <<>> /\ job[c].attach = <<>> BY DEF Arrived, At
<1>2. PICK j \in JobType : /\ j = job[c] /\ j.at = "reorging" /\ j.detach = <<>> /\ j.attach = <<>>
                           /\ JobOK(j, DOMAIN index, env)
  BY <1>1, CallFacts
<1>3. PlaceOK(j, index, diskBest) /\ CacheOK(j, diskBest, blockCache)
      /\ CheckpointOK(j, diskBest, checkpointNode) /\ WorkOK(j, DOMAIN index, diskBest, env)
  BY <1>1, <1>2, OneFacts
<1>4. UNCHANGED <<env, index, checkpointNode, blockCache, diskBest, panicked>> BY DEF Arrived, cps, disk
<1>5. PICK k : k = [j EXCEPT !.at = IF j.back THEN "done" ELSE "reorged"] OBVIOUS
<1>6. job' = [job EXCEPT ![c] = k] BY <1>2, <1>5 DEF Arrived, Notifies
<1>7. /\ k.at = (IF j.back THEN "done" ELSE "reorged") /\ k.target = j.target /\ k.orig = j.orig
      /\ k.back = j.back /\ k.detach = j.detach
  BY <1>5 DEF JobType
<1>8. diskBest = Goal(j)
  <2>1. diskBest \in Blocks BY ChainFacts DEF BaseOK
  <2>2. j.target \in Blocks /\ j.orig \in Blocks BY <1>2, ChainFacts DEF BaseOK, JobOK, Reorganizing
  <2>3. PICK g \in Blocks : g = Goal(j) BY <2>2 DEF Goal
  <2>4. Way(Path[diskBest], g, <<>>, <<>>) BY <1>2, <1>3, <2>3 DEF PlaceOK, Moving
  <2>. QED BY <2>1, <2>3, <2>4, WayEnd
<1>9. PlaceOK(k, index', diskBest')
  <2>1. Goal(k) = diskBest BY <1>7, <1>8 DEF Goal
  <2>2. "valid" \in index[j.orig] BY <1>2, <1>3 DEF PlaceOK, Reorganizing
  <2>3. ~j.back => j.target = diskBest BY <1>8 DEF Goal
  <2>4. k.at \in {"done", "reorged"} /\ (k.at = "reorged" => ~k.back) BY <1>7
  <2>. QED BY <1>4, <1>7, <2>1, <2>2, <2>3, <2>4 DEF PlaceOK, Reorganizing, Moving
<1>10. CacheOK(k, diskBest', blockCache') BY <1>2, <1>3, <1>4 DEF CacheOK
<1>11. WorkOK(k, DOMAIN index, diskBest, env) /\ CheckpointOK(k, diskBest, checkpointNode)
  <2>1. j.at \in Reorganizing /\ k.at \in Reorganizing /\ j.at \in Moving
    BY <1>2, <1>7 DEF Reorganizing, Moving
  <2>. QED BY <1>3, <1>7, <2>1, SameReorg
<1>. QED BY <1>1, <1>4, <1>6, <1>9, <1>10, <1>11, AloneStep

LEMMA AloneReorged == ASSUME BaseOK, AloneOK, Alone, NEW c \in Callers, Reorged(c) PROVE AloneOK'
<1>1. Runs(c) /\ job[c].at = "reorged" BY DEF Reorged, At
<1>2. PICK j \in JobType : j = job[c] /\ j.at = "reorged" BY <1>1, CallFacts
<1>3. PlaceOK(j, index, diskBest) /\ CacheOK(j, diskBest, blockCache)
      /\ CheckpointOK(j, diskBest, checkpointNode) /\ WorkOK(j, DOMAIN index, diskBest, env)
  BY <1>1, <1>2, OneFacts
<1>4. UNCHANGED <<env, index, checkpointNode, blockCache, diskBest, panicked>> BY DEF Reorged, cps, disk
<1>5. PICK k : k = [j EXCEPT !.at = "done"] OBVIOUS
<1>6. job' = [job EXCEPT ![c] = k] BY <1>2, <1>5 DEF Reorged, Notifies
<1>7. /\ k.at = "done" /\ k.target = j.target /\ k.orig = j.orig /\ k.back = j.back /\ k.detach = j.detach
  BY <1>5 DEF JobType
<1>8. PlaceOK(k, index', diskBest')
  <2>1. ~j.back /\ j.target = diskBest /\ "valid" \in index[j.orig]
    BY <1>2, <1>3 DEF PlaceOK, Reorganizing
  <2>2. Goal(k) = diskBest BY <1>7, <2>1 DEF Goal
  <2>. QED BY <1>4, <1>7, <2>1, <2>2 DEF PlaceOK, Reorganizing, Moving
<1>9. CacheOK(k, diskBest', blockCache') BY <1>2, <1>3, <1>4 DEF CacheOK
<1>10. WorkOK(k, DOMAIN index, diskBest, env) /\ CheckpointOK(k, diskBest, checkpointNode)
  <2>1. j.at \in Reorganizing /\ k.at \in Reorganizing /\ k.at \notin Moving
    BY <1>2, <1>7 DEF Reorganizing, Moving
  <2>. QED BY <1>3, <1>7, <2>1, SameReorg
<1>. QED BY <1>1, <1>4, <1>6, <1>8, <1>9, <1>10, AloneStep

LEMMA AloneDone == ASSUME BaseOK, AloneOK, Alone, NEW c \in Callers, Done(c) PROVE AloneOK'
<1>1. Runs(c) /\ job[c].at = "done" BY DEF Done, At
<1>2. PICK j \in JobType : j = job[c] /\ j.at = "done" /\ JobOK(j, DOMAIN index, env) BY <1>1, CallFacts
<1>3. PlaceOK(j, index, diskBest) /\ CacheOK(j, diskBest, blockCache)
      /\ CheckpointOK(j, diskBest, checkpointNode) /\ WorkOK(j, DOMAIN index, diskBest, env)
  BY <1>1, <1>2, OneFacts
<1>4. UNCHANGED <<env, index, checkpointNode, blockCache, diskBest, panicked>> BY DEF Done, cps
<1>5. Goal(j) = diskBest BY <1>2, <1>3 DEF PlaceOK
<1>6. PICK k : job' = [job EXCEPT ![c] = k] /\ k.at \in {"idle", "accepted"} /\ ~k.back
  <2>1. CASE j.back \/ j.forced
    <3>1. PICK k : k = Idle OBVIOUS
    <3>2. job' = [job EXCEPT ![c] = k] BY <1>2, <2>1, <3>1 DEF Done, Returns, Notifies
    <3>3. k.at = "idle" /\ ~k.back BY <3>1, IdleFacts
    <3>. QED BY <3>2, <3>3
  <2>2. CASE ~(j.back \/ j.forced)
    <3>1. PICK k : k = [j EXCEPT !.at = "accepted"] OBVIOUS
    <3>2. job' = [job EXCEPT ![c] = k] BY <1>2, <2>2, <3>1 DEF Done, Notifies
    <3>3. k.at = "accepted" /\ ~k.back BY <2>2, <3>1 DEF JobType
    <3>. QED BY <3>2, <3>3
  <2>. QED BY <2>1, <2>2
<1>7. PlaceOK(k, index', diskBest') BY <1>6 DEF PlaceOK, Reorganizing, Moving
<1>8. CacheOK(k, diskBest', blockCache') BY <1>2, <1>3, <1>4 DEF CacheOK
<1>9. CheckpointOK(k, diskBest', checkpointNode')
  <2>1. checkpointNode /= None => checkpointNode \in On(diskBest) BY <1>3 DEF CheckpointOK
  <2>. QED BY <1>4, <1>6, <2>1 DEF CheckpointOK, Reorganizing, Moving
<1>10. WorkOK(k, DOMAIN index', diskBest', env)
  <2>1. SUFFICES ASSUME Undisturbed(env), NEW b \in DOMAIN index, Clean(b, env)
                 PROVE  WorkSum[b] <= WorkSum[diskBest]
    BY <1>4, <1>6 DEF WorkOK, Reorganizing
  <2>2. /\ b /= j.target => WorkSum[b] <= WorkSum[j.orig]
        /\ WorkSum[j.orig] < WorkSum[j.target]
        /\ j.back => ~Clean(j.target, env)
    BY <1>2, <1>3, <2>1 DEF WorkOK, Reorganizing
  <2>3. b \in Blocks /\ j.target \in Blocks /\ j.orig \in Blocks
    BY <1>2, ChainFacts DEF BaseOK, JobOK, Reorganizing
  <2>4. WorkSum[b] \in Nat /\ WorkSum[j.target] \in Nat /\ WorkSum[j.orig] \in Nat BY <2>3, WorkFacts
  <2>5. CASE j.back
    <3>1. b /= j.target BY <2>1, <2>2, <2>5
    <3>2. diskBest = j.orig BY <1>5, <2>5 DEF Goal
    <3>. QED BY <2>2, <3>1, <3>2
  <2>6. CASE ~j.back
    <3>1. diskBest = j.target BY <1>5, <2>6 DEF Goal
    <3>2. CASE b = j.target BY <2>4, <3>1, <3>2
    <3>3. CASE b /= j.target BY <2>2, <2>4, <3>1, <3>3
    <3>. QED BY <3>2, <3>3
  <2>. QED BY <2>5, <2>6
<1>. QED BY <1>1, <1>4, <1>6, <1>7, <1>8, <1>9, <1>10, AloneStep

LEMMA AloneRestart == ASSUME BaseOK, Restart PROVE AloneOK'
<1>1. /\ UNCHANGED <<env, diskBest, panicked>> /\ ~panicked /\ job' = [c \in {"p", "q"} |-> Idle]
      /\ checkpointNode' = None /\ blockCache' = {diskBest, Parent[diskBest]}
      /\ restarts < env.restarts
  BY DEF Restart, disk
<1>2. \A c \in env.callers : job'[c] = Idle
  <2>1. env.callers \subseteq {"p", "q"} BY EnvFacts DEF BaseOK, IndexOK, Callers
  <2>. QED BY <1>1, <2>1
<1>3. PICK k : k = Idle OBVIOUS
<1>4. k.at = "idle" /\ ~k.back BY <1>3, IdleFacts
<1>5. PlaceOK(k, index', diskBest') BY <1>4 DEF PlaceOK, Reorganizing, Moving
<1>6. CacheOK(k, diskBest', blockCache')
  <2>1. diskBest \in Blocks BY ChainFacts DEF BaseOK
  <2>2. diskBest \in On(diskBest) /\ Parent[diskBest] \in On(diskBest)
    <3>1. CASE diskBest = Genesis BY <2>1, <3>1, OnSelf, TreeAssumption
    <3>2. CASE diskBest /= Genesis BY <2>1, <3>2, OnSelf, OnParent
    <3>. QED BY <3>1, <3>2
  <2>. QED BY <1>1, <2>2 DEF CacheOK
<1>7. CheckpointOK(k, diskBest', checkpointNode') BY <1>1 DEF CheckpointOK
<1>8. WorkOK(k, DOMAIN index', diskBest', env')
  <2>1. env.restarts /= 0
    <3>1. restarts \in Nat BY DEF BaseOK, CountOK
    <3>. QED BY <1>1, <3>1
  <2>. QED BY <1>1, <2>1 DEF WorkOK, Undisturbed
<1>9. PanicsAtGenesisOnly' BY <1>1 DEF PanicsAtGenesisOnly
<1>. QED BY <1>1, <1>2, <1>3, <1>5, <1>6, <1>7, <1>8, <1>9 DEF AloneOK, OneOK

LEMMA AloneNext == ASSUME BaseOK, AloneOK, BaseOK', Next PROVE AloneOK'
<1>1. CASE Restart BY <1>1, AloneRestart
<1>2. ASSUME NEW c \in Callers, ProcessBlock(c) \/ ForceHeadReorganization(c) \/ Steps(c) PROVE AloneOK'
  <2>1. CASE Alone
    BY <1>2, <2>1, AloneProcessBlock, AloneForce, AloneAccept, AloneConnect, AloneExtend, AloneExtended,
       AloneAccepted, AloneReorg, AloneDetach, AloneAttach, AloneMoved, AloneArrived, AloneReorged, AloneDone
       DEF Steps
  <2>2. CASE ~Alone
    <3>1. env' = env
      BY <1>2 DEF Steps, ProcessBlock, ForceHeadReorganization, Accept, ConnectBestChain, Extend, Extended,
                  Accepted, Reorg, Detach, Attach, Moved, Arrived, Reorged, Done, Panics
    <3>. QED BY <2>2, <3>1 DEF AloneOK, Alone
  <2>. QED BY <2>1, <2>2
<1>. QED BY <1>1, <1>2 DEF Next, Callers

LEMMA AloneInit == ASSUME Init, BaseOK PROVE AloneOK
<1>1. /\ env \in Scenarios /\ diskBest = Genesis /\ job = [c \in {"p", "q"} |-> Idle]
      /\ checkpointNode = None /\ blockCache = {Genesis, Parent[Genesis]} /\ panicked = FALSE
      /\ index = [b \in {Genesis} |-> {"data", "valid"}]
  BY DEF Init, Fresh
<1>2. \A c \in env.callers : job[c] = Idle
  <2>1. env.callers \subseteq {"p", "q"} BY <1>1, EnvFacts DEF Callers
  <2>. QED BY <1>1, <2>1
<1>3. PICK k : k = Idle OBVIOUS
<1>4. k.at = "idle" /\ ~k.back BY <1>3, IdleFacts
<1>5. PlaceOK(k, index, diskBest) BY <1>4 DEF PlaceOK, Reorganizing, Moving
<1>6. CacheOK(k, diskBest, blockCache)
  <2>1. Parent[Genesis] = Genesis /\ Genesis \in On(Genesis) BY TreeAssumption, OnSelf
  <2>. QED BY <1>1, <2>1 DEF CacheOK
<1>7. CheckpointOK(k, diskBest, checkpointNode) BY <1>1 DEF CheckpointOK
<1>8. WorkOK(k, DOMAIN index, diskBest, env)
  <2>1. WorkSum[Genesis] <= WorkSum[Genesis]
    <3>1. WorkSum[Genesis] \in Nat BY TreeAssumption, WorkFacts
    <3>. QED BY <3>1
  <2>2. DOMAIN index = {Genesis} BY <1>1
  <2>. QED BY <1>1, <1>4, <2>1, <2>2 DEF WorkOK, Reorganizing
<1>9. PanicsAtGenesisOnly BY <1>1 DEF PanicsAtGenesisOnly
<1>. QED BY <1>2, <1>3, <1>5, <1>6, <1>7, <1>8, <1>9 DEF AloneOK, OneOK

-----------------------------------------------------------------------------
(* What the invariant says of the chain. *)

LEMMA ValidChain == ASSUME BaseOK PROVE MainChainIsValid /\ FlagsAreTrue
<1>1. IndexOK /\ DiskOK BY DEF BaseOK
<1>2. /\ IndexType(index) /\ FlagsOK(index, env.kind, FlagsTrusted)
      /\ PassedOK(DOMAIN index, env, FlagsTrusted)
      /\ diskBest \in DOMAIN index /\ "valid" \in index[diskBest] /\ bestChain = Path[diskBest]
  BY <1>1 DEF IndexOK, DiskOK
<1>3. Tip = diskBest BY <1>1, ChainFacts
<1>4. MainChainIsValid
  <2>1. ASSUME NEW b \in Range(bestChain)
        PROVE  /\ KnownValid(index[b]) /\ ~KnownInvalid(index[b])
               /\ FlagsTrusted => env.kind[b] \notin {"invalid", "insane", "misplaced"}
    <3>1. b \in On(diskBest) BY <1>2, <2>1 DEF On
    <3>2. /\ b \in DOMAIN index /\ "valid" \in index[b] /\ ~KnownInvalid(index[b])
          /\ FlagsTrusted => env.kind[b] /= "invalid"
      BY <1>2, <3>1, ValidPath
    <3>3. env.kind[b] /= "insane" /\ (FlagsTrusted => env.kind[b] /= "misplaced")
      BY <1>2, <3>2 DEF PassedOK
    <3>. QED BY <3>2, <3>3 DEF KnownValid
  <2>. QED BY <1>2, <1>3, <2>1 DEF MainChainIsValid
<1>5. FlagsAreTrue
  <2>1. ASSUME NEW b \in DOMAIN index
        PROVE  /\ "valid" \in index[b] /\ FlagsTrusted => env.kind[b] /= "invalid"
               /\ "failed" \in index[b] => env.kind[b] = "invalid"
               /\ "badAncestor" \in index[b] =>
                    \E a \in On(b) \ {b} : a \in DOMAIN index /\ "failed" \in index[a]
    BY <1>2, <2>1 DEF FlagsOK
  <2>. QED BY <2>1 DEF FlagsAreTrue, On
<1>. QED BY <1>4, <1>5

\* With one caller there is a job that the second part speaks of.
LEMMA TheCaller ==
    ASSUME Inv, Alone
    PROVE  \E c \in env.callers : c \in Callers /\ OneOK(job[c]) /\ \A d \in Callers : d /= c => job[d].at = "idle"
<1>1. env \in Scenarios /\ JobsOK BY DEF Inv, BaseOK, IndexOK
<1>2. env.callers \subseteq {"p", "q"} BY <1>1, EnvFacts DEF Callers
<1>3. env.callers /= {} BY FS_EmptySet DEF Alone
<1>4. PICK c \in env.callers : TRUE BY <1>3
<1>5. \A d \in env.callers : d = c BY <1>1, AloneFacts
<1>6. \A d \in Callers : d /= c => job[d].at = "idle" BY <1>1, <1>5 DEF JobsOK
<1>. QED BY <1>2, <1>6 DEF Inv, AloneOK, Callers

LEMMA BestChain == ASSUME Inv PROVE MainChainIsBest
<1>1. IndexOK /\ DiskOK /\ PoolOK /\ MemoryOK /\ BaseOK BY DEF Inv, BaseOK
<1>2. Tip = diskBest /\ diskBest \in Blocks BY <1>1, ChainFacts
<1>3. MostWork
  <2>1. SUFFICES ASSUME Quiet, Alone, Undisturbed(env), NEW b \in DOMAIN index, Clean(b, env)
                 PROVE  WorkSum[b] <= WorkSum[diskBest]
    BY <1>2 DEF MostWork, Undisturbed, Clean, On
  <2>2. PICK c \in Callers : OneOK(job[c]) BY <2>1, TheCaller
  <2>3. job[c].at = "idle" BY <2>1 DEF Quiet
  <2>4. WorkOK(job[c], DOMAIN index, diskBest, env) BY <2>2 DEF OneOK
  <2>. QED BY <2>1, <2>3, <2>4 DEF WorkOK
<1>4. CheckpointStays
  <2>1. SUFFICES ASSUME checkpointNode /= None, Alone PROVE InChain(bestChain, checkpointNode)
    BY DEF CheckpointStays
  <2>2. PICK c \in Callers : OneOK(job[c]) BY <2>1, TheCaller
  <2>3. checkpointNode \in On(diskBest) BY <2>1, <2>2 DEF OneOK, CheckpointOK
  <2>4. checkpointNode \in Blocks BY <1>2, <2>3, OnFacts
  <2>. QED BY <1>1, <2>3, <2>4, ChainFacts
<1>5. TipsAreLeaves BY <1>1 DEF MemoryOK
<1>. QED BY <1>1, <1>3, <1>4, <1>5, ValidChain DEF MainChainIsBest

LEMMA Restored == ASSUME Inv PROVE ReorgRestores
<1>1. SUFFICES ASSUME NEW c \in Callers, Alone, job[c].at = "done"
               PROVE  Tip = IF job[c].back THEN job[c].orig ELSE job[c].target
  BY DEF ReorgRestores
<1>2. PICK d \in Callers : OneOK(job[d]) /\ \A x \in Callers : x /= d => job[x].at = "idle"
  BY <1>1, TheCaller
<1>3. d = c BY <1>1, <1>2
<1>4. Goal(job[c]) = diskBest BY <1>1, <1>2, <1>3 DEF OneOK, PlaceOK
<1>5. Tip = diskBest BY ChainFacts DEF Inv, BaseOK
<1>. QED BY <1>4, <1>5 DEF Goal

LEMMA Sound == ASSUME Inv PROVE StateIsSound
<1>1. IndexOK /\ DiskOK /\ PoolOK /\ MemoryOK /\ CountOK /\ JobsOK BY DEF Inv, BaseOK
<1>2. /\ Tip = diskBest /\ diskBest \in Blocks /\ On(diskBest) \subseteq DOMAIN index
      /\ DOMAIN index \subseteq Blocks
  BY <1>1, ChainFacts
<1>3. TypeOK
  <2>1. Range(index) \subseteq SUBSET Flags
    <3>1. index \in [DOMAIN index -> SUBSET Flags] BY <1>1 DEF IndexOK, IndexType
    <3>. QED BY <3>1 DEF Range
  <2>2. Range(bestChain) \subseteq DOMAIN index BY <1>1, <1>2 DEF DiskOK, On
  <2>3. Range(orphans) \subseteq Blocks
    <3>1. env.sent \subseteq Blocks BY <1>1, EnvFacts DEF IndexOK
    <3>2. orphans \in Seq(env.sent) BY <1>1 DEF PoolOK
    <3>3. \A i \in DOMAIN orphans : orphans[i] \in env.sent BY <3>2
    <3>. QED BY <3>1, <3>3 DEF Range
  <2>4. {checkpointNode, nextCheckpoint} \subseteq Blocks \cup {None}
    <3>1. Range(Checkpoints) \subseteq Blocks BY <1>1, EnvFacts DEF IndexOK, Checkpoints
    <3>. QED BY <1>1, <3>1 DEF PoolOK
  <2>5. chainTips \subseteq DOMAIN index BY <1>1 DEF MemoryOK, TipsAreLeaves
  <2>6. \A c \in Callers : job[c].at \in Positions BY <1>1 DEF JobsOK, JobType
  <2>7. DOMAIN diskIndex = DOMAIN index /\ diskBest \in DOMAIN index BY <1>1 DEF DiskOK
  <2>8. env \in Scenarios /\ chainLock \in Callers \cup {Nobody} /\ modified \subseteq DOMAIN index
    BY <1>1 DEF IndexOK, JobsOK
  <2>9. stakeNodes \subseteq DOMAIN index /\ blockCache \subseteq DOMAIN index BY <1>1 DEF MemoryOK
  <2>10. oldestOrphan \in Blocks \cup {None} /\ panicked \in BOOLEAN BY <1>1 DEF PoolOK, CountOK
  <2>. QED BY <1>2, <2>1, <2>2, <2>3, <2>4, <2>5, <2>6, <2>7, <2>8, <2>9, <2>10 DEF TypeOK
<1>4. TipStakeNodeLoaded BY <1>1, <1>2 DEF MemoryOK, TipStakeNodeLoaded
<1>5. DiskLoads
  <2>1. IndexType(diskIndex) /\ FlagsOK(diskIndex, env.kind, FlagsTrusted)
        /\ diskBest \in DOMAIN diskIndex /\ "valid" \in diskIndex[diskBest]
    BY <1>1, <1>2 DEF DiskOK, IndexType
  <2>2. \A b \in On(diskBest) : KnownValid(diskIndex[b]) /\ ~KnownInvalid(diskIndex[b])
    BY <2>1, ValidPath DEF KnownValid
  <2>3. \A b \in DOMAIN diskIndex : Parent[b] \in DOMAIN diskIndex BY <2>1 DEF FlagsOK
  <2>. QED BY <2>2, <2>3 DEF DiskLoads, On
<1>6. CacheIsMainChain
  <2>1. SUFFICES ASSUME Quiet, Alone, NEW b \in blockCache PROVE InChain(bestChain, b)
    BY DEF CacheIsMainChain
  <2>2. PICK c \in Callers : OneOK(job[c]) BY <2>1, TheCaller
  <2>3. job[c].at = "idle" BY <2>1 DEF Quiet
  <2>4. b \in On(diskBest) BY <2>1, <2>2, <2>3 DEF OneOK, CacheOK
  <2>5. b \in Blocks BY <1>2, <2>4, OnFacts
  <2>. QED BY <1>1, <2>4, <2>5, ChainFacts
<1>7. PanicsAtGenesisOnly
  <2>1. CASE Alone BY <2>1 DEF Inv, AloneOK
  <2>2. CASE ~Alone BY <2>2 DEF PanicsAtGenesisOnly
  <2>. QED BY <2>1, <2>2
<1>. QED BY <1>3, <1>4, <1>5, <1>6, <1>7 DEF StateIsSound

-----------------------------------------------------------------------------
(* The theorems, for every tree of blocks, every scenario, every order of     *)
(* calls, notifications, faults and restarts.                                 *)

\* The invariant holds at all times.
THEOREM Invariance == Spec => []Inv
<1>1. Init => Inv BY BaseInit, AloneInit DEF Inv
<1>2. Inv /\ [Next]_vars => Inv'
  <2>1. ASSUME Inv, Next PROVE Inv' BY <2>1, BaseStep, AloneNext DEF Inv
  <2>2. ASSUME Inv, UNCHANGED vars PROVE Inv' BY <2>2, BaseStutter, AloneStutter DEF Inv
  <2>. QED BY <2>1, <2>2
<1>. QED BY <1>1, <1>2, PTL DEF Spec

\* connectBestChain and reorganizeChain keep to the best chain: it is validated
\* from genesis to its tip in every state, also with two callers, and while one
\* caller works alone no stored branch of valid blocks has more work between
\* calls, and the checkpoint that was passed stays on it.
THEOREM ChainIsBest == Spec => []MainChainIsBest
<1>1. Inv => MainChainIsBest BY BestChain
<1>. QED BY <1>1, Invariance, PTL

\* When reorganizeChain has ended, the tip is the one it went for, or, where
\* that failed, the one it began with, whatever failed and wherever.
THEOREM ReorgIsUndone == Spec => []ReorgRestores
<1>1. Inv => ReorgRestores BY Restored
<1>. QED BY <1>1, Invariance, PTL

\* What the next call or initChainState relies on: the tip's stake node is in
\* memory, the best block on disk is flagged valid there along its whole
\* path, the cache holds main chain blocks between calls, and one caller alone
\* meets no panic but fetchStakeNode's at genesis.
THEOREM SoundState == Spec => []StateIsSound
<1>1. Inv => StateIsSound BY Sound
<1>. QED BY <1>1, Invariance, PTL
=============================================================================
