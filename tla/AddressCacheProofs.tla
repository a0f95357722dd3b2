------------------------- MODULE AddressCacheProofs -------------------------
(***************************************************************************)
(* Proofs about module AddressCache, for any addresses, blocks, readers    *)
(* and capacities.                                                         *)
(***************************************************************************)
EXTENDS AddressCache, FiniteSetTheorems, TLAPS

-----------------------------------------------------------------------------
(***************************************************************************)
(* The inductive invariant.  Its parts are predicates of the cache, of the *)
(* readers and of the locks, in the chain database's state.                *)
(***************************************************************************)
Chain == DOMAIN Blocks \cup {Genesis}
Values == Nat \cup {None}
Item == [block : Chain, parts : [Parts -> Values]]
Phases == {"idle", "locks", "queries", "stores", "waits", "woken"}
Reading == [at : Phases, addr : Addrs \cup {""}, part : Parts \cup {""}, best : Chain, val : Values]

\* The block that is on its way has been nobody's best block yet.
Pending == CASE writer.at = "undo" -> {writer.next}
             [] writer.at = "rows" -> {writer.block}
             [] OTHER -> {}
Seen == {Genesis} \cup (stored \ Pending)

\* The rows in the database are those of the best block and its ancestors.
Settled == writer.at \in {"idle", "freshens"}

WriterOK ==
    /\ writer \in [at : {"idle", "rows", "freshens", "undo"}, block : Chain, next : Chain,
                   todo : SUBSET Addrs]
    /\ stored \subseteq DOMAIN Blocks /\ best \in Seen
    /\ \A b \in stored : Blocks[b].prev \in Seen
    /\ writer.at = "undo" => writer.block = best /\ best /= Genesis /\ writer.next \in stored
    /\ writer.at = "rows" => writer.block \in stored

\* No row is undone that was not added.
RowsOK ==
    /\ db \in [Addrs -> Nat]
    /\ Settled /\ best /= Genesis => \A x \in Addrs : db[x] >= Blocks[best].adds[x]
    /\ writer.at = "undo" => \A x \in writer.todo : db[x] >= Blocks[writer.block].adds[x]
    /\ writer.at = "rows" => \A x \in Addrs \ writer.todo : db[x] >= Blocks[writer.block].adds[x]

\* An item for the best block has what the database has.
Good(x, item) ==
    /\ item.block \in Seen
    /\ Settled /\ item.block = best => \A p \in Parts : item.parts[p] \in {None, db[x]}

GoodCache(c) ==
    /\ DOMAIN c \subseteq Addrs /\ c \in [DOMAIN c -> Item]
    /\ \A x \in DOMAIN c : Good(x, c[x])

Fits(c) == length(c) <= Cap /\ Cardinality(DOMAIN c) <= CapAddr

GoodReader(q) ==
    /\ q \in Reading
    /\ q.at /= "idle" => q.addr \in Addrs /\ q.part \in Parts
    /\ q.best \in Seen
    /\ q.at = "stores" => q.val \in Nat
    /\ Settled /\ q.at = "stores" /\ q.best = best => q.val = db[q.addr]

GoodReaders(rd) == rd \in [Readers -> Reading] /\ \A r \in Readers : GoodReader(rd[r])

\* Whoever queries has the lock, and no rows are cached while rows are queried.
Holds(q) == q.at \in {"queries", "stores"}
Lock(q) == <<LockOf(q.part), q.addr>>
NoRows(c, x) == x \in DOMAIN c => c[x].parts["rows"] = None

Locked(rd, lk) ==
    \A r \in Readers : Holds(rd[r]) =>
       /\ Lock(rd[r]) \in lk
       /\ \A q \in Readers : q /= r /\ Holds(rd[q]) => Lock(rd[q]) /= Lock(rd[r])

RowsCleared(c, rd) ==
    \A r \in Readers : Holds(rd[r]) /\ rd[r].part = "rows" => NoRows(c, rd[r].addr)

IInv ==
    /\ wants \in Wants
    /\ WriterOK /\ RowsOK
    /\ GoodCache(a) /\ Fits(a)
    /\ GoodReaders(reader) /\ Locked(reader, locks) /\ RowsCleared(a, reader)

-----------------------------------------------------------------------------
(* Sizes. *)

LEMMA RowsFinite ==
    ASSUME NEW c, DOMAIN c \subseteq Addrs, c \in [DOMAIN c -> Item]
    PROVE  /\ IsFiniteSet(RowsOf(c)) /\ length(c) \in Nat
           /\ IsFiniteSet(DOMAIN c) /\ Cardinality(DOMAIN c) \in Nat
<1>1. IsFiniteSet(DOMAIN c) BY LookupAssumption, FS_Subset
<1>2. \A x \in DOMAIN c : NumRows(c[x].parts) \in Nat
  BY LookupAssumption DEF Item, Values, NumRows, None
<1>3. \A x \in DOMAIN c : IsFiniteSet({x} \X (1 .. NumRows(c[x].parts)))
  <2>. TAKE x \in DOMAIN c
  <2>1. IsFiniteSet({x}) BY FS_Singleton
  <2>2. PICK n \in Nat : n = NumRows(c[x].parts) BY <1>2
  <2>3. IsFiniteSet(1 .. n)
    <3>1. 1 \in Int /\ n \in Int OBVIOUS
    <3>. QED BY <3>1, FS_Interval
  <2>. QED BY <2>1, <2>2, <2>3, FS_Product
<1>4. PICK U : U = {{x} \X (1 .. NumRows(c[x].parts)) : x \in DOMAIN c} OBVIOUS
<1>5. IsFiniteSet(U)
  <2>. DEFINE f == [x \in DOMAIN c |-> {x} \X (1 .. NumRows(c[x].parts))]
  <2>1. f \in Surjection(DOMAIN c, U) BY <1>4 DEF Surjection
  <2>. QED BY <1>1, <2>1, FS_Surjection
<1>6. \A T \in U : IsFiniteSet(T) BY <1>3, <1>4
<1>7. IsFiniteSet(UNION U) BY <1>5, <1>6, FS_UNION
<1>8. IsFiniteSet(RowsOf(c)) BY <1>4, <1>7 DEF RowsOf
<1>. QED BY <1>1, <1>8, FS_CardinalityType DEF length

\* A part of a cache that fits does too.
LEMMA SmallerFits ==
    ASSUME NEW c, DOMAIN c \subseteq Addrs, c \in [DOMAIN c -> Item], Fits(c),
           NEW k, DOMAIN k \subseteq DOMAIN c, RowsOf(k) \subseteq RowsOf(c)
    PROVE  Fits(k)
<1>1. /\ IsFiniteSet(RowsOf(c)) /\ length(c) \in Nat
      /\ IsFiniteSet(DOMAIN c) /\ Cardinality(DOMAIN c) \in Nat
  BY RowsFinite
<1>2. Cardinality(DOMAIN k) <= Cardinality(DOMAIN c) /\ Cardinality(DOMAIN k) \in Nat
  BY <1>1, FS_Subset, FS_CardinalityType
<1>3. length(k) <= length(c) /\ length(k) \in Nat
  BY <1>1, FS_Subset, FS_CardinalityType DEF length
<1>. QED BY <1>1, <1>2, <1>3, CapacityAssumption DEF Fits

LEMMA WithoutFacts ==
    ASSUME NEW c, c \in [DOMAIN c -> Item], NEW S
    PROVE  /\ DOMAIN Without(c, S) = DOMAIN c \ S
           /\ Without(c, S) \in [DOMAIN Without(c, S) -> Item]
           /\ \A x \in DOMAIN Without(c, S) : Without(c, S)[x] = c[x]
           /\ RowsOf(Without(c, S)) \subseteq RowsOf(c)
BY DEF Without, RowsOf

Put(k, c, x, item) ==
    /\ DOMAIN k = DOMAIN c \cup {x} /\ k \in [DOMAIN k -> Item] /\ k[x] = item
    /\ \A y \in DOMAIN c : y /= x => k[y] = c[y]

LEMMA WithFacts ==
    ASSUME NEW c, c \in [DOMAIN c -> Item], NEW x, NEW item \in Item
    PROVE  Put(With(c, x, item), c, x, item)
BY DEF With, Put

LEMMA WithRows ==
    ASSUME NEW c, c \in [DOMAIN c -> Item], NEW x, NEW item \in Item
    PROVE  RowsOf(With(c, x, item)) \subseteq
              RowsOf(Without(c, {x})) \cup ({x} \X (1 .. NumRows(item.parts)))
<1>1. PICK k : k = With(c, x, item) OBVIOUS
<1>2. Put(k, c, x, item) BY <1>1, WithFacts
<1>3. \A y \in DOMAIN k : y = x \/ (y \in DOMAIN c \ {x} /\ k[y] = c[y]) BY <1>2 DEF Put
<1>4. ASSUME NEW e \in RowsOf(k)
      PROVE  e \in RowsOf(Without(c, {x})) \cup ({x} \X (1 .. NumRows(item.parts)))
  <2>1. PICK y \in DOMAIN k : e \in {y} \X (1 .. NumRows(k[y].parts)) BY <1>4 DEF RowsOf
  <2>2. CASE y = x BY <1>2, <2>1, <2>2 DEF Put
  <2>3. CASE y /= x
    <3>1. y \in DOMAIN c \ {x} /\ k[y] = c[y] BY <1>3, <2>3
    <3>2. y \in DOMAIN Without(c, {x}) /\ Without(c, {x})[y] = k[y] BY <3>1 DEF Without
    <3>. QED BY <2>1, <3>2 DEF RowsOf
  <2>. QED BY <2>2, <2>3
<1>. QED BY <1>1, <1>4

-----------------------------------------------------------------------------
(* Stores. *)

LEMMA WithoutNone == ASSUME NEW c, c \in [DOMAIN c -> Item] PROVE c = Without(c, {})
BY DEF Without

LEMMA WithoutTwice ==
    ASSUME NEW c, NEW S, NEW T
    PROVE  Without(Without(c, S), T) = Without(c, S \cup T)
BY DEF Without

\* A purge only removes items.
LEMMA Purged ==
    ASSUME NEW c, c \in [DOMAIN c -> Item], NEW n, NEW o \in purgeRowsToFit(c, n)
    PROVE  \E S : /\ o.left = Without(c, S)
                  /\ o.fits => length(o.left) + n <= Cap /\ Cardinality(DOMAIN o.left) < CapAddr
<1>1. PICK k \in UNION {PurgedRows(c1, n) : c1 \in PurgedAddrs(c)} :
         o = [left |-> k, fits |-> length(k) + n <= Cap /\ Cardinality(DOMAIN k) < CapAddr,
              hangs |-> Over(k, n) /\ DOMAIN k # {ProjectAddress}]
  BY DEF purgeRowsToFit
<1>2. PICK c1 \in PurgedAddrs(c) : k \in PurgedRows(c1, n) BY <1>1
<1>3. \E S : c1 = Without(c, S)
  <2>1. c1 = c \/ \E S : c1 = Without(c, S) BY <1>2 DEF PurgedAddrs
  <2>. QED BY <2>1, WithoutNone
<1>4. \E T : k = Without(c1, T) BY <1>2 DEF PurgedRows
<1>5. \E S : k = Without(c, S)
  <2>1. PICK S : c1 = Without(c, S) BY <1>3
  <2>2. PICK T : k = Without(c1, T) BY <1>4
  <2>3. Without(Without(c, S), T) = Without(c, S \cup T) BY WithoutTwice
  <2>4. k = Without(c, S \cup T) BY <2>1, <2>2, <2>3
  <2>. QED BY <2>4
<1>6. o.left = k /\ o.fits = (length(k) + n <= Cap /\ Cardinality(DOMAIN k) < CapAddr) BY <1>1
<1>. QED BY <1>5, <1>6

\* The item that a store makes or changes.
NewItem(x, part, val, block) ==
    [block |-> block,
     parts |-> [(IF IsFor(x, block) THEN a[x].parts ELSE NoParts) EXCEPT ![part] = val]]

Already(x) == IF x \in DOMAIN a THEN NumRows(a[x].parts) ELSE 0

Room(left, x, item) ==
    /\ length(left) + (NumRows(item.parts) - Already(x)) <= Cap
    /\ Cardinality(DOMAIN left) < CapAddr

\* What a store leaves: the items that a purge left, with the new one if it fits.
Shape(left, x, part, val, block) ==
    \/ a' = left
    \/ /\ ~hung' /\ a' = With(left, x, NewItem(x, part, val, block))
       /\ \/ left = a /\ part /= "rows" /\ IsFor(x, block)
          \/ /\ Room(left, x, NewItem(x, part, val, block))
             /\ part = "rows" \/ ~IsFor(x, block)

LEMMA AddShape ==
    ASSUME ~hung, a \in [DOMAIN a -> Item], NEW x, NEW part, NEW val, NEW block, ~IsFor(x, block),
           addCacheItem(x, [block |-> block, parts |-> [NoParts EXCEPT ![part] = val]])
    PROVE  \E S : Shape(Without(a, S), x, part, val, block)
<1>. DEFINE item == [block |-> block, parts |-> [NoParts EXCEPT ![part] = val]]
            n == NumRows(item.parts) - Already(x)
<1>1. PICK o \in purgeRowsToFit(a, n) :
         hung' = o.hangs /\ a' = IF o.fits /\ ~o.hangs THEN With(o.left, x, item) ELSE o.left
  BY DEF addCacheItem, Already
<1>2. item = NewItem(x, part, val, block) BY DEF NewItem
<1>. HIDE DEF item
<1>3. PICK S : /\ o.left = Without(a, S)
               /\ o.fits => length(o.left) + n <= Cap /\ Cardinality(DOMAIN o.left) < CapAddr
  BY Purged
<1>4. Shape(Without(a, S), x, part, val, block)
  BY <1>1, <1>2, <1>3 DEF Shape, Room
<1>. QED BY <1>4

LEMMA RowsShape ==
    ASSUME ~hung, a \in [DOMAIN a -> Item], NEW x, NEW val \in Nat, NEW block,
           setCacheItemRows(x, val, block)
    PROVE  \E S : Shape(Without(a, S), x, "rows", val, block)
<1>0. a = Without(a, {}) BY WithoutNone
<1>1. CASE ~IsFor(x, block)
  BY <1>1, AddShape DEF setCacheItemRows
<1>2. CASE IsFor(x, block) /\ a[x].parts["rows"] = val
  <2>1. a' = Without(a, {}) BY <1>0, <1>2 DEF setCacheItemRows
  <2>. QED BY <2>1 DEF Shape
<1>3. CASE IsFor(x, block) /\ a[x].parts["rows"] /= val
  <2>. DEFINE n == val - NumRows(a[x].parts)
              item == NewItem(x, "rows", val, block)
  <2>1. PICK o \in purgeRowsToFit(a, n) :
           hung' = o.hangs /\ a' = IF o.fits /\ ~o.hangs /\ x \in DOMAIN o.left
                  THEN [o.left EXCEPT ![x].parts["rows"] = val] ELSE o.left
    BY <1>3 DEF setCacheItemRows
  <2>2. PICK S : /\ o.left = Without(a, S)
                 /\ o.fits => length(o.left) + n <= Cap /\ Cardinality(DOMAIN o.left) < CapAddr
    BY Purged
  <2>3. PICK k : k = Without(a, S) OBVIOUS
  <2>4. /\ k \in [DOMAIN k -> Item] /\ \A y \in DOMAIN k : k[y] = a[y]
    <3>1. /\ Without(a, S) \in [DOMAIN Without(a, S) -> Item]
          /\ \A y \in DOMAIN Without(a, S) : Without(a, S)[y] = a[y]
      BY WithoutFacts, Zenon
    <3>. QED BY <2>3, <3>1
  <2>5. x \in DOMAIN k => [k EXCEPT ![x].parts["rows"] = val] = With(k, x, item)
    <3>. HAVE x \in DOMAIN k
    <3>1. k[x] \in Item /\ k[x] = a[x] /\ k[x].block = block BY <1>3, <2>4 DEF IsFor
    <3>2. [k[x] EXCEPT !.parts["rows"] = val] = item BY <1>3, <3>1 DEF Item, NewItem
    <3>3. [k EXCEPT ![x].parts["rows"] = val] = [k EXCEPT ![x] = item] BY <3>2
    <3>4. [k EXCEPT ![x] = item] = With(k, x, item)
      <4>. HIDE DEF item
      <4>. QED BY <2>4 DEF With
    <3>. QED BY <3>3, <3>4
  <2>6. NumRows(item.parts) - Already(x) = n
    <3>1. a[x].parts \in [Parts -> Values] /\ x \in DOMAIN a BY <1>3 DEF IsFor, Item
    <3>2. item.parts["rows"] = val BY <1>3, <3>1, LookupAssumption DEF NewItem
    <3>. QED BY <3>1, <3>2 DEF NumRows, Already, None
  <2>7. Shape(k, x, "rows", val, block)
    <3>. HIDE DEF item
    <3>1. CASE o.fits /\ ~o.hangs /\ x \in DOMAIN o.left
      <4>1. a' = With(k, x, item) BY <2>1, <2>2, <2>3, <2>5, <3>1
      <4>2. Room(k, x, item) BY <2>2, <2>3, <2>6, <3>1 DEF Room
      <4>. QED BY <2>1, <3>1, <4>1, <4>2 DEF Shape, item
    <3>2. CASE ~(o.fits /\ ~o.hangs /\ x \in DOMAIN o.left)
      BY <2>1, <2>2, <2>3, <3>2 DEF Shape
    <3>. QED BY <3>1, <3>2, Zenon
  <2>. QED BY <2>3, <2>7, Zenon
<1>. QED BY <1>1, <1>2, <1>3

LEMMA PartShape ==
    ASSUME ~hung, a \in [DOMAIN a -> Item], NEW x, NEW part, part /= "rows", NEW val, NEW block,
           StorePart(x, part, val, block)
    PROVE  \E S : Shape(Without(a, S), x, part, val, block)
<1>0. a = Without(a, {}) BY WithoutNone
<1>1. CASE ~IsFor(x, block)
  BY <1>1, AddShape DEF StorePart
<1>2. CASE IsFor(x, block)
  <2>. DEFINE item == NewItem(x, part, val, block)
  <2>1. a' = [a EXCEPT ![x].parts[part] = val] /\ ~hung' BY <1>2 DEF StorePart
  <2>2. a[x] \in Item /\ a[x].block = block /\ x \in DOMAIN a BY <1>2 DEF IsFor
  <2>3. [a[x] EXCEPT !.parts[part] = val] = item BY <1>2, <2>2 DEF Item, NewItem
  <2>4. a' = [a EXCEPT ![x] = item] BY <2>1, <2>3
  <2>. HIDE DEF item
  <2>5. [a EXCEPT ![x] = item] = With(a, x, item) BY <2>2 DEF With
  <2>6. Shape(a, x, part, val, block) BY <1>2, <2>1, <2>4, <2>5 DEF Shape, item
  <2>. QED BY <1>0, <2>6
<1>. QED BY <1>1, <1>2

LEMMA StoreShape ==
    ASSUME ~hung, a \in [DOMAIN a -> Item], NEW x, NEW part, NEW val \in Nat, NEW block,
           StoreFor(x, part, val, block)
    PROVE  \E S : Shape(Without(a, S), x, part, val, block)
<1>1. CASE part = "rows" BY <1>1, RowsShape DEF StoreFor
<1>2. CASE part = "utxos"
  <2>1. StoreUTXOs(x, val, block) BY <1>2 DEF StoreFor
  <2>2. CASE a' = a
    <3>1. a' = Without(a, {}) BY <2>2, WithoutNone
    <3>. QED BY <3>1 DEF Shape
  <2>3. CASE StorePart(x, "utxos", val, block)
    BY <1>2, <2>3, PartShape
  <2>. QED BY <2>1, <2>2, <2>3 DEF StoreUTXOs
<1>3. CASE part \in {"balance", "history"} BY <1>3, PartShape DEF StoreFor
<1>. QED BY <1>1, <1>2, <1>3 DEF StoreFor


-----------------------------------------------------------------------------
(* What keeps a cache good. *)

\* Items go.
LEMMA WithoutGood ==
    ASSUME NEW c, GoodCache(c), Fits(c), NEW S
    PROVE  GoodCache(Without(c, S)) /\ Fits(Without(c, S))
<1>1. DOMAIN c \subseteq Addrs /\ c \in [DOMAIN c -> Item] /\ \A x \in DOMAIN c : Good(x, c[x])
  BY DEF GoodCache
<1>2. PICK k : k = Without(c, S) OBVIOUS
<1>3. /\ DOMAIN k = DOMAIN c \ S /\ k \in [DOMAIN k -> Item]
      /\ \A x \in DOMAIN k : k[x] = c[x]
      /\ RowsOf(k) \subseteq RowsOf(c)
  <2>. DEFINE K == Without(c, S)
  <2>1. /\ DOMAIN K = DOMAIN c \ S /\ K \in [DOMAIN K -> Item]
        /\ \A x \in DOMAIN K : K[x] = c[x]
        /\ RowsOf(K) \subseteq RowsOf(c)
    BY <1>1, WithoutFacts, Zenon
  <2>. QED BY <1>2, <2>1
<1>4. GoodCache(k) BY <1>1, <1>3 DEF GoodCache
<1>5. Fits(k) BY <1>1, <1>3, SmallerFits
<1>. QED BY <1>2, <1>4, <1>5

\* An item is replaced by one with no more rows.
LEMMA WithGood ==
    ASSUME NEW c, GoodCache(c), NEW x \in Addrs, NEW item \in Item, Good(x, item)
    PROVE  GoodCache(With(c, x, item))
<1>1. DOMAIN c \subseteq Addrs /\ c \in [DOMAIN c -> Item] /\ \A y \in DOMAIN c : Good(y, c[y])
  BY DEF GoodCache
<1>2. PICK k : k = With(c, x, item) OBVIOUS
<1>3. /\ DOMAIN k = DOMAIN c \cup {x} /\ k \in [DOMAIN k -> Item] /\ k[x] = item
      /\ \A y \in DOMAIN c : y /= x => k[y] = c[y]
  <2>1. Put(k, c, x, item) BY <1>1, <1>2, WithFacts
  <2>. QED BY <2>1 DEF Put
<1>4. \A y \in DOMAIN k : Good(y, k[y])
  <2>. TAKE y \in DOMAIN k
  <2>1. CASE y = x BY <1>3, <2>1
  <2>2. CASE y /= x
    <3>1. y \in DOMAIN c /\ k[y] = c[y] BY <1>3, <2>2
    <3>. QED BY <1>1, <3>1
  <2>. QED BY <2>1, <2>2
<1>5. GoodCache(k) BY <1>1, <1>3, <1>4 DEF GoodCache
<1>. QED BY <1>2, <1>5

LEMMA WithFits ==
    ASSUME NEW c, GoodCache(c), NEW x \in Addrs, NEW item \in Item,
           Cardinality(DOMAIN c \cup {x}) <= CapAddr,
           length(Without(c, {x})) + NumRows(item.parts) <= Cap
    PROVE  Fits(With(c, x, item))
<1>1. DOMAIN c \subseteq Addrs /\ c \in [DOMAIN c -> Item] BY DEF GoodCache
<1>2. PICK k, w : k = With(c, x, item) /\ w = Without(c, {x}) OBVIOUS
<1>3. /\ DOMAIN k = DOMAIN c \cup {x}
      /\ RowsOf(k) \subseteq RowsOf(w) \cup ({x} \X (1 .. NumRows(item.parts)))
  <2>1. Put(k, c, x, item) BY <1>1, <1>2, WithFacts
  <2>2. RowsOf(With(c, x, item)) \subseteq
           RowsOf(Without(c, {x})) \cup ({x} \X (1 .. NumRows(item.parts)))
    BY <1>1, WithRows
  <2>. QED BY <1>2, <2>1, <2>2 DEF Put
<1>4. IsFiniteSet(RowsOf(w)) /\ length(w) \in Nat
  <2>1. DOMAIN w = DOMAIN c \ {x} /\ w \in [DOMAIN w -> Item] BY <1>1, <1>2, WithoutFacts
  <2>2. DOMAIN w \subseteq Addrs BY <1>1, <2>1
  <2>. QED BY <2>1, <2>2, RowsFinite
<1>5. PICK n \in Nat : n = NumRows(item.parts)
  BY LookupAssumption DEF Item, Values, NumRows, None
<1>6. IsFiniteSet({x} \X (1 .. n)) /\ Cardinality({x} \X (1 .. n)) = n
  <2>1. IsFiniteSet({x}) /\ Cardinality({x}) = 1 BY FS_Singleton
  <2>2. IsFiniteSet(1 .. n) /\ Cardinality(1 .. n) = n
    <3>1. 1 \in Int /\ n \in Int OBVIOUS
    <3>2. IsFiniteSet(1 .. n) /\ Cardinality(1 .. n) = IF 1 > n THEN 0 ELSE n - 1 + 1
      BY <3>1, FS_Interval
    <3>. QED BY <3>2
  <2>3. /\ IsFiniteSet({x} \X (1 .. n))
        /\ Cardinality({x} \X (1 .. n)) = Cardinality({x}) * Cardinality(1 .. n)
    BY <2>1, <2>2, FS_Product
  <2>. QED BY <2>1, <2>2, <2>3
<1>7. PICK P : P = {x} \X (1 .. n) OBVIOUS
<1>8. IsFiniteSet(RowsOf(w) \cup P)
      /\ Cardinality(RowsOf(w) \cup P) = Cardinality(RowsOf(w)) + n - Cardinality(RowsOf(w) \cap P)
  BY <1>4, <1>6, <1>7, FS_Union
<1>9. Cardinality(RowsOf(w) \cap P) \in Nat
  BY <1>4, FS_Intersection, FS_CardinalityType
<1>10. Cardinality(RowsOf(k)) <= Cardinality(RowsOf(w) \cup P) /\ Cardinality(RowsOf(k)) \in Nat
  BY <1>3, <1>5, <1>7, <1>8, FS_Subset, FS_CardinalityType
<1>11. length(k) <= Cap
  <2>1. Cardinality(RowsOf(w)) = length(w) /\ Cardinality(RowsOf(k)) = length(k) BY DEF length
  <2>2. length(w) + n <= Cap BY <1>2, <1>5
  <2>. QED BY <1>4, <1>8, <1>9, <1>10, <2>1, <2>2, CapacityAssumption
<1>. QED BY <1>2, <1>3, <1>11 DEF Fits

\* A store of what the database has leaves a good cache, and rows that fit.
LEMMA StoreGood ==
    ASSUME ~hung, GoodCache(a), Fits(a), NEW x \in Addrs, NEW part \in Parts, NEW val \in Nat,
           NEW block \in Seen, block \in Chain, Settled /\ block = best => val = db[x],
           StoreFor(x, part, val, block),
           part = "rows" => NoRows(a, x)
    PROVE  GoodCache(a') /\ Fits(a')
<1>. DEFINE item == NewItem(x, part, val, block)
<1>1. DOMAIN a \subseteq Addrs /\ a \in [DOMAIN a -> Item] /\ \A y \in DOMAIN a : Good(y, a[y])
  BY DEF GoodCache
<1>2. PICK S : Shape(Without(a, S), x, part, val, block) BY <1>1, StoreShape
<1>3. PICK left : left = Without(a, S) OBVIOUS
<1>4. GoodCache(left) /\ Fits(left) BY <1>3, WithoutGood
<1>5. /\ DOMAIN left \subseteq DOMAIN a /\ left \in [DOMAIN left -> Item]
      /\ \A y \in DOMAIN left : left[y] = a[y]
      /\ RowsOf(left) \subseteq RowsOf(a)
  <2>1. /\ DOMAIN Without(a, S) = DOMAIN a \ S
        /\ Without(a, S) \in [DOMAIN Without(a, S) -> Item]
        /\ \A y \in DOMAIN Without(a, S) : Without(a, S)[y] = a[y]
        /\ RowsOf(Without(a, S)) \subseteq RowsOf(a)
    BY <1>1, WithoutFacts, Zenon
  <2>. QED BY <1>3, <2>1
<1>6. item \in Item /\ Good(x, item)
  <2>. DEFINE old == IF IsFor(x, block) THEN a[x].parts ELSE NoParts
  <2>1. old \in [Parts -> Values] BY <1>1 DEF IsFor, Item, NoParts, Values
  <2>2. Settled /\ block = best => \A p \in Parts : old[p] \in {None, db[x]}
    BY <1>1 DEF IsFor, Good, NoParts
  <2>. HIDE DEF old
  <2>3. item = [block |-> block, parts |-> [old EXCEPT ![part] = val]] BY DEF NewItem, old
  <2>4. [old EXCEPT ![part] = val] \in [Parts -> Values] BY <2>1 DEF Values
  <2>5. Settled /\ block = best => \A p \in Parts : [old EXCEPT ![part] = val][p] \in {None, db[x]}
    BY <2>1, <2>2
  <2>. HIDE DEF item
  <2>. QED BY <2>3, <2>4, <2>5 DEF Item, Good
<1>7. part /= "rows" => item.parts["rows"] = IF IsFor(x, block) THEN a[x].parts["rows"] ELSE None
  BY <1>1, LookupAssumption DEF NewItem, IsFor, Item, NoParts
<1>8. part = "rows" => NumRows(item.parts) = val
  BY <1>1, LookupAssumption DEF NewItem, IsFor, Item, NoParts, NumRows, None
<1>9. CASE a' = left BY <1>4, <1>9
<1>10. CASE a' = With(left, x, item) /\ left = a /\ part /= "rows" /\ IsFor(x, block)
  <2>1. GoodCache(a') BY <1>4, <1>6, <1>10, WithGood
  <2>2. DOMAIN a' = DOMAIN a /\ \A y \in DOMAIN a : NumRows(a'[y].parts) = NumRows(a[y].parts)
    <3>. HIDE DEF item
    <3>1. x \in DOMAIN a /\ item.parts["rows"] = a[x].parts["rows"] BY <1>7, <1>10 DEF IsFor
    <3>2. Put(With(a, x, item), a, x, item) BY <1>1, <1>6, WithFacts
    <3>3. Put(a', a, x, item) BY <1>10, <3>2
    <3>4. DOMAIN a' = DOMAIN a /\ a'[x] = item /\ \A y \in DOMAIN a : y /= x => a'[y] = a[y]
      BY <3>1, <3>3 DEF Put
    <3>. QED BY <3>1, <3>4 DEF NumRows
  <2>3. RowsOf(a') = RowsOf(a) BY <2>2 DEF RowsOf
  <2>4. Fits(a') BY <1>1, <2>2, <2>3, SmallerFits
  <2>. QED BY <2>1, <2>4
<1>11. CASE /\ a' = With(left, x, item) /\ Room(left, x, item)
            /\ part = "rows" \/ ~IsFor(x, block)
  <2>. HIDE DEF item
  <2>1. GoodCache(a') BY <1>4, <1>6, <1>11, WithGood
  <2>2. Cardinality(DOMAIN left \cup {x}) <= CapAddr
    <3>1. IsFiniteSet(DOMAIN left) /\ Cardinality(DOMAIN left) \in Nat
      <4>1. DOMAIN left \subseteq Addrs BY <1>1, <1>5
      <4>. QED BY <1>5, <4>1, RowsFinite
    <3>2. Cardinality(DOMAIN left \cup {x}) <= Cardinality(DOMAIN left) + 1
          /\ Cardinality(DOMAIN left \cup {x}) \in Nat
      <4>1. /\ IsFiniteSet(DOMAIN left \cup {x})
            /\ Cardinality(DOMAIN left \cup {x}) =
                  IF x \in DOMAIN left THEN Cardinality(DOMAIN left) ELSE Cardinality(DOMAIN left) + 1
        BY <3>1, FS_AddElement
      <4>. QED BY <3>1, <4>1
    <3>. QED BY <1>11, <3>1, <3>2, CapacityAssumption DEF Room
  <2>3. length(Without(left, {x})) + NumRows(item.parts) <= Cap
    <3>1. /\ length(Without(left, {x})) \in Nat /\ length(left) \in Nat /\ length(left) <= Cap
          /\ length(Without(left, {x})) <= length(left)
      <4>1. DOMAIN left \subseteq Addrs BY <1>1, <1>5
      <4>2. IsFiniteSet(RowsOf(left)) /\ length(left) \in Nat BY <1>5, <4>1, RowsFinite
      <4>3. RowsOf(Without(left, {x})) \subseteq RowsOf(left) BY <1>5, WithoutFacts
      <4>4. IsFiniteSet(RowsOf(Without(left, {x})))
            /\ Cardinality(RowsOf(Without(left, {x}))) <= Cardinality(RowsOf(left))
        BY <4>2, <4>3, FS_Subset
      <4>. QED BY <1>4, <4>2, <4>4, FS_CardinalityType DEF length, Fits
    <3>2. CASE part = "rows"
      <4>1. Already(x) = 0 BY <3>2 DEF Already, NoRows, NumRows
      <4>2. length(left) + (val - 0) <= Cap BY <1>8, <1>11, <3>2, <4>1 DEF Room
      <4>. QED BY <1>8, <3>1, <3>2, <4>2, CapacityAssumption
    <3>3. CASE part /= "rows" /\ ~IsFor(x, block)
      <4>1. NumRows(item.parts) = 0 BY <1>7, <3>3 DEF NumRows
      <4>. QED BY <3>1, <4>1, CapacityAssumption
    <3>. QED BY <1>11, <3>2, <3>3
  <2>4. Fits(a') BY <1>4, <1>6, <1>11, <2>2, <2>3, WithFits
  <2>. QED BY <2>1, <2>4
<1>. QED BY <1>2, <1>3, <1>9, <1>10, <1>11 DEF Shape

\* Rows that were cleared stay cleared until rows are stored.
LEMMA StoreNoRows ==
    ASSUME ~hung, GoodCache(a), NEW x, NEW part \in Parts, NEW val \in Nat, NEW block \in Chain,
           StoreFor(x, part, val, block),
           NEW y, NoRows(a, y), y = x /\ part = "rows" => hung'
    PROVE  NoRows(a', y)
<1>. DEFINE item == NewItem(x, part, val, block)
<1>1. a \in [DOMAIN a -> Item] BY DEF GoodCache
<1>2. PICK S : Shape(Without(a, S), x, part, val, block) BY <1>1, StoreShape
<1>3. PICK left : left = Without(a, S) OBVIOUS
<1>4. /\ DOMAIN left \subseteq DOMAIN a /\ left \in [DOMAIN left -> Item]
      /\ \A z \in DOMAIN left : left[z] = a[z]
  BY <1>1, <1>3 DEF Without
<1>5. NoRows(left, y) BY <1>4 DEF NoRows
<1>6. CASE a' = left BY <1>5, <1>6
<1>7. CASE ~hung' /\ a' = With(left, x, item)
  <2>1. item \in Item
    BY <1>1 DEF NewItem, IsFor, Item, NoParts, Values
  <2>2. y = x => item.parts["rows"] = None
    BY <1>1, <1>7, LookupAssumption DEF NewItem, IsFor, Item, NoParts, NoRows
  <2>. HIDE DEF item
  <2>3. Put(a', left, x, item) BY <1>4, <1>7, <2>1, WithFacts
  <2>. QED BY <1>5, <2>2, <2>3 DEF Put, NoRows
<1>. QED BY <1>2, <1>3, <1>6, <1>7 DEF Shape

\* ClearRows and ClearUTXOs.
LEMMA ClearGood ==
    ASSUME GoodCache(a), Fits(a), NEW x \in Addrs, NEW part \in Parts
    PROVE  /\ GoodCache(ClearPart(x, part)) /\ Fits(ClearPart(x, part))
           /\ \A y : NoRows(a, y) => NoRows(ClearPart(x, part), y)
           /\ part = "rows" => NoRows(ClearPart(x, part), x)
<1>1. DOMAIN a \subseteq Addrs /\ a \in [DOMAIN a -> Item] /\ \A y \in DOMAIN a : Good(y, a[y])
  BY DEF GoodCache
<1>2. CASE x \notin DOMAIN a
  <2>1. ClearPart(x, part) = a BY <1>2 DEF ClearPart
  <2>. QED BY <1>2, <2>1 DEF NoRows
<1>3. CASE x \in DOMAIN a
  <2>1. PICK old, k : old = a[x] /\ k = ClearPart(x, part) OBVIOUS
  <2>2. old \in Item /\ Good(x, old) BY <1>1, <1>3, <2>1
  <2>3. PICK item : item = [old EXCEPT !.parts[part] = None] OBVIOUS
  <2>4. item \in Item /\ item.block = old.block
        /\ \A p \in Parts : item.parts[p] = IF p = part THEN None ELSE old.parts[p]
    BY <2>2, <2>3 DEF Item, Values
  <2>5. Good(x, item) BY <2>2, <2>4 DEF Good
  <2>6. k = [a EXCEPT ![x] = item] BY <1>3, <2>1, <2>3 DEF ClearPart
  <2>7. /\ DOMAIN k = DOMAIN a /\ k \in [DOMAIN k -> Item] /\ k[x] = item
        /\ \A y \in DOMAIN a : y /= x => k[y] = a[y]
    BY <1>1, <1>3, <2>4, <2>6
  <2>8. \A y \in DOMAIN k : Good(y, k[y])
    <3>. TAKE y \in DOMAIN k
    <3>1. CASE y = x BY <2>5, <2>7, <3>1
    <3>2. CASE y /= x
      <4>1. y \in DOMAIN a /\ k[y] = a[y] BY <2>7, <3>2
      <4>. QED BY <1>1, <4>1
    <3>. QED BY <3>1, <3>2
  <2>9. GoodCache(k) BY <1>1, <2>7, <2>8 DEF GoodCache
  <2>10. \A y \in DOMAIN k : k[y].parts["rows"] \in {None, a[y].parts["rows"]}
    BY <2>1, <2>4, <2>7, LookupAssumption
  <2>11. \A y \in DOMAIN a : 1 .. NumRows(k[y].parts) \subseteq 1 .. NumRows(a[y].parts)
    <3>. TAKE y \in DOMAIN a
    <3>1. CASE k[y].parts["rows"] = None BY <3>1 DEF NumRows
    <3>2. CASE k[y].parts["rows"] = a[y].parts["rows"] BY <3>2 DEF NumRows
    <3>. QED BY <2>7, <2>10, <3>1, <3>2
  <2>12. RowsOf(k) \subseteq RowsOf(a)
    <3>1. ASSUME NEW e \in RowsOf(k) PROVE e \in RowsOf(a)
      <4>1. PICK y \in DOMAIN k : e \in {y} \X (1 .. NumRows(k[y].parts)) BY <3>1 DEF RowsOf
      <4>2. y \in DOMAIN a /\ e \in {y} \X (1 .. NumRows(a[y].parts)) BY <2>7, <2>11, <4>1
      <4>. QED BY <4>2 DEF RowsOf
    <3>. QED BY <3>1
  <2>13. Fits(k) BY <1>1, <2>7, <2>12, SmallerFits
  <2>14. \A y : NoRows(a, y) => NoRows(k, y) BY <2>7, <2>10 DEF NoRows
  <2>15. part = "rows" => NoRows(k, x) BY <2>4, <2>7, LookupAssumption DEF NoRows
  <2>. QED BY <2>1, <2>9, <2>13, <2>14, <2>15
<1>. QED BY <1>2, <1>3

-----------------------------------------------------------------------------
(* The invariant holds at the start. *)

LEMMA IdleReader == ASSUME Genesis \in Seen PROVE GoodReader(NoLookup)
BY DEF GoodReader, NoLookup, Reading, Phases, Chain, Values, None, Settled

LEMMA GenesisSeen == Genesis \in Seen
BY DEF Seen

LEMMA InitIInv == AddressInit => IInv
<1>. SUFFICES ASSUME AddressInit PROVE IInv OBVIOUS
<1>1. WriterOK
  <2>1. Seen = {Genesis} BY DEF AddressInit, Seen
  <2>. QED BY <2>1 DEF AddressInit, WriterOK, Chain
<1>2. RowsOK BY DEF AddressInit, RowsOK
<1>3. a = << >> /\ DOMAIN a = {} BY DEF AddressInit
<1>4. GoodCache(a) BY <1>3 DEF GoodCache
<1>5. Fits(a)
  <2>1. RowsOf(a) = {} BY <1>3 DEF RowsOf
  <2>. QED BY <1>3, <2>1, FS_EmptySet, CapacityAssumption DEF Fits, length
<1>6. GoodReaders(reader)
  <2>1. NoLookup \in Reading BY DEF NoLookup, Reading, Phases, Chain, Values
  <2>. QED BY <2>1, IdleReader, GenesisSeen DEF AddressInit, GoodReaders
<1>7. Locked(reader, locks) /\ RowsCleared(a, reader)
  BY DEF AddressInit, Locked, RowsCleared, Holds, NoLookup
<1>. QED BY <1>1, <1>2, <1>4, <1>5, <1>6, <1>7 DEF AddressInit, IInv

-----------------------------------------------------------------------------
(* Lookups. *)

\* Steps of readers leave the chain alone.
LEMMA SameChain ==
    ASSUME IInv, UNCHANGED <<wants, db, best, writer, stored>>,
           GoodCache(a'), Fits(a'),
           GoodReaders(reader'), Locked(reader', locks'), RowsCleared(a', reader')
    PROVE  IInv'
<1>1. Seen' = Seen /\ (Settled' <=> Settled) BY DEF Seen, Pending, Settled
<1>2. WriterOK' BY <1>1 DEF IInv, WriterOK
<1>3. RowsOK' BY <1>1 DEF IInv, RowsOK
<1>4. GoodCache(a)' BY <1>1 DEF GoodCache, Good
<1>5. GoodReaders(reader)' BY <1>1 DEF GoodReaders, GoodReader
<1>6. Fits(a)' /\ Locked(reader, locks)' /\ RowsCleared(a, reader)'
  BY DEF Fits, Locked, RowsCleared, length
<1>. QED BY <1>2, <1>3, <1>4, <1>5, <1>6 DEF IInv

\* A reader moves on without a lock, or with the one it has.
LEMMA ReaderMoves ==
    ASSUME IInv, NEW r \in Readers, NEW q, GoodReader(q),
           reader' = [reader EXCEPT ![r] = q],
           UNCHANGED <<wants, a, locks, db, best, writer, stored>>,
           Holds(q) => Holds(reader[r]) /\ q.part = reader[r].part /\ q.addr = reader[r].addr
    PROVE  IInv'
<1>1. reader \in [Readers -> Reading] /\ q \in Reading BY DEF IInv, GoodReaders, GoodReader
<1>2. reader' \in [Readers -> Reading] /\ reader'[r] = q
      /\ \A p \in Readers : p /= r => reader'[p] = reader[p]
  BY <1>1
<1>3. GoodReaders(reader') BY <1>2 DEF IInv, GoodReaders
<1>4. \A p \in Readers : Holds(reader'[p]) =>
         /\ Holds(reader[p]) /\ Lock(reader'[p]) = Lock(reader[p])
         /\ reader'[p].part = reader[p].part /\ reader'[p].addr = reader[p].addr
  BY <1>2 DEF Lock
<1>5. Locked(reader', locks') BY <1>4 DEF IInv, Locked
<1>6. RowsCleared(a', reader') BY <1>4 DEF IInv, RowsCleared
<1>. QED BY <1>3, <1>5, <1>6, SameChain DEF IInv

LEMMA ReaderFacts ==
    ASSUME IInv, NEW r \in Readers
    PROVE  /\ GoodReader(reader[r]) /\ reader[r] \in Reading
           /\ best \in Seen /\ best \in Chain
BY DEF IInv, GoodReaders, WriterOK, Seen, Chain

LEMMA LookupStep == ASSUME IInv, NEW r \in Readers, Lookup(r) PROVE IInv'
<1>1. PICK w \in wants[r] :
         reader' = [reader EXCEPT ![r] =
            [at |-> "locks", addr |-> w[1], part |-> w[2], best |-> best, val |-> None]]
  BY DEF Lookup
<1>2. w[1] \in Addrs /\ w[2] \in Parts BY LookupAssumption DEF IInv
<1>3. PICK q : q = [at |-> "locks", addr |-> w[1], part |-> w[2], best |-> best, val |-> None]
  OBVIOUS
<1>4. GoodReader(q) /\ ~Holds(q)
  BY <1>2, <1>3, ReaderFacts DEF GoodReader, Reading, Phases, Values, Holds
<1>5. reader' = [reader EXCEPT ![r] = q] BY <1>1, <1>3
<1>. QED BY <1>4, <1>5, ReaderMoves DEF Lookup

LEMMA RetryStep == ASSUME IInv, NEW r \in Readers, Retry(r) PROVE IInv'
<1>1. PICK q : q = IF Hit(reader[r].addr, reader[r].part) THEN NoLookup
                   ELSE [reader[r] EXCEPT !.at = "locks", !.best = best]
  OBVIOUS
<1>2. reader[r].at = "woken" /\ reader' = [reader EXCEPT ![r] = q]
  BY <1>1 DEF Retry
<1>3. GoodReader(q) /\ ~Holds(q)
  <2>1. CASE q = NoLookup BY <2>1, GenesisSeen, IdleReader DEF Holds, NoLookup
  <2>2. CASE q = [reader[r] EXCEPT !.at = "locks", !.best = best]
    <3>1. reader[r] \in Reading /\ reader[r].addr \in Addrs /\ reader[r].part \in Parts
      BY <1>2, ReaderFacts DEF GoodReader
    <3>. QED BY <2>2, <3>1, ReaderFacts DEF GoodReader, Reading, Phases, Holds
  <2>. QED BY <1>1, <2>1, <2>2
<1>. QED BY <1>2, <1>3, ReaderMoves DEF Retry

LEMMA QueryStep == ASSUME IInv, NEW r \in Readers, Query(r) PROVE IInv'
<1>1. PICK q : q = [reader[r] EXCEPT !.at = "stores", !.val = db[reader[r].addr]] OBVIOUS
<1>2. reader[r].at = "queries" /\ reader' = [reader EXCEPT ![r] = q] BY <1>1 DEF Query
<1>3. reader[r] \in Reading /\ reader[r].addr \in Addrs /\ reader[r].part \in Parts
      /\ reader[r].best \in Seen
  BY <1>2, ReaderFacts DEF GoodReader
<1>4. db[reader[r].addr] \in Nat BY <1>3 DEF IInv, RowsOK
<1>5. /\ q \in Reading /\ q.at = "stores" /\ q.addr = reader[r].addr /\ q.part = reader[r].part
      /\ q.best = reader[r].best /\ q.val = db[reader[r].addr]
  BY <1>1, <1>3, <1>4 DEF Reading, Phases, Values
<1>6. GoodReader(q) BY <1>3, <1>4, <1>5 DEF GoodReader
<1>7. Holds(reader[r]) BY <1>2 DEF Holds
<1>. QED BY <1>2, <1>5, <1>6, <1>7, ReaderMoves DEF Query

LEMMA TryLockStep == ASSUME IInv, NEW r \in Readers, TryLock(r) PROVE IInv'
<1>1. /\ reader[r].at = "locks" /\ UNCHANGED <<wants, hung, db, best, writer, stored>>
  BY DEF TryLock
<1>2. reader[r] \in Reading /\ reader[r].addr \in Addrs /\ reader[r].part \in Parts
      /\ reader[r].best \in Seen
  BY <1>1, ReaderFacts DEF GoodReader
<1>3. CASE UNCHANGED <<a, locks>> /\ reader' = [reader EXCEPT ![r].at = "waits"]
  <2>1. PICK q : q = [reader[r] EXCEPT !.at = "waits"] OBVIOUS
  <2>2. reader' = [reader EXCEPT ![r] = q] BY <1>3, <2>1
  <2>3. GoodReader(q) /\ ~Holds(q)
    BY <1>2, <2>1 DEF GoodReader, Reading, Phases, Holds
  <2>. QED BY <1>1, <1>3, <2>2, <2>3, ReaderMoves
<1>4. CASE /\ Lock(reader[r]) \notin locks /\ locks' = locks \cup {Lock(reader[r])}
           /\ a' = Cleared(reader[r].addr, reader[r].part)
           /\ reader' = [reader EXCEPT ![r].at = "queries",
                             ![r].best = IF reader[r].part = "rows" THEN best ELSE @]
  <2>1. PICK q : q = [reader[r] EXCEPT !.at = "queries",
                                      !.best = IF reader[r].part = "rows" THEN best ELSE @]
    OBVIOUS
  <2>2. reader' = [reader EXCEPT ![r] = q] BY <1>4, <2>1
  <2>3. /\ q \in Reading /\ q.at = "queries" /\ q.addr = reader[r].addr
        /\ q.part = reader[r].part /\ q.best \in Seen
    BY <1>2, <2>1, ReaderFacts DEF Reading, Phases
  <2>4. GoodReader(q) BY <1>2, <2>3 DEF GoodReader
  <2>5. reader \in [Readers -> Reading] BY DEF IInv, GoodReaders
  <2>6. /\ reader' \in [Readers -> Reading] /\ reader'[r] = q
        /\ \A p \in Readers : p /= r => reader'[p] = reader[p]
    BY <2>2, <2>3, <2>5
  <2>7. GoodReaders(reader') BY <2>4, <2>6 DEF IInv, GoodReaders
  <2>8. Lock(q) = Lock(reader[r]) BY <2>3 DEF Lock
  <2>9. \A p \in Readers : p /= r /\ Holds(reader[p]) => Lock(reader[p]) \in locks
    BY DEF IInv, Locked
  <2>10. Locked(reader', locks')
    <3>1. ASSUME NEW p \in Readers, Holds(reader'[p])
          PROVE  /\ Lock(reader'[p]) \in locks'
                 /\ \A o \in Readers : o /= p /\ Holds(reader'[o]) => Lock(reader'[o]) /= Lock(reader'[p])
      <4>1. CASE p = r BY <1>4, <2>6, <2>8, <2>9, <4>1
      <4>2. CASE p /= r
        <5>1. reader'[p] = reader[p] /\ Lock(reader[p]) \in locks BY <2>6, <2>9, <3>1, <4>2
        <5>2. ASSUME NEW o \in Readers, o /= p, Holds(reader'[o])
              PROVE  Lock(reader'[o]) /= Lock(reader'[p])
          <6>1. CASE o = r BY <1>4, <2>6, <2>8, <5>1, <6>1
          <6>2. CASE o /= r
            <7>1. reader'[o] = reader[o] BY <2>6, <6>2
            <7>. QED BY <3>1, <5>1, <5>2, <7>1 DEF IInv, Locked
          <6>. QED BY <6>1, <6>2
        <5>3. Lock(reader'[p]) \in locks' BY <1>4, <5>1
        <5>. QED BY <5>2, <5>3
      <4>. QED BY <4>1, <4>2
    <3>. QED BY <3>1 DEF Locked
  <2>11. /\ GoodCache(a') /\ Fits(a') /\ \A y : NoRows(a, y) => NoRows(a', y)
         /\ reader[r].part = "rows" => NoRows(a', reader[r].addr)
    <3>1. CASE reader[r].part \in {"rows", "utxos"}
      <4>1. a' = ClearPart(reader[r].addr, reader[r].part) BY <1>4, <3>1 DEF Cleared
      <4>2. PICK x \in Addrs, p \in Parts : x = reader[r].addr /\ p = reader[r].part BY <1>2
      <4>3. /\ GoodCache(ClearPart(x, p)) /\ Fits(ClearPart(x, p))
            /\ \A y : NoRows(a, y) => NoRows(ClearPart(x, p), y)
            /\ p = "rows" => NoRows(ClearPart(x, p), x)
        BY ClearGood DEF IInv
      <4>4. a' = ClearPart(x, p) BY <4>1, <4>2
      <4>5. GoodCache(a') /\ Fits(a') BY <4>3, <4>4
      <4>6. \A y : NoRows(a, y) => NoRows(a', y) BY <4>3, <4>4, Zenon
      <4>7. p = "rows" => NoRows(a', x) BY <4>3, <4>4
      <4>. QED BY <4>2, <4>5, <4>6, <4>7
    <3>2. CASE reader[r].part \notin {"rows", "utxos"}
      <4>1. a' = a BY <1>4, <3>2 DEF Cleared
      <4>. QED BY <3>2, <4>1 DEF IInv
    <3>. QED BY <3>1, <3>2
  <2>12. RowsCleared(a', reader')
    <3>1. ASSUME NEW p \in Readers, Holds(reader'[p]), reader'[p].part = "rows"
          PROVE  NoRows(a', reader'[p].addr)
      <4>1. CASE p = r BY <2>3, <2>6, <2>11, <3>1, <4>1
      <4>2. CASE p /= r
        <5>1. reader'[p] = reader[p] BY <2>6, <4>2
        <5>2. NoRows(a, reader[p].addr) BY <3>1, <5>1 DEF IInv, RowsCleared
        <5>. QED BY <2>11, <5>1, <5>2
      <4>. QED BY <4>1, <4>2
    <3>. QED BY <3>1 DEF RowsCleared
  <2>. QED BY <1>1, <2>7, <2>10, <2>11, <2>12, SameChain
<1>. QED BY <1>3, <1>4 DEF TryLock, Lock

\* done() lets go of the lock.
LEMMA DoneFrees ==
    ASSUME IInv, NEW r \in Readers, Holds(reader[r]), Done(r)
    PROVE  /\ GoodReaders(reader') /\ Locked(reader', locks')
           /\ \A p \in Readers : Holds(reader'[p]) => p /= r /\ reader'[p] = reader[p]
<1>1. \A p \in Readers : reader[p] \in Reading /\ GoodReader(reader[p])
  BY DEF IInv, GoodReaders
<1>2. /\ locks' = locks \ {Lock(reader[r])}
      /\ reader' = [p \in Readers |->
            IF p = r THEN NoLookup
            ELSE IF WaitsFor(p, r) THEN [reader[p] EXCEPT !.at = "woken"] ELSE reader[p]]
  BY DEF Done, Lock
<1>3. \A p \in Readers : GoodReader(reader'[p])
  <2>. TAKE p \in Readers
  <2>1. CASE p = r
    <3>1. reader'[p] = NoLookup BY <1>2, <2>1
    <3>. QED BY <3>1, GenesisSeen, IdleReader
  <2>2. CASE p /= r /\ WaitsFor(p, r)
    <3>1. PICK q : q = [reader[p] EXCEPT !.at = "woken"] OBVIOUS
    <3>2. reader'[p] = q BY <1>2, <2>2, <3>1
    <3>3. reader[p].at = "waits" BY <2>2 DEF WaitsFor
    <3>4. reader[p] \in Reading /\ reader[p].addr \in Addrs /\ reader[p].part \in Parts
          /\ reader[p].best \in Seen
      BY <1>1, <3>3 DEF GoodReader
    <3>5. GoodReader(q) BY <3>1, <3>4 DEF GoodReader, Reading, Phases
    <3>. QED BY <3>2, <3>5
  <2>3. CASE p /= r /\ ~WaitsFor(p, r)
    <3>1. reader'[p] = reader[p] BY <1>2, <2>3
    <3>. QED BY <1>1, <3>1
  <2>. QED BY <2>1, <2>2, <2>3
<1>4. GoodReaders(reader')
  <2>1. \A p \in Readers : reader'[p] \in Reading BY <1>3 DEF GoodReader
  <2>2. reader' \in [Readers -> Reading] BY <1>2, <2>1
  <2>. QED BY <1>3, <2>2 DEF GoodReaders
<1>5. \A p \in Readers : Holds(reader'[p]) => p /= r /\ reader'[p] = reader[p]
  <2>. TAKE p \in Readers
  <2>1. CASE p = r
    <3>1. reader'[p] = NoLookup BY <1>2, <2>1
    <3>2. NoLookup.at = "idle" BY DEF NoLookup
    <3>3. reader'[p].at = "idle" BY <3>1, <3>2
    <3>. QED BY <3>3 DEF Holds
  <2>2. CASE p /= r /\ WaitsFor(p, r)
    <3>1. reader'[p].at = "woken" BY <1>1, <1>2, <2>2 DEF Reading
    <3>. QED BY <3>1 DEF Holds
  <2>3. CASE p /= r /\ ~WaitsFor(p, r) BY <1>2, <2>3
  <2>. QED BY <2>1, <2>2, <2>3
<1>6. Locked(reader', locks')
  <2>1. ASSUME NEW p \in Readers, Holds(reader'[p])
        PROVE  /\ Lock(reader'[p]) \in locks'
               /\ \A o \in Readers : o /= p /\ Holds(reader'[o]) => Lock(reader'[o]) /= Lock(reader'[p])
    <3>1. p /= r /\ reader'[p] = reader[p] /\ Holds(reader[p]) BY <1>5, <2>1
    <3>2. Lock(reader[p]) \in locks /\ Lock(reader[p]) /= Lock(reader[r])
      BY <3>1 DEF IInv, Locked
    <3>3. ASSUME NEW o \in Readers, o /= p, Holds(reader'[o])
          PROVE  Lock(reader'[o]) /= Lock(reader'[p])
      <4>1. reader'[o] = reader[o] /\ Holds(reader[o]) BY <1>5, <3>3
      <4>. QED BY <3>1, <3>3, <4>1 DEF IInv, Locked
    <3>4. Lock(reader'[p]) \in locks' BY <1>2, <3>1, <3>2
    <3>. QED BY <3>3, <3>4
  <2>. QED BY <2>1 DEF Locked
<1>. QED BY <1>4, <1>5, <1>6

LEMMA QueryFailsStep == ASSUME IInv, NEW r \in Readers, QueryFails(r) PROVE IInv'
<1>1. /\ Holds(reader[r]) /\ Done(r) /\ UNCHANGED <<wants, a, hung, db, best, writer, stored>>
  BY DEF QueryFails, Holds
<1>2. /\ GoodReaders(reader') /\ Locked(reader', locks')
      /\ \A p \in Readers : Holds(reader'[p]) => p /= r /\ reader'[p] = reader[p]
  BY <1>1, DoneFrees
<1>3. RowsCleared(a', reader') BY <1>1, <1>2 DEF IInv, RowsCleared
<1>4. GoodCache(a') /\ Fits(a') BY <1>1 DEF IInv
<1>. QED BY <1>1, <1>2, <1>3, <1>4, SameChain

LEMMA StoreResultStep == ASSUME IInv, NEW r \in Readers, StoreResult(r) PROVE IInv'
<1>. DEFINE q == reader[r]
<1>1. /\ q.at = "stores" /\ ~hung /\ StoreFor(q.addr, q.part, q.val, q.best)
      /\ IF hung' THEN UNCHANGED <<reader, locks>> ELSE Done(r)
      /\ UNCHANGED <<wants, db, best, writer, stored>>
  BY DEF StoreResult
<1>2. /\ q.addr \in Addrs /\ q.part \in Parts /\ q.best \in Seen /\ q.best \in Chain /\ q.val \in Nat
      /\ Settled /\ q.best = best => q.val = db[q.addr]
  BY <1>1, ReaderFacts DEF GoodReader, Reading
<1>3. Holds(q) BY <1>1 DEF Holds
<1>4. q.part = "rows" => NoRows(a, q.addr) BY <1>3 DEF IInv, RowsCleared
<1>5. PICK x \in Addrs, part \in Parts, val \in Nat, block \in Seen :
         x = q.addr /\ part = q.part /\ val = q.val /\ block = q.best
  BY <1>2
<1>6. GoodCache(a') /\ Fits(a')
  <2>1. /\ StoreFor(x, part, val, block) /\ block \in Chain
        /\ Settled /\ block = best => val = db[x]
        /\ part = "rows" => NoRows(a, x)
    BY <1>1, <1>2, <1>4, <1>5
  <2>. QED BY <1>1, <2>1, StoreGood DEF IInv
<1>7. ASSUME NEW p \in Readers, Holds(reader[p]), reader[p].part = "rows", p /= r \/ hung'
      PROVE  NoRows(a', reader[p].addr)
  <2>1. NoRows(a, reader[p].addr) BY <1>7 DEF IInv, RowsCleared
  <2>2. reader[p].addr = x /\ part = "rows" => hung'
    <3>1. p /= r /\ reader[p].addr = x /\ part = "rows" => Lock(reader[p]) = Lock(reader[r])
      BY <1>5, <1>7 DEF Lock
    <3>2. p /= r => Lock(reader[p]) /= Lock(reader[r]) BY <1>3, <1>7 DEF IInv, Locked
    <3>. QED BY <1>7, <3>1, <3>2
  <2>3. StoreFor(x, part, val, block) /\ block \in Chain BY <1>1, <1>2, <1>5
  <2>4. PICK y : y = reader[p].addr OBVIOUS
  <2>5. NoRows(a', y) BY <1>1, <2>1, <2>2, <2>3, <2>4, StoreNoRows DEF IInv
  <2>. QED BY <2>4, <2>5
<1>8. CASE hung'
  <2>1. UNCHANGED <<reader, locks>> BY <1>1, <1>8
  <2>2. RowsCleared(a', reader') BY <1>7, <1>8, <2>1 DEF RowsCleared
  <2>3. GoodReaders(reader') /\ Locked(reader', locks') BY <2>1 DEF IInv
  <2>. QED BY <1>1, <1>6, <2>2, <2>3, SameChain
<1>9. CASE ~hung'
  <2>1. /\ GoodReaders(reader') /\ Locked(reader', locks')
        /\ \A p \in Readers : Holds(reader'[p]) => p /= r /\ reader'[p] = reader[p]
    BY <1>1, <1>3, <1>9, DoneFrees
  <2>2. RowsCleared(a', reader') BY <1>7, <2>1 DEF RowsCleared
  <2>. QED BY <1>1, <1>6, <2>1, <2>2, SameChain
<1>. QED BY <1>8, <1>9

-----------------------------------------------------------------------------
(* The chain database. *)

\* A step after which either rows are on their way or the best block is one that
\* nobody has seen.
LEMMA ChainMoves ==
    ASSUME IInv, UNCHANGED <<wants, a, reader, locks>>, WriterOK', RowsOK',
           Seen \subseteq Seen', Settled' => best' \notin Seen
    PROVE  IInv'
<1>1. GoodCache(a)' BY DEF IInv, GoodCache, Good
<1>2. GoodReaders(reader)' BY DEF IInv, GoodReaders, GoodReader
<1>3. Fits(a)' /\ Locked(reader, locks)' /\ RowsCleared(a, reader)'
  BY DEF IInv, Fits, Locked, RowsCleared, length
<1>. QED BY <1>1, <1>2, <1>3 DEF IInv

LEMMA BlockFacts ==
    ASSUME NEW b \in DOMAIN Blocks
    PROVE  /\ Blocks[b].prev \in Chain /\ Blocks[b].adds \in [Addrs -> Nat]
           /\ b \in Chain /\ b /= Genesis
           /\ \A x \in Addrs : x \notin Touched(b) => Blocks[b].adds[x] = 0
BY BlocksAssumption DEF Chain, Touched

LEMMA ConnectStep == ASSUME IInv, NEW b \in DOMAIN Blocks, ConnectBlock(b) PROVE IInv'
<1>1. /\ writer.at = "idle" /\ b \notin stored /\ Blocks[b].prev = best
      /\ writer' = [at |-> "rows", block |-> b, next |-> Genesis, todo |-> Touched(b)]
      /\ stored' = stored \cup {b} /\ UNCHANGED <<wants, a, hung, reader, locks, db, best>>
  BY DEF ConnectBlock
<1>2. writer'.at = "rows" /\ writer'.block = b /\ writer'.todo = Touched(b) BY <1>1
<1>3. Seen' = Seen
  <2>1. Pending = {} /\ Pending' = {b} BY <1>1, <1>2 DEF Pending
  <2>. QED BY <1>1, <2>1 DEF Seen
<1>4. ~Settled' BY <1>2 DEF Settled
<1>5. WriterOK'
  <2>1. writer' \in [at : {"idle", "rows", "freshens", "undo"}, block : Chain, next : Chain,
                     todo : SUBSET Addrs]
    BY <1>1, BlockFacts DEF Chain, Touched
  <2>2. \A c \in stored' : Blocks[c].prev \in Seen BY <1>1 DEF IInv, WriterOK
  <2>. QED BY <1>1, <1>2, <1>3, <2>1, <2>2 DEF IInv, WriterOK
<1>6. RowsOK'
  <2>1. \A x \in Addrs \ Touched(b) : db[x] >= Blocks[b].adds[x]
    BY BlockFacts DEF IInv, RowsOK
  <2>. QED BY <1>1, <1>2, <1>4, <2>1 DEF IInv, RowsOK
<1>. QED BY <1>1, <1>3, <1>4, <1>5, <1>6, ChainMoves

LEMMA StoreRowsStep == ASSUME IInv, NEW x \in Addrs, StoreRows(x) PROVE IInv'
<1>. DEFINE b == writer.block
<1>1. /\ writer.at = "rows" /\ x \in writer.todo
      /\ db' = [db EXCEPT ![x] = db[x] + Blocks[b].adds[x]]
      /\ writer' = [writer EXCEPT !.todo = writer.todo \ {x}]
      /\ UNCHANGED <<wants, a, hung, reader, locks, best, stored>>
  BY DEF StoreRows
<1>2. /\ writer \in [at : {"idle", "rows", "freshens", "undo"}, block : Chain, next : Chain,
                     todo : SUBSET Addrs]
      /\ b \in DOMAIN Blocks /\ db \in [Addrs -> Nat]
      /\ \A y \in Addrs \ writer.todo : db[y] >= Blocks[b].adds[y]
  BY <1>1 DEF IInv, WriterOK, RowsOK
<1>3. writer'.at = "rows" /\ writer'.block = b /\ writer'.next = writer.next
      /\ writer'.todo = writer.todo \ {x}
      /\ writer' \in [at : {"idle", "rows", "freshens", "undo"}, block : Chain, next : Chain,
                     todo : SUBSET Addrs]
  BY <1>1, <1>2
<1>4. Seen' = Seen /\ ~Settled' BY <1>1, <1>3 DEF Seen, Pending, Settled
<1>5. WriterOK' BY <1>1, <1>3, <1>4 DEF IInv, WriterOK
<1>6. RowsOK'
  <2>1. Blocks[b].adds \in [Addrs -> Nat] BY <1>2, BlockFacts
  <2>2. db' \in [Addrs -> Nat] BY <1>1, <1>2, <2>1
  <2>3. \A y \in Addrs \ writer'.todo : db'[y] >= Blocks[b].adds[y]
    BY <1>1, <1>2, <1>3, <2>1
  <2>. QED BY <1>3, <1>4, <2>2, <2>3 DEF RowsOK
<1>. QED BY <1>1, <1>4, <1>5, <1>6, ChainMoves

LEMMA SetBestStep == ASSUME IInv, SetBest PROVE IInv'
<1>. DEFINE b == writer.block
<1>1. /\ writer.at = "rows" /\ writer.todo = {} /\ best' = b
      /\ writer' = [writer EXCEPT !.at = "freshens"]
      /\ UNCHANGED <<wants, a, hung, reader, locks, db, stored>>
  BY DEF SetBest
<1>2. /\ writer \in [at : {"idle", "rows", "freshens", "undo"}, block : Chain, next : Chain,
                     todo : SUBSET Addrs]
      /\ b \in stored /\ stored \subseteq DOMAIN Blocks /\ db \in [Addrs -> Nat]
      /\ \A y \in Addrs : db[y] >= Blocks[b].adds[y]
      /\ \A c \in stored : Blocks[c].prev \in Seen
  BY <1>1 DEF IInv, WriterOK, RowsOK
<1>3. /\ writer'.at = "freshens" /\ writer'.block = b
      /\ writer' \in [at : {"idle", "rows", "freshens", "undo"}, block : Chain, next : Chain,
                     todo : SUBSET Addrs]
  BY <1>1, <1>2
<1>4. b \notin Seen /\ Seen \subseteq Seen' /\ b \in Seen'
  <2>1. Pending = {b} /\ Pending' = {} BY <1>1, <1>3 DEF Pending
  <2>. QED BY <1>1, <1>2, <2>1, BlocksAssumption DEF Seen
<1>5. WriterOK' BY <1>1, <1>2, <1>3, <1>4 DEF WriterOK
<1>6. RowsOK' BY <1>1, <1>2, <1>3 DEF RowsOK
<1>. QED BY <1>1, <1>4, <1>5, <1>6, ChainMoves

LEMMA FreshenStep == ASSUME IInv, FreshenAddressCaches PROVE IInv'
<1>1. /\ writer.at = "freshens" /\ writer' = Resting
      /\ UNCHANGED <<wants, hung, reader, locks, db, best, stored>>
      /\ \E S : a' = Without(a, S)
  BY DEF FreshenAddressCaches, Clear
<1>2. PICK S : a' = Without(a, S) BY <1>1
<1>3. writer'.at = "idle" /\ writer' \in [at : {"idle", "rows", "freshens", "undo"},
                                         block : Chain, next : Chain, todo : SUBSET Addrs]
  BY <1>1 DEF Resting, Chain
<1>4. Seen' = Seen /\ Settled /\ Settled' BY <1>1, <1>3 DEF Seen, Pending, Settled
<1>5. WriterOK' BY <1>1, <1>3, <1>4 DEF IInv, WriterOK
<1>6. RowsOK' BY <1>1, <1>3, <1>4 DEF IInv, RowsOK
<1>7. GoodCache(a') /\ Fits(a') BY <1>2, WithoutGood DEF IInv
<1>8. GoodCache(a)' BY <1>1, <1>4, <1>7 DEF GoodCache, Good
<1>9. GoodReaders(reader)' BY <1>1, <1>4 DEF IInv, GoodReaders, GoodReader
<1>10. RowsCleared(a, reader)'
  <2>1. \A y : NoRows(a, y) => NoRows(Without(a, S), y) BY DEF NoRows, Without
  <2>2. \A y : NoRows(a, y) => NoRows(a', y) BY <1>2, <2>1, Zenon
  <2>. QED BY <1>1, <2>2 DEF IInv, RowsCleared
<1>11. Fits(a)' /\ Locked(reader, locks)' BY <1>1, <1>7 DEF IInv, Fits, Locked, length
<1>. QED BY <1>1, <1>5, <1>6, <1>8, <1>9, <1>10, <1>11 DEF IInv

LEMMA ReorgStep == ASSUME IInv, NEW b \in DOMAIN Blocks, ReorgHandler(b) PROVE IInv'
<1>1. /\ writer.at = "idle" /\ best /= Genesis /\ b \notin stored
      /\ Blocks[b].prev = Blocks[best].prev
      /\ writer' = [at |-> "undo", block |-> best, next |-> b, todo |-> Touched(best)]
      /\ stored' = stored \cup {b} /\ UNCHANGED <<wants, a, hung, reader, locks, db, best>>
  BY DEF ReorgHandler
<1>2. best \in stored /\ stored \subseteq DOMAIN Blocks /\ db \in [Addrs -> Nat]
      /\ \A c \in stored : Blocks[c].prev \in Seen
      /\ \A x \in Addrs : db[x] >= Blocks[best].adds[x]
  BY <1>1 DEF IInv, WriterOK, RowsOK, Seen, Settled
<1>3. writer'.at = "undo" /\ writer'.block = best /\ writer'.next = b
      /\ writer'.todo = Touched(best)
  BY <1>1
<1>4. Seen' = Seen
  <2>1. Pending = {} /\ Pending' = {b} BY <1>1, <1>3 DEF Pending
  <2>. QED BY <1>1, <2>1 DEF Seen
<1>5. ~Settled' BY <1>3 DEF Settled
<1>6. WriterOK'
  <2>1. writer' \in [at : {"idle", "rows", "freshens", "undo"}, block : Chain, next : Chain,
                     todo : SUBSET Addrs]
    BY <1>1, <1>2, BlockFacts DEF Chain, Touched
  <2>2. \A c \in stored' : Blocks[c].prev \in Seen BY <1>1, <1>2
  <2>. QED BY <1>1, <1>2, <1>3, <1>4, <2>1, <2>2 DEF IInv, WriterOK
<1>7. RowsOK' BY <1>1, <1>2, <1>3, <1>5 DEF RowsOK, Touched
<1>. QED BY <1>1, <1>4, <1>5, <1>6, <1>7, ChainMoves

LEMMA UndoStep == ASSUME IInv, NEW x \in Addrs, TipToSideChain(x) PROVE IInv'
<1>. DEFINE b == writer.block
<1>1. /\ writer.at = "undo" /\ x \in writer.todo
      /\ db' = [db EXCEPT ![x] = db[x] - Blocks[b].adds[x]]
      /\ writer' = [writer EXCEPT !.todo = writer.todo \ {x}]
      /\ UNCHANGED <<wants, a, hung, reader, locks, best, stored>>
  BY DEF TipToSideChain
<1>2. /\ writer \in [at : {"idle", "rows", "freshens", "undo"}, block : Chain, next : Chain,
                     todo : SUBSET Addrs]
      /\ b = best /\ best /= Genesis /\ b \in DOMAIN Blocks /\ db \in [Addrs -> Nat]
      /\ \A y \in writer.todo : db[y] >= Blocks[b].adds[y]
  BY <1>1 DEF IInv, WriterOK, RowsOK, Seen
<1>3. writer'.at = "undo" /\ writer'.block = b /\ writer'.next = writer.next
      /\ writer'.todo = writer.todo \ {x}
      /\ writer' \in [at : {"idle", "rows", "freshens", "undo"}, block : Chain, next : Chain,
                     todo : SUBSET Addrs]
  BY <1>1, <1>2
<1>4. Seen' = Seen /\ ~Settled' BY <1>1, <1>3 DEF Seen, Pending, Settled
<1>5. WriterOK' BY <1>1, <1>2, <1>3, <1>4 DEF IInv, WriterOK
<1>6. RowsOK'
  <2>1. Blocks[b].adds \in [Addrs -> Nat] BY <1>2, BlockFacts
  <2>2. db[x] - Blocks[b].adds[x] \in Nat BY <1>1, <1>2, <2>1
  <2>3. db' \in [Addrs -> Nat] BY <1>1, <1>2, <2>2
  <2>4. \A y \in writer'.todo : db'[y] >= Blocks[b].adds[y]
    BY <1>1, <1>2, <1>3
  <2>. QED BY <1>3, <1>4, <2>3, <2>4 DEF RowsOK
<1>. QED BY <1>1, <1>4, <1>5, <1>6, ChainMoves

LEMMA TipMovedStep == ASSUME IInv, TipMoved PROVE IInv'
<1>. DEFINE b == writer.next
<1>1. /\ writer.at = "undo" /\ writer.todo = {} /\ best' = Blocks[writer.block].prev
      /\ writer' = [writer EXCEPT !.at = "rows", !.block = b, !.todo = Touched(b)]
      /\ UNCHANGED <<wants, a, hung, reader, locks, db, stored>>
  BY DEF TipMoved
<1>2. /\ writer \in [at : {"idle", "rows", "freshens", "undo"}, block : Chain, next : Chain,
                     todo : SUBSET Addrs]
      /\ writer.block \in stored /\ b \in stored /\ stored \subseteq DOMAIN Blocks
      /\ db \in [Addrs -> Nat] /\ \A c \in stored : Blocks[c].prev \in Seen
  BY <1>1 DEF IInv, WriterOK, RowsOK, Seen
<1>3. /\ writer'.at = "rows" /\ writer'.block = b /\ writer'.todo = Touched(b)
      /\ writer' \in [at : {"idle", "rows", "freshens", "undo"}, block : Chain, next : Chain,
                     todo : SUBSET Addrs]
  BY <1>1, <1>2 DEF Touched
<1>4. Seen' = Seen /\ ~Settled' BY <1>1, <1>3 DEF Seen, Pending, Settled
<1>5. WriterOK' BY <1>1, <1>2, <1>3, <1>4 DEF WriterOK
<1>6. RowsOK'
  <2>1. \A x \in Addrs \ Touched(b) : db[x] >= Blocks[b].adds[x] BY <1>2, BlockFacts
  <2>. QED BY <1>1, <1>2, <1>3, <1>4, <2>1 DEF RowsOK
<1>. QED BY <1>1, <1>4, <1>5, <1>6, ChainMoves

LEMMA NextIInv == IInv /\ [AddressNext]_addressCacheVars => IInv'
<1>1. ASSUME IInv, AddressNext PROVE IInv'
  BY <1>1, LookupStep, RetryStep, QueryStep, TryLockStep, QueryFailsStep, StoreResultStep,
     ConnectStep, StoreRowsStep, SetBestStep, FreshenStep, ReorgStep, UndoStep, TipMovedStep
     DEF AddressNext, Reader
<1>2. ASSUME IInv, UNCHANGED addressCacheVars PROVE IInv'
  <2>1. UNCHANGED <<wants, a, hung, reader, locks, db, best, writer, stored>>
    BY <1>2 DEF addressCacheVars
  <2>2. /\ GoodCache(a') /\ Fits(a') /\ GoodReaders(reader') /\ Locked(reader', locks')
        /\ RowsCleared(a', reader')
    BY <1>2, <2>1 DEF IInv
  <2>. QED BY <1>2, <2>1, <2>2, SameChain
<1>. QED BY <1>1, <1>2

-----------------------------------------------------------------------------
\* For any addresses, chain of blocks, readers and capacities: when no block is
\* being stored, what a lookup takes from the cache is what the database would
\* answer, and the cache keeps to its row and address capacities, however the
\* lookups, their late stores, purges, new blocks and reorganizations interleave.
THEOREM CacheAnswersCurrent == AddressSpec => []AnswersAreCurrent
<1>1. AddressInit /\ [][AddressNext]_addressCacheVars => []IInv
  BY InitIInv, NextIInv, PTL
<1>2. IInv => AnswersAreCurrent
  <2>. SUFFICES ASSUME IInv PROVE AnswersAreCurrent OBVIOUS
  <2>1. HitsAreCurrent BY DEF IInv, HitsAreCurrent, GoodCache, Good, Hit, IsFor, Settled
  <2>2. CapacityIsKept BY DEF IInv, Fits, CapacityIsKept
  <2>. QED BY <2>1, <2>2 DEF AnswersAreCurrent
<1>. QED BY <1>1, <1>2, PTL DEF AddressSpec
=============================================================================
