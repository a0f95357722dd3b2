---------------------------- MODULE AddressCache ----------------------------
(***************************************************************************)
(* The cache of address data (db/cache/addresscache.go) as the chain       *)
(* database fills it (AddressBalance, updateAddressRows, AddressUTXO and   *)
(* TxHistoryData) while blocks are stored and chains reorganized.          *)
(*                                                                         *)
(* The data of an address is the number of its rows in the database.  An   *)
(* item of the cache has the block it was made for and up to four parts.   *)
(* A query sees the rows that the store in progress has written so far.    *)
(* Go visits a map in any order, so that a purge removes any items that it *)
(* may.                                                                    *)
(***************************************************************************)
EXTENDS Integers, FiniteSets, FiniteSetsExt

CONSTANTS Addrs,
          ProjectAddress,        \* In Addrs, or not when it is not set.
          Cap, CapAddr, MaxUTXOsPerAddr,
          Parts,                 \* Of {"balance", "rows", "utxos", "history"}
          Readers,
          Wants,                 \* A bound: what readers look up, each a function
                                 \* from Readers to sets of <<address, part>>.
          Blocks                 \* Block -> [prev, adds]; adds is rows by address.
                                 \* A bound: the blocks there are.

None == -1
Genesis == 0

ASSUME CapacityAssumption == Cap \in Nat /\ CapAddr \in Nat
ASSUME LookupAssumption ==
    /\ IsFiniteSet(Addrs)
    /\ "rows" \in Parts /\ Parts \subseteq {"balance", "rows", "utxos", "history"}
    /\ Wants \subseteq [Readers -> SUBSET (Addrs \X Parts)]
ASSUME BlocksAssumption ==
    /\ Genesis \notin DOMAIN Blocks
    /\ Blocks \in [DOMAIN Blocks -> [prev : DOMAIN Blocks \cup {Genesis}, adds : [Addrs -> Nat]]]

VARIABLES
    wants,       \* The one of Wants that runs.
    a,           \* ac.a
    hung,        \* purgeRowsToFit does not end; ac.mtx is held.
    reader,      \* [at, addr, part, best, val]: a lookup of a goroutine.
    locks,       \* CacheLocks: [lock, addr] held.
    db,          \* Address -> rows in the database.
    best,        \* pgb.bestBlock
    writer,      \* [at, block, next, todo]: StoreBlock and ReorgHandler.
    stored       \* Blocks that were stored: each arrives once.

addressCacheVars == <<wants, a, hung, reader, locks, db, best, writer, stored>>

NoLookup == [at |-> "idle", addr |-> "", part |-> "", best |-> Genesis, val |-> None]

AddressInit ==
    /\ wants \in Wants
    /\ a = << >> /\ hung = FALSE
    /\ reader = [r \in Readers |-> NoLookup]
    /\ locks = {}
    /\ db = [x \in Addrs |-> 0] /\ best = Genesis
    /\ writer = [at |-> "idle", block |-> Genesis, next |-> Genesis, todo |-> {}]
    /\ stored = {}

(***************************************************************************)
(* Size and purge.                                                         *)
(***************************************************************************)
Without(c, S) == [x \in (DOMAIN c) \ S |-> c[x]]
With(c, x, item) == [y \in (DOMAIN c) \cup {x} |-> IF y = x THEN item ELSE c[y]]

NumRows(parts) == IF parts["rows"] = None THEN 0 ELSE parts["rows"]
RowsOf(c) == UNION {{x} \X (1 .. NumRows(c[x].parts)) : x \in DOMAIN c}
length(c) == Cardinality(RowsOf(c))

\* First, the project's address aside, items go until one more address fits.
PurgedAddrs(c) ==
    LET excess == Cardinality(DOMAIN c) - (CapAddr - 1)
        rest == (DOMAIN c) \ {ProjectAddress}
        n == IF excess > Cardinality(rest) THEN Cardinality(rest) ELSE excess
    IN  IF excess <= 0 THEN {c} ELSE {Without(c, S) : S \in kSubset(n, rest)}

\* Then items with rows go, one at a time, until numRows more fit.  The loop ends
\* too when the project's address alone is left; when it alone has rows, it
\* does not end.
Over(c, numRows) == length(c) > 0 /\ length(c) + numRows > Cap
Removable(c) == {x \in (DOMAIN c) \ {ProjectAddress} : NumRows(c[x].parts) > 0}
PurgedRows(c, numRows) ==
    {k \in {Without(c, S) : S \in SUBSET Removable(c)} :
        LET gone == (DOMAIN c) \ DOMAIN k
        IN  /\ gone # {} => \E x \in gone : Over(With(k, x, c[x]), numRows)
            /\ Over(k, numRows) => Removable(k) = {}}

\* The outcomes: what is left, whether there is room, whether the loop ends.
purgeRowsToFit(c, numRows) ==
    {[left |-> k,
      fits |-> length(k) + numRows <= Cap /\ Cardinality(DOMAIN k) < CapAddr,
      hangs |-> Over(k, numRows) /\ DOMAIN k # {ProjectAddress}] :
        k \in UNION {PurgedRows(c1, numRows) : c1 \in PurgedAddrs(c)}}

(***************************************************************************)
(* Stores and clears.  All of them hold ac.mtx.                            *)
(***************************************************************************)
NoParts == [p \in Parts |-> None]

\* A new item in the place of one for another block, or of none.
addCacheItem(x, item) ==
    LET already == IF x \in DOMAIN a THEN NumRows(a[x].parts) ELSE 0
    IN  \E o \in purgeRowsToFit(a, NumRows(item.parts) - already) :
           /\ hung' = o.hangs
           /\ a' = IF o.fits /\ ~o.hangs THEN With(o.left, x, item) ELSE o.left

\* The block is not compared.
IsForAny(x, block) == x \in DOMAIN a

IsFor(x, block) == x \in DOMAIN a /\ a[x].block = block

\* The item is kept in hand while others, or itself, are purged.
setCacheItemRows(x, rows, block) ==
    \/ /\ ~IsFor(x, block)
       /\ addCacheItem(x, [block |-> block, parts |-> [NoParts EXCEPT !["rows"] = rows]])
    \/ /\ IsFor(x, block) /\ a[x].parts["rows"] = rows
       /\ UNCHANGED <<a, hung>>
    \/ /\ IsFor(x, block) /\ a[x].parts["rows"] # rows
       /\ \E o \in purgeRowsToFit(a, rows - NumRows(a[x].parts)) :
             /\ hung' = o.hangs
             /\ a' = IF o.fits /\ ~o.hangs /\ x \in DOMAIN o.left
                     THEN [o.left EXCEPT ![x].parts["rows"] = rows] ELSE o.left

\* StoreBalance, StoreHistoryChart.
StorePart(x, part, val, block) ==
    \/ /\ ~IsFor(x, block)
       /\ addCacheItem(x, [block |-> block, parts |-> [NoParts EXCEPT ![part] = val]])
    \/ IsFor(x, block) /\ a' = [a EXCEPT ![x].parts[part] = val] /\ UNCHANGED hung

StoreUTXOs(x, val, block) ==
    \/ val > MaxUTXOsPerAddr /\ x # ProjectAddress /\ UNCHANGED <<a, hung>>
    \/ ~(val > MaxUTXOsPerAddr /\ x # ProjectAddress) /\ StorePart(x, "utxos", val, block)

StoreFor(x, part, val, block) ==
    \/ part = "rows" /\ setCacheItemRows(x, val, block)
    \/ part = "utxos" /\ StoreUTXOs(x, val, block)
    \/ part \in {"balance", "history"} /\ StorePart(x, part, val, block)

\* ClearRows and ClearUTXOs.
ClearPart(x, part) == IF x \in DOMAIN a THEN [a EXCEPT ![x].parts[part] = None] ELSE a

\* Clear, and ClearAll when no addresses are given.
Clear(S) == Without(a, S)

(***************************************************************************)
(* A lookup that misses: lock the address, query, store.                   *)
(***************************************************************************)
LockOf(part) == IF part = "history" THEN "balance" ELSE part
Hit(x, part) == IsFor(x, best) /\ a[x].parts[part] # None

Lookup(r) ==
    /\ ~hung /\ reader[r].at = "idle"
    /\ \E w \in wants[r] :
          /\ ~Hit(w[1], w[2])
          /\ reader' = [reader EXCEPT ![r] =
                [at |-> "locks", addr |-> w[1], part |-> w[2], best |-> best, val |-> None]]
    /\ UNCHANGED <<wants, a, hung, locks, db, best, writer, stored>>

\* What goes with the lock: stale rows and UTXOs leave the cache before the query,
\* and for rows the best block is read again.
Cleared(x, part) == IF part \in {"rows", "utxos"} THEN ClearPart(x, part) ELSE a

TryLock(r) ==
    LET q == reader[r]
        l == <<LockOf(q.part), q.addr>>
    IN  /\ q.at = "locks" /\ ~hung
        /\ \/ /\ l \notin locks
              /\ locks' = locks \cup {l}
              /\ a' = Cleared(q.addr, q.part)
              /\ reader' = [reader EXCEPT ![r].at = "queries",
                                          ![r].best = IF q.part = "rows" THEN best ELSE @]
           \/ /\ l \in locks /\ reader' = [reader EXCEPT ![r].at = "waits"]
              /\ UNCHANGED <<a, locks>>
        /\ UNCHANGED <<wants, hung, db, best, writer, stored>>

\* The channel of the holder was closed: start over.
Retry(r) ==
    /\ reader[r].at = "woken"
    /\ reader' = [reader EXCEPT ![r] =
          IF Hit(reader[r].addr, reader[r].part) THEN NoLookup
          ELSE [@ EXCEPT !.at = "locks", !.best = best]]
    /\ UNCHANGED <<wants, a, hung, locks, db, best, writer, stored>>

\* done(): the lock is released and those that wait for it are woken.
WaitsFor(q, r) ==
    /\ reader[q].at = "waits" /\ reader[q].addr = reader[r].addr
    /\ LockOf(reader[q].part) = LockOf(reader[r].part)
Done(r) ==
    /\ locks' = locks \ {<<LockOf(reader[r].part), reader[r].addr>>}
    /\ reader' = [q \in Readers |->
          IF q = r THEN NoLookup
          ELSE IF WaitsFor(q, r) THEN [reader[q] EXCEPT !.at = "woken"] ELSE reader[q]]

Query(r) ==
    /\ reader[r].at = "queries"
    /\ reader' = [reader EXCEPT ![r].at = "stores", ![r].val = db[reader[r].addr]]
    /\ UNCHANGED <<wants, a, hung, locks, db, best, writer, stored>>

\* The lock is kept when a query fails.
QueryFailsLocked(r) ==
    /\ reader[r].at = "queries"
    /\ reader' = [reader EXCEPT ![r] = NoLookup]
    /\ UNCHANGED <<wants, a, hung, locks, db, best, writer, stored>>

\* The query times out; the deferred done() still runs.
QueryFails(r) ==
    /\ reader[r].at = "queries"
    /\ Done(r)
    /\ UNCHANGED <<wants, a, hung, db, best, writer, stored>>

StoreResult(r) ==
    /\ reader[r].at = "stores" /\ ~hung
    /\ StoreFor(reader[r].addr, reader[r].part, reader[r].val, reader[r].best)
    /\ IF hung' THEN UNCHANGED <<reader, locks>> ELSE Done(r)
    /\ UNCHANGED <<wants, db, best, writer, stored>>

(***************************************************************************)
(* The chain database: see ChainDB for the stores themselves.              *)
(***************************************************************************)
Touched(b) == {x \in Addrs : Blocks[b].adds[x] > 0}
Resting == [at |-> "idle", block |-> Genesis, next |-> Genesis, todo |-> {}]

ConnectBlock(b) ==
    /\ writer.at = "idle" /\ b \notin stored /\ Blocks[b].prev = best
    /\ writer' = [at |-> "rows", block |-> b, next |-> Genesis, todo |-> Touched(b)]
    /\ stored' = stored \cup {b}
    /\ UNCHANGED <<wants, a, hung, reader, locks, db, best>>

StoreRows(x) ==
    /\ writer.at = "rows" /\ x \in writer.todo
    /\ db' = [db EXCEPT ![x] = @ + Blocks[writer.block].adds[x]]
    /\ writer' = [writer EXCEPT !.todo = @ \ {x}]
    /\ UNCHANGED <<wants, a, hung, reader, locks, best, stored>>

SetBest ==
    /\ writer.at = "rows" /\ writer.todo = {}
    /\ best' = writer.block
    /\ writer' = [writer EXCEPT !.at = "freshens"]
    /\ UNCHANGED <<wants, a, hung, reader, locks, db, stored>>

\* The end of StoreBlock; at the end of a reorganization all addresses go.
FreshenAddressCaches ==
    /\ writer.at = "freshens" /\ ~hung
    /\ a' = IF writer.next = writer.block THEN Clear(DOMAIN a) ELSE Clear(Touched(writer.block))
    /\ writer' = Resting
    /\ UNCHANGED <<wants, hung, reader, locks, db, best, stored>>

\* ReorgHandler: the tip moves to the side chain, its rows first; then a block
\* beside it is stored.
ReorgHandler(b) ==
    /\ writer.at = "idle" /\ best # Genesis /\ b \notin stored /\ Blocks[b].prev = Blocks[best].prev
    /\ writer' = [at |-> "undo", block |-> best, next |-> b, todo |-> Touched(best)]
    /\ stored' = stored \cup {b}
    /\ UNCHANGED <<wants, a, hung, reader, locks, db, best>>

TipToSideChain(x) ==
    /\ writer.at = "undo" /\ x \in writer.todo
    /\ db' = [db EXCEPT ![x] = @ - Blocks[writer.block].adds[x]]
    /\ writer' = [writer EXCEPT !.todo = @ \ {x}]
    /\ UNCHANGED <<wants, a, hung, reader, locks, best, stored>>

TipMoved ==
    /\ writer.at = "undo" /\ writer.todo = {}
    /\ best' = Blocks[writer.block].prev
    /\ writer' = [writer EXCEPT !.at = "rows", !.block = writer.next, !.todo = Touched(writer.next)]
    /\ UNCHANGED <<wants, a, hung, reader, locks, db, stored>>

Reader(r) == TryLock(r) \/ Retry(r) \/ Query(r) \/ QueryFails(r) \/ StoreResult(r)
AddressNext ==
    \/ \E r \in Readers : Lookup(r) \/ Reader(r)
    \/ \E b \in DOMAIN Blocks : ConnectBlock(b) \/ ReorgHandler(b)
    \/ \E x \in Addrs : StoreRows(x) \/ TipToSideChain(x)
    \/ SetBest \/ FreshenAddressCaches \/ TipMoved

AddressSpec ==
    /\ AddressInit /\ [][AddressNext]_addressCacheVars
    /\ \A r \in Readers : WF_addressCacheVars(Reader(r))

(***************************************************************************)
(* Properties.                                                             *)
(***************************************************************************)
\* When no block is being stored, whatever a lookup would take from the cache is
\* what a query would answer, however late a result was stored that was queried
\* before, during or after a store or a reorganization.
HitsAreCurrent ==
    writer.at = "idle" =>
       \A x \in DOMAIN a, part \in Parts :
          Hit(x, part) => a[x].parts[part] = db[x]

\* "rowCapacity is an absolute limit on the number of address data table rows
\* that may have cached data, while addressCapacity is a limit on the number of
\* unique addresses in the cache" (NewAddressCache).  It holds because rows are
\* cleared before they are queried: a purge may remove the very item whose rows
\* it has already counted as replaced.
CapacityIsKept == length(a) <= Cap /\ Cardinality(DOMAIN a) <= CapAddr

AnswersAreCurrent == HitsAreCurrent /\ CapacityIsKept

\* A lookup that waits for another one's query is woken, also when that query
\* fails or its result does not fit.  (Where the project's address has so many
\* rows that nothing else fits, a purge may not end: see hung.)
WaitersAreWoken == \A r \in Readers : reader[r].at = "waits" ~> reader[r].at # "waits"

=============================================================================
