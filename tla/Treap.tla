------------------------------- MODULE Treap --------------------------------
(***************************************************************************)
(* The immutable treap that holds live, missed and revoked tickets         *)
(* (blockchain/stake/internal/tickettreap) and the lottery that draws      *)
(* winners from it by index (blockchain/stake/lottery.go).                 *)
(*                                                                         *)
(* Nodes are objects: an operation clones the nodes it changes, and older  *)
(* versions of the treap share the others.  The objects that a version was *)
(* made of are <<key, 0>>, what the next operation allocates is <<key, 1>> *)
(* (it allocates at most one node of a key); when it has returned, the     *)
(* objects of the new version are renamed, and `intact' tells whether the  *)
(* old version was left as it was.  A priority is the height of a ticket.  *)
(***************************************************************************)
EXTENDS Integers, Sequences, FiniteSets, SequencesExt, FiniteSetsExt, Functions

CONSTANTS Keys,      \* numbers, ordered as hashes are
          Heights,
          WordSize   \* 2^32: what Hash256Rand returns is below

VARIABLES treap,     \* nodes, root and count of the current version
          contents,  \* what was put and not deleted: the map that the treap stands for
          intact

treapVars == <<treap, contents, intact>>

Nil == <<0, 0>>
New(id) == <<id[1], 1>>
Empty == [nodes |-> <<>>, root |-> Nil, count |-> 0]

SizeOf(nodes, id) == IF id = Nil THEN 0 ELSE nodes[id].size

newTreapNode(key, value) ==
    [key |-> key, value |-> value, priority |-> value.height, size |-> 1, left |-> Nil, right |-> Nil]

\* The parents' stack: from the root to the key, or to where it would be.
RECURSIVE Path(_, _, _)
Path(nodes, id, key) ==
    CASE id = Nil -> <<>>
      [] id # Nil /\ nodes[id].key = key -> <<id>>
      [] OTHER -> <<id>> \o Path(nodes, IF key < nodes[id].key THEN nodes[id].left ELSE nodes[id].right, key)

get(t, key) ==
    LET path == Path(t.nodes, t.root, key)
    IN  IF path # <<>> /\ t.nodes[Last(path)].key = key THEN Last(path) ELSE Nil

\* The nodes of the path are cloned and linked to each other, their sizes
\* changed by d.
Cloned(nodes, path, d) ==
    LET on == ToSet(path)
        link(id) == IF id \in on THEN New(id) ELSE id
    IN  [x \in DOMAIN nodes \cup {New(id) : id \in on} |->
           IF x[2] = 0 THEN nodes[x]
           ELSE LET old == nodes[<<x[1], 0>>] IN
                  [old EXCEPT !.size = @ + d, !.left = link(@), !.right = link(@)]]

\* What hung below `parent' as `old' is replaced by `new'.
Relinked(nodes, parent, old, new) ==
    IF nodes[parent].left = old THEN [nodes EXCEPT ![parent].left = new]
    ELSE [nodes EXCEPT ![parent].right = new]

\* The new node n is rotated up while its priority is below its parent's.
RECURSIVE RotateUp(_, _, _, _)
RotateUp(nodes, root, n, parents) ==
    IF parents = <<>> \/ nodes[n].priority >= nodes[Last(parents)].priority
    THEN [nodes |-> nodes, root |-> root]
    ELSE LET p == Last(parents)
             rest == Front(parents)
             rotated ==
               IF nodes[p].left = n
               THEN [nodes EXCEPT ![n].size = @ + 1 + SizeOf(nodes, nodes[p].right),
                                  ![p].size = @ - (1 + SizeOf(nodes, nodes[n].left)),
                                  ![n].right = p, ![p].left = nodes[n].right]
               ELSE [nodes EXCEPT ![n].size = @ + 1 + SizeOf(nodes, nodes[p].left),
                                  ![p].size = @ - (1 + SizeOf(nodes, nodes[n].right)),
                                  ![n].left = p, ![p].right = nodes[n].left]
         IN  IF rest = <<>> THEN RotateUp(rotated, n, n, rest)
             ELSE RotateUp(Relinked(rotated, Last(rest), p, n), root, n, rest)

Put(t, key, value) ==
    LET path  == Path(t.nodes, t.root, key)
        ids   == [i \in DOMAIN path |-> New(path[i])]
        clone == Cloned(t.nodes, path, 0)
        grown == Cloned(t.nodes, path, 1)
        n     == <<key, 1>>
        added == [x \in DOMAIN grown \cup {n} |-> IF x = n THEN newTreapNode(key, value) ELSE grown[x]]
        p     == Last(ids)
        placed == IF key < added[p].key THEN [added EXCEPT ![p].left = n] ELSE [added EXCEPT ![p].right = n]
        r     == RotateUp(placed, ids[1], n, ids)
    IN  CASE t.root = Nil -> [nodes |-> [x \in {n} |-> newTreapNode(key, value)], root |-> n, count |-> 1]
          [] get(t, key) # Nil ->
               [nodes |-> [clone EXCEPT ![Last(ids)].value = value], root |-> ids[1], count |-> t.count]
          [] OTHER -> [nodes |-> r.nodes, root |-> r.root, count |-> t.count + 1]

\* The node d is rotated down, below a clone of its child of lower priority,
\* until it is a leaf and can be cut off.
RECURSIVE Sink(_, _, _, _)
Sink(nodes, root, d, parent) ==
    LET l == nodes[d].left
        r == nodes[d].right
        isLeft == r = Nil \/ (l # Nil /\ nodes[l].priority <= nodes[r].priority)
        child == IF isLeft THEN l ELSE r
        c == New(child)
        cloned == [x \in DOMAIN nodes \cup {c} |-> IF x = c THEN nodes[child] ELSE nodes[x]]
        rotated ==
          IF isLeft
          THEN [cloned EXCEPT ![c].size = @ + SizeOf(nodes, r), ![c].right = d, ![d].left = nodes[child].right]
          ELSE [cloned EXCEPT ![c].size = @ + SizeOf(nodes, l), ![c].left = d, ![d].right = nodes[child].left]
    IN  IF l = Nil /\ r = Nil
        THEN [nodes |-> IF nodes[parent].right = d THEN [nodes EXCEPT ![parent].right = Nil]
                        ELSE [nodes EXCEPT ![parent].left = Nil],
              root |-> root]
        ELSE IF parent = Nil THEN Sink(rotated, c, d, c)
        ELSE Sink(Relinked(rotated, parent, d, c), root, d, c)

Delete(t, key) ==
    LET path == Path(t.nodes, t.root, key)
        ids  == [i \in DOMAIN path |-> New(path[i])]
        del  == t.nodes[Last(path)]
        r    == Sink(Cloned(t.nodes, path, -1), ids[1], Last(ids),
                     IF Len(ids) = 1 THEN Nil ELSE ids[Len(ids) - 1])
    IN  CASE get(t, key) = Nil -> t
          [] get(t, key) # Nil /\ Len(path) = 1 /\ del.left = Nil /\ del.right = Nil -> Empty
          [] OTHER -> [nodes |-> r.nodes, root |-> r.root, count |-> t.count - 1]

\* In ascending order, without what hangs below a node of the height or above.
RECURSIVE Visit(_, _, _)
Visit(nodes, id, heightLessThan) ==
    IF id = Nil \/ nodes[id].priority >= heightLessThan THEN <<>>
    ELSE Visit(nodes, nodes[id].left, heightLessThan) \o <<nodes[id].key>>
           \o Visit(nodes, nodes[id].right, heightLessThan)

ForEachByHeight(t, heightLessThan) == Visit(t.nodes, t.root, heightLessThan)
ForEach(t) == ForEachByHeight(t, Max(Heights) + 1)

\* The sizes tell on which side an index is.
RECURSIVE getByIndex(_, _, _)
getByIndex(nodes, id, idx) ==
    LET left == SizeOf(nodes, nodes[id].left) IN
      IF idx < left THEN getByIndex(nodes, nodes[id].left, idx)
      ELSE IF idx = left THEN nodes[id].key
      ELSE getByIndex(nodes, nodes[id].right, idx - left - 1)

\* Winners in the order of the indexes that were drawn.
fetchWinners(t, idxs) ==
    IF t.count = 0 \/ \E i \in DOMAIN idxs : idxs[i] >= t.count THEN "out of bounds"
    ELSE [i \in DOMAIN idxs |-> getByIndex(t.nodes, t.root, idxs[i])]

-----------------------------------------------------------------------------
(* The lottery: unsigned arithmetic modulo WordSize.                       *)

\* Numbers below are rejected, so that every index has as many numbers.
RejectBelow(upperBound) ==
    IF upperBound > WordSize \div 2 THEN (1 + (WordSize - 1 - upperBound)) % WordSize
    ELSE (((WordSize - 1) - ((upperBound * 2) % WordSize) + 1) % WordSize) % upperBound
uniformRandom(upperBound, r) == IF upperBound < 2 THEN 0 ELSE r % upperBound

\* n indexes below size, from a sequence of numbers that is long enough; no
\* number is taken for an index when there is no choice.
findTicketIdxs(size, n, numbers) ==
    IF size < n THEN "list size too small"
    ELSE FoldLeft(LAMBDA list, r :
                    IF \/ Len(list) = n
                       \/ size >= 2 /\ r < RejectBelow(size)
                       \/ uniformRandom(size, r) \in ToSet(list)
                    THEN list ELSE Append(list, uniformRandom(size, r)),
                  <<>>, numbers)

-----------------------------------------------------------------------------
(* Operations.  A ticket is put again with the height that it has.         *)

RECURSIVE Reachable(_, _)
Reachable(nodes, id) ==
    IF id = Nil THEN {}
    ELSE {id} \cup Reachable(nodes, nodes[id].left) \cup Reachable(nodes, nodes[id].right)

Renamed(t) ==
    LET live == Reachable(t.nodes, t.root)
        name(id) == IF id = Nil THEN Nil ELSE <<id[1], 0>>
        was(x) == CHOOSE id \in live : id[1] = x[1]
    IN  [nodes |-> [x \in {name(id) : id \in live} |->
                      [t.nodes[was(x)] EXCEPT !.left = name(@), !.right = name(@)]],
         root |-> name(t.root), count |-> t.count]

\* `t' is what an operation returned; the objects that it started from are
\* still what they were, unless it returned none of its own.
Becomes(t) ==
    /\ treap' = Renamed(t)
    /\ intact' = \A x \in DOMAIN treap.nodes : x \in DOMAIN t.nodes => t.nodes[x] = treap.nodes[x]

TreapInit == treap = Empty /\ contents = <<>> /\ intact = TRUE

PutTicket ==
    \E k \in Keys, h \in Heights, missed \in BOOLEAN :
      LET value == [height |-> h, missed |-> missed] IN
        /\ k \in DOMAIN contents => h = contents[k].height /\ missed # contents[k].missed
        /\ k \notin DOMAIN contents => ~missed
        /\ Becomes(Put(treap, k, value))
        /\ contents' = [x \in DOMAIN contents \cup {k} |-> IF x = k THEN value ELSE contents[x]]

DeleteTicket ==
    \E k \in Keys :
      /\ Becomes(Delete(treap, k))
      /\ contents' = [x \in DOMAIN contents \ {k} |-> contents[x]]

TreapNext == PutTicket \/ DeleteTicket

-----------------------------------------------------------------------------
\* After any puts and deletes the treap is the map it stands for: every key is
\* found, in order, by its rank and by its height, the sizes and the count fit,
\* priorities rise downwards, and readers of the version before are not
\* disturbed.
TreapIsSound ==
    LET t == treap
        sorted == SetToSortSeq(DOMAIN contents, <)
        id(k) == get(t, k)
    IN /\ intact
       /\ t.count = Cardinality(DOMAIN contents)
       /\ \A k \in Keys : k \in DOMAIN contents <=> id(k) # Nil
       /\ \A k \in DOMAIN contents : t.nodes[id(k)].value = contents[k]
       /\ ForEach(t) = sorted
       /\ \A h \in Heights : ForEachByHeight(t, h) = SelectSeq(sorted, LAMBDA k : contents[k].height < h)
       /\ \A x \in DOMAIN t.nodes : \A c \in {t.nodes[x].left, t.nodes[x].right} \ {Nil} :
            t.nodes[c].priority >= t.nodes[x].priority
       /\ t.count > 0 => fetchWinners(t, [i \in 1 .. t.count |-> i - 1]) = sorted
       /\ \A x \in DOMAIN t.nodes : t.nodes[x].size = Cardinality(Reachable(t.nodes, x))

\* Every index is as likely as another, and the indexes drawn are different.
DrawIsFair(numbers) ==
    /\ \A bound \in 2 .. WordSize - 1 : \A x, y \in 0 .. bound - 1 :
         LET chances(i) == {r \in RejectBelow(bound) .. WordSize - 1 : uniformRandom(bound, r) = i}
         IN  Cardinality(chances(x)) = Cardinality(chances(y))
    /\ \A size \in 1 .. 5 : \A n \in 0 .. size :
         LET drawn == findTicketIdxs(size, n, numbers)
         IN  IsInjective(drawn) /\ ToSet(drawn) \subseteq 0 .. size - 1
=============================================================================
