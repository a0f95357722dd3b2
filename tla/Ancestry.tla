------------------------------ MODULE Ancestry ------------------------------
(***************************************************************************)
(* The two searches for the point at which chains part (rpcutils/          *)
(* rpcclient.go).  CommonAncestor walks back from two tips, whose blocks   *)
(* dcrd serves by hash, and collects both branches; the notifier calls it  *)
(* for each reorganization.  OrphanedTipLength compares the hashes that a  *)
(* database and dcrd have at each height; main calls it at start-up.       *)
(***************************************************************************)
EXTENDS BlockTree

CONSTANT MaxAncestorChainLength   \* the bound on the walk

ASSUME AncestryAssumption == MaxAncestorChainLength \in Nat \ {0}

Failed(why) == [err |-> why, ancestor |-> Genesis, chainA |-> <<>>, chainB |-> <<>>]

\* Blocks passed by the walk go in front of the two chains; running into the
\* bound returns none.
Passing(a, b, r) ==
    IF r.err = "length" THEN r
    ELSE [r EXCEPT !.chainA = @ \o a, !.chainB = @ \o b]

\* The walk ends above the common ancestor.
\* Mutant: it ends where the two blocks themselves are equal.
MeetHere(parent, a, b) == a = b

MeetBelow(parent, a, b) == parent[a] = parent[b]

\* One iteration per step of the walk: first down the higher branch, then down
\* both, and at least one block of each.
CommonAncestor(parent, hashA, hashB) ==
    LET H == HeightIn(parent)
        walk[s \in (DOMAIN parent) \X (DOMAIN parent) \X (0 .. MaxAncestorChainLength)] ==
          LET a == s[1]
              b == s[2]
          IN IF s[3] >= MaxAncestorChainLength THEN Failed("length")
             ELSE IF H[a] > H[b]
               THEN Passing(<<a>>, <<>>, walk[<<parent[a], b, s[3] + 1>>])
             ELSE IF H[b] > H[a]
               THEN Passing(<<>>, <<b>>, walk[<<a, parent[b], s[3] + 1>>])
             ELSE IF a = Genesis
               THEN [Failed("genesis") EXCEPT !.chainA = <<a>>, !.chainB = <<b>>]
             ELSE IF MeetBelow(parent, a, b)
               THEN [err |-> "none", ancestor |-> parent[a],
                     chainA |-> <<a>>, chainB |-> <<b>>]
             ELSE Passing(<<a>>, <<b>>, walk[<<parent[a], parent[b], s[3] + 1>>])
    IN walk[<<hashA, hashB, 0>>]

\* dbChain[h + 1] and dcrdChain[h + 1] are the hashes at height h.
SameAt(dbChain, dcrdChain, h) == dbChain[h + 1] = dcrdChain[h + 1]

\* -1 is an error.
OrphanedTipLength(dbChain, dcrdChain) ==
    LET tip == Len(dbChain) - 1
        from[h \in 0 .. tip] ==
          IF h + 1 > Len(dcrdChain) THEN -1
          ELSE IF SameAt(dbChain, dcrdChain, h) THEN tip - h
          ELSE IF h = 0 THEN -1
          ELSE from[h - 1]
    IN from[tip]
=============================================================================
