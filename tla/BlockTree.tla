----------------------------- MODULE BlockTree -----------------------------
(***************************************************************************)
(* Trees of blocks, as dcrd's block headers give them.  A block tree is a  *)
(* function from blocks to their parents; the genesis block 0 is its own   *)
(* parent here (its PrevBlock is the zero hash).                           *)
(***************************************************************************)
EXTENDS Integers, Sequences, TLC

Genesis == 0

\* The height of each block, and the blocks from genesis up to it.  (With @@ TLC
\* keeps the function as a table.)
HeightIn(parent) ==
    LET h[b \in DOMAIN parent] == IF b = Genesis THEN 0 ELSE h[parent[b]] + 1
    IN h @@ <<>>
PathIn(parent) ==
    LET p[b \in DOMAIN parent] == IF b = Genesis THEN <<b>> ELSE Append(p[parent[b]], b)
    IN p @@ <<>>
=============================================================================
