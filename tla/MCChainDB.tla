----------------------------- MODULE MCChainDB -----------------------------
(* Small instances of ChainDB for TLC. *)
EXTENDS ChainDB

\* Two branches on block 2, of which the first forks again:
\*    2 - 3 - 4        2 - 5 - 6
\*        3 - 7 - 8
Forks == [b \in 0 .. 8 |-> CASE b = 0 -> 0 [] b = 5 -> 2 [] b = 7 -> 3 [] OTHER -> b - 1]

\* Blocks 3 and 6 contain the same transaction x.  y3 and y5 spend the same
\* output, z4 and z7 that of a stake transaction, and a2 spends a1's.
RegularTxs == [b \in 0 .. 8 |-> CASE b = 1 -> {"a1", "b1"} [] b = 2 -> {"a2"}
                                   [] b = 3 -> {"x", "y3"} [] b = 4 -> {"z4"}
                                   [] b = 5 -> {"y5"} [] b = 6 -> {"x"}
                                   [] b = 7 -> {"z7"} [] OTHER -> {}]
StakeTxs == [b \in 0 .. 8 |-> CASE b = 1 -> {"s1"} [] b = 3 -> {"s3"} [] b = 5 -> {"s5"}
                                 [] OTHER -> {}]
Funds == [t \in {"a1", "b1", "a2", "x", "y3", "z4", "y5", "z7", "s1", "s3", "s5"} |->
            CASE t = "a2" -> "a1" [] t \in {"y3", "y5"} -> "b1" [] t \in {"z4", "z7"} -> "s3"
              [] t \in {"s3", "s5"} -> "s1" [] OTHER -> None]

Scenario(k, d, r, s) == [kinds |-> k, disapproving |-> d, maxReorgs |-> r, maxStops |-> s]

All == {Scenario({"reorgs"}, d, 2, 0) : d \in SUBSET {3, 4, 5}}
         \cup {Scenario({"crashes"}, d, 0, 2) : d \in {{}, {4}}}
         \cup {Scenario({"crashes", "reorgs"}, d, 1, 1) : d \in {{}, {3}, {4}, {5}}}
         \cup {Scenario({"rpc", "reorgs"}, d, 1, 0) : d \in {{}, {4}, {5}}}
Missed == {Scenario({"rpc", "reorgs"}, {}, 1, 0)}
CrashInStore == {Scenario({"crashes", "reorgs"}, {}, 1, 1)}
=============================================================================
