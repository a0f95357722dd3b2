-------------------------- MODULE MCStakeDatabase --------------------------
(* Small instances of StakeDatabase for TLC. *)
EXTENDS StakeDatabase

\* Two branches of three blocks on block 4: 5 - 6 - 7 and 8 - 9 - 10.
TwoBranches == [b \in 0 .. 10 |-> IF b = 0 THEN 0 ELSE IF b = 8 THEN 4 ELSE b - 1]

\* The tickets of block 1 are live from height 4.  The branches draw the same
\* ones at different heights; x is never drawn, and expires.
TicketsBought == [b \in 0 .. 10 |-> CASE b = 1 -> {"a", "b", "c", "x"} [] b = 2 -> {"d"}
                                      [] b = 3 -> {"e"} [] b = 5 -> {"f"} [] OTHER -> {}]
Draws == [b \in 0 .. 10 |-> CASE b = 4 -> {"a"} [] b = 5 -> {"b"} [] b = 6 -> {"c", "a"}
                              [] b = 8 -> {"c"} [] b = 9 -> {"b"} [] OTHER -> {}]

Scenario(k, r, s) == [kinds |-> k, maxReorgs |-> r, maxStops |-> s]

All == {Scenario({"reorgs"}, 3, 0), Scenario({"rpc", "reorgs"}, 2, 0),
        Scenario({"crashes"}, 0, 3), Scenario({"rpc", "crashes"}, 0, 1), Scenario({"crashes", "reorgs"}, 1, 2)}
CrashInReorg == {Scenario({"crashes", "reorgs"}, 1, 2)}
=============================================================================
