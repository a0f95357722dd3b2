----------------------------- MODULE MCNotifier -----------------------------
(* Small instances of Notifier for TLC, with the handlers main registers. *)
EXTENDS Notifier

\* 0 - 1 - 2 - 3 - 6 and the branch 1 - 4 - 5.
Forked == [b \in 0 .. 6 |-> CASE b = 0 -> 0 [] b = 1 -> 0 [] b = 2 -> 1 [] b = 3 -> 2
                              [] b = 4 -> 1 [] b = 5 -> 4 [] b = 6 -> 3]
MainBlockGroups == <<{"sdb"}, {"ws"}, {"api", "mpm"}>>
MainReorgGroups == <<{"sdb"}, {"ws", "pg"}, {"charts"}>>
MainTxGroups == <<{"mpm", "insight"}>>
MainRpcHandlers == {"sdb", "ws", "pg", "mpm"}

Scenario(f, q, r, t) == [faults |-> f, queueSize |-> q, maxReorgs |-> r, maxTxs |-> t]

\* A queue of 16 never fills with what dcrd can send on this tree.
Normal == {Scenario({}, 16, 2, 0), Scenario({}, 16, 1, 1), Scenario({"handler"}, 16, 0, 0),
           Scenario({"early"}, 16, 1, 0),
           Scenario({"ancestor"}, 16, 2, 0), Scenario({"deadline"}, 1, 0, 1)}
Late == {Scenario({"deadline"}, 16, 0, 0)}
=============================================================================
