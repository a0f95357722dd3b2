---------------------------- MODULE MCTicketPool ----------------------------
(***************************************************************************)
(* Instances of TicketPool and of StakeNode for TLC: one of them runs, the *)
(* other stays in its initial state.                                       *)
(***************************************************************************)
EXTENDS TicketPool, StakeNode, TLC

VARIABLE part

MCInit == part \in {"pool", "node"} /\ Init /\ NodeInit

MCNext ==
    \/ part = "pool" /\ Next /\ UNCHANGED <<part, nodeVars>>
    \/ part = "node" /\ NodeNext /\ UNCHANGED <<part, vars>>

MCSpec == MCInit /\ [][MCNext]_<<part, vars, nodeVars>>

\* Ticket hashes are only compared.
TicketSymmetry == Permutations(NodeTickets)
=============================================================================
