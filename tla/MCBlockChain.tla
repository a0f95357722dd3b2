---------------------------- MODULE MCBlockChain ----------------------------
(***************************************************************************)
(* A small tree for BlockChain: two branches part above block 1, and 7 is  *)
(* another child of the second.  Block 5 has more work than 3 at the same  *)
(* height, and 8, a third child of 1, more than 2 and 3 together.  Block 9 *)
(* takes the place of block 1.                                             *)
(***************************************************************************)
EXTENDS BlockChain

MCParent == 0 :> 0 @@ 1 :> 0 @@ 2 :> 1 @@ 3 :> 2 @@ 4 :> 1 @@ 5 :> 4 @@ 6 :> 5 @@ 7 :> 4 @@ 8 :> 1
            @@ 9 :> 0
MCWork == 0 :> 1 @@ 1 :> 1 @@ 2 :> 1 @@ 3 :> 1 @@ 4 :> 1 @@ 5 :> 2 @@ 6 :> 1 @@ 7 :> 2 @@ 8 :> 3
          @@ 9 :> 2

Good == [b \in DOMAIN MCParent |-> "ok"]
Scenario(kind, sent, cps_, force, r, f) ==
    [kind |-> kind, sent |-> sent, checkpoints |-> cps_, callers |-> {"p"}, force |-> force,
     restarts |-> r, faults |-> f]

MCScenarios ==
    {Scenario(Good, 1 .. 6, <<>>, FALSE, 0, 0),
     Scenario([Good EXCEPT ![5] = "invalid"], 1 .. 6, <<>>, FALSE, 0, 0),
     Scenario([Good EXCEPT ![6] = "invalid", ![7] = "misplaced"], {1, 2, 4, 5, 6, 7}, <<>>, TRUE, 1, 0),
     Scenario([Good EXCEPT ![4] = "invalid"], {1, 2, 4, 5, 7}, <<>>, FALSE, 0, 1),
     Scenario([Good EXCEPT ![5] = "old"], {1, 2, 3, 4, 5, 8}, <<1, 3>>, TRUE, 1, 0),
     Scenario(Good, {1, 9}, <<>>, FALSE, 1, 0),
     [Scenario([Good EXCEPT ![8] = "invalid"], {1, 2, 8, 9}, <<>>, FALSE, 0, 0) EXCEPT !.callers = {"p", "q"}]}
=============================================================================
