------------------------ MODULE MCSettlementScheduler ------------------------
(***************************************************************************)
(* An instance of SettlementScheduler: two reservations of one pool, three *)
(* tasks in any priorities, some for the same reservation or for none, and *)
(* three overlapping workers.  No policy is set.                           *)
(***************************************************************************)
EXTENDS SettlementScheduler, TLC

CONSTANTS pool, r1, r2, w1, w2, w3

MCPools == {pool}
MCParent == (pool :> NoPool)
MCLevel == (pool :> 1)
MCOpening == (pool :> 2)
MCLocked == (pool :> 0)
MCCalls == {r1, r2}
MCWorkers == {w1, w2, w3}

Symmetry == Permutations(MCCalls) \cup Permutations(MCWorkers)
=============================================================================
