----------------------------- MODULE MCLiquidity -----------------------------
(***************************************************************************)
(* Instances of Liquidity: a country pool below a regional one below the   *)
(* global one.  Amounts are multiples of 4 units and ratios are halves, so *)
(* that two rebalances in a row stay whole.                                *)
(***************************************************************************)
EXTENDS Liquidity, TLC

CONSTANTS country, regional, global, r1, r2

MCPools == {country, regional, global}
MCCalls == {r1, r2}
MCParent == (country :> regional) @@ (regional :> global) @@ (global :> NoPool)
MCLevel == (country :> 1) @@ (regional :> 2) @@ (global :> 3)
MCOpening == (country :> 8) @@ (regional :> 4) @@ (global :> 12)
MCLocked == (country :> 0) @@ (regional :> 4) @@ (global :> 0)

Symmetry == Permutations(MCCalls)
=============================================================================
