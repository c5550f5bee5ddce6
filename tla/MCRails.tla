------------------------------- MODULE MCRails -------------------------------
(***************************************************************************)
(* An instance of the four engines that carry a payment over a rail, which *)
(* share no state: a deployment wires one of them, and the wiring is       *)
(* chosen once, at the start.                                              *)
(*                                                                         *)
(* "native" is RailPayment: three executions over an order, another object *)
(* of the same order, and an order beyond the corridor's limit that        *)
(* carries the id of neither.  "treasury" is TreasuryRouting: two          *)
(* transfers that share pools or assets.  "planner", "router" and          *)
(* "reputation" are the parts of RoutePlanning, over the providers of      *)
(* tests/integration.                                                      *)
(***************************************************************************)
EXTENDS RailPayment, TreasuryRouting, RoutePlanning, TLC

CONSTANTS e1, e2, e3, order, redelivered, large, i1, i2, t1, t2

VARIABLE wired

MCExecutions == {e1, e2, e3}
MCObjects == {order, redelivered, large}
MCIds == {i1, i2}
MCRailId == (order :> i1) @@ (redelivered :> i1) @@ (large :> i2)
MCSource == (order :> 1) @@ (redelivered :> 1) @@ (large :> 3)
MCDestination == (order :> 2) @@ (redelivered :> 2) @@ (large :> 6)

-----------------------------------------------------------------------------
us == <<"US", "USD">>
in == <<"IN", "INR">>
usdc == <<"US", "USDC">>
MCTransfers == {t1, t2}
MCOpening == (in :> [balance |-> 400, minThreshold |-> 100, poolStatus |-> "active"])
          @@ (us :> [balance |-> 100, minThreshold |-> 100, poolStatus |-> "paused"])
          @@ (usdc :> [balance |-> 500, minThreshold |-> 300, poolStatus |-> "active"])
Transfer(from, to, amount, delivered) ==
  [from |-> from, to |-> to, amount |-> amount, delivered |-> delivered]

\* The second delivers more than is checked, the third gives something negative.
MCPayments ==
  {Transfer(us, in, 200, 180), Transfer(usdc, in, 80, 320), Transfer(usdc, in, -90, -60),
   Transfer(us, usdc, 150, 150), Transfer(usdc, usdc, 1000, 1000),
   Transfer(<<"US", "USDT">>, usdc, 400, 400), Transfer(<<"EU", "EUR">>, in, 100, 100)}
MCProviders == <<"mock", "solana">>

-----------------------------------------------------------------------------
Provider(type, countries, fees, timeMs, compliance) ==
  [type |-> type, countries |-> countries, fees |-> fees, timeMs |-> timeMs,
   compliance |-> compliance]

MCCatalogue ==
  [Internal_Netting |-> {Provider("internal", {"US", "IN", "EU"}, 2000, 100, "pass"),
                         Provider("internal", {"US", "IN", "EU"}, 250000, 100, "review")},
   Solana_USDC |-> {Provider("blockchain", {"US", "IN", "EU"}, 3, 400, "pass"),
                    Provider("blockchain", {"US", "IN", "EU"}, 3, 400, "fail")},
   Base_USDC |-> {Provider("blockchain", {"EU"}, 50, 2000, "pass")},
   Circle_CCTP |-> {Provider("blockchain", {"EU"}, 0, 120000, "pass")},
   ACH_Wire |-> {Provider("bank", {"US"}, 1500, 90000, "review")}]

Capability(health, least, liquidity, latency, success, priority) ==
  [health |-> health, corridors |-> {"IN-INR"}, minimumAmount |-> least, maximumAmount |-> 100,
   currentCapacity |-> 50, currentLiquidity |-> liquidity, averageLatencyMs |-> latency,
   successRate |-> success, priority |-> priority]

MCCapable ==
  [Internal_Netting |-> {Capability("HEALTHY", 1, 90, 50, 99, 1),
                         Capability("DOWN", 1, 90, 50, 99, 1),
                         Capability("HEALTHY", 1, 40, 900, 99, 3)},
   Solana_USDC |-> {Capability("HEALTHY", 1, 90, 13000, 98, 2),
                    Capability("HEALTHY", 20, 90, 600, 97, 2)},
   SWIFT_Wire |-> {Capability("HEALTHY", 1, 90, 259200000, 100, 1),
                   Capability("DEGRADED", 1, 90, 259200000, 95, 3)}]

MCFleet == <<"Internal_Netting", "Solana_USDC", "SWIFT_Wire">>
MCAsked == [amount : {10, 50, 60}, corridor : {"IN-INR", "US-USD"},
            policy : {"FASTEST", "RELIABLE", "BALANCED"}]

-----------------------------------------------------------------------------
MCInit ==
  /\ wired \in {"native", "treasury", "planner", "router", "reputation"}
  /\ Init /\ PlanningInit /\ TreasuryInit
  /\ wired # "treasury" => \A t \in Transfers : payment[t].amount = 1000

MCNext ==
  /\ UNCHANGED wired
  /\ \/ wired = "native" /\ Next /\ UNCHANGED <<tvars, pvars>>
     \/ wired = "treasury" /\ TreasuryNext /\ UNCHANGED <<vars, pvars>>
     \/ wired = "planner" /\ PlannerNext /\ UNCHANGED <<vars, tvars>>
     \/ wired = "router" /\ RouterNext /\ UNCHANGED <<vars, tvars>>
     \/ wired = "reputation" /\ ReputationNext /\ UNCHANGED <<vars, tvars>>

MCSpec == MCInit /\ [][MCNext]_<<vars, tvars, pvars, wired>>

Symmetry == Permutations(MCExecutions) \cup Permutations(MCTransfers)
=============================================================================
