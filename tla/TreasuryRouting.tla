---------------------------- MODULE TreasuryRouting ----------------------------
(***************************************************************************)
(* A transfer over the rails of src/src: RoutingEngine chooses between     *)
(* internal netting and the settlement providers it was given,             *)
(* InternalRailProvider or BlockchainSettlementAdapter over SolanaProvider *)
(* carries it out, and TreasuryService moves the country pools of          *)
(* InMemoryTreasuryRepository.  SimulationEngine, with CostEngine, ranks   *)
(* the same rails without asking them.                                     *)
(*                                                                         *)
(* A desk is the caller: it routes a transfer, sends it, sends it again    *)
(* when told that it failed, asks for the status of a pending one, and     *)
(* records what internal netting settled.  Transfers interleave at every   *)
(* await.  The chain is external: a transaction lands, lands with an       *)
(* error, or is dropped.                                                   *)
(*                                                                         *)
(* The amount is what the sender gives, in the currency of "from"; what is *)
(* delivered is in that of "to", converted by the desk.  Neither is        *)
(* validated, but a route cannot be costed for an amount of 0.             *)
(***************************************************************************)
EXTENDS Integers, FiniteSets, Sequences

CONSTANTS
  Transfers,   \* transfers of the desk
  Payments,    \* [from, to, amount, delivered]; an end is a <<country, currency>>
  Opening,     \* pools there are: [balance, minThreshold, poolStatus] at each end
  Providers,   \* the providers the engine was constructed with, in order
  MaxSends,    \* bound on the sends of one transfer
  NoRail

Rails == {"internal", "mock", "solana"}
Pools == DOMAIN Opening

ASSUME TreasuryAssumption ==
  /\ MaxSends \in Nat \ {0} /\ NoRail \notin Rails \cup Nat
  /\ Providers \in Seq({"mock", "solana"})
  /\ \A q \in Payments : q.amount \in Int \ {0} /\ q.delivered \in Int
  /\ \A p \in Pools : Opening[p].balance \in Int /\ Opening[p].minThreshold \in Int

VARIABLES
  payment,     \* what each transfer moves
  pool,        \* balance and flows of each pool
  phase,       \* where each transfer is
  internal,    \* the answer of checkLiquidity
  rail,        \* the provider of the optimal route, or none
  chain,       \* the transactions each transfer broadcast, in order
  reference,   \* which of them its last send returned, or none
  contended    \* pools that were checked while an earlier check was still to be recorded

tvars == <<payment, pool, phase, internal, rail, chain, reference, contended>>

Phase == {"new", "checked", "routed", "refused", "built", "failed", "pending", "confirmed",
          "netted", "inflowRecorded", "settled", "unrecorded"}
TxState == {"inflight", "landed", "erred", "dropped"}

(* getTokenConfig: what the registry does not know is sent as native SOL.  *)
TokenRegistry == {"USDC", "EURC"}
AssetSent(currency) == IF currency \in TokenRegistry THEN currency ELSE "SOL"

(* A broadcast transaction.                                                *)
ChainTx == [state : TxState, answered : BOOLEAN, asset : TokenRegistry \cup {"SOL"}]

TreasuryTypeOK ==
  /\ payment \in [Transfers -> Payments]
  /\ pool \in [Pools -> [balance : Int, inflow : Int, outflow : Int]]
  /\ phase \in [Transfers -> Phase] /\ internal \in [Transfers -> BOOLEAN]
  /\ rail \in [Transfers -> Rails \cup {NoRail}]
  /\ chain \in [Transfers -> Seq(ChainTx)]
  /\ reference \in [Transfers -> Nat \cup {NoRail}]
  /\ \A t \in Transfers :
       Len(chain[t]) <= MaxSends /\ reference[t] \in DOMAIN chain[t] \cup {NoRail}
  /\ contended \subseteq Pools

TreasuryInit ==
  /\ payment \in [Transfers -> Payments]
  /\ pool = [p \in Pools |-> [balance |-> Opening[p].balance, inflow |-> 0, outflow |-> 0]]
  /\ phase = [t \in Transfers |-> "new"] /\ internal = [t \in Transfers |-> FALSE]
  /\ rail = [t \in Transfers |-> NoRail] /\ chain = [t \in Transfers |-> <<>>]
  /\ reference = [t \in Transfers |-> NoRail] /\ contended = {}

Goes(t, from, to) == phase[t] = from /\ phase' = [phase EXCEPT ![t] = to]

-----------------------------------------------------------------------------
(* TreasuryService and its repository.                                     *)

(* The transfer itself left out.                                          *)
LiquidNow(t) ==
  /\ payment[t].to \in Pools
  /\ Opening[payment[t].to].poolStatus = "active"
  /\ pool[payment[t].to].balance >= Opening[payment[t].to].minThreshold

(* checkLiquidity: what is left after the transfer keeps the threshold.    *)
(* The engine asks for the sender's amount, in the recipient's pool.       *)
Liquid(t) ==
  /\ payment[t].to \in Pools
  /\ Opening[payment[t].to].poolStatus = "active"
  /\ pool[payment[t].to].balance - payment[t].amount >= Opening[payment[t].to].minThreshold

(* A transfer whose check passed and whose outflow is still to come.       *)
Open(t, p) == internal[t] /\ payment[t].to = p
                /\ phase[t] \in {"checked", "routed", "netted", "inflowRecorded"}

CheckLiquidity(t) ==
  /\ Goes(t, "new", "checked")
  /\ internal' = [internal EXCEPT ![t] = Liquid(t)]
  /\ contended' = IF Liquid(t) /\ \E u \in Transfers : Open(u, payment[t].to)
                  THEN contended \cup {payment[t].to} ELSE contended
  /\ UNCHANGED <<payment, pool, rail, chain, reference>>

UpdatePoolBalances(p, balance, inflow, outflow) ==
  pool' = [pool EXCEPT ![p] = [balance |-> @.balance + balance, inflow |-> @.inflow + inflow,
                               outflow |-> @.outflow + outflow]]

(* recordTransfer: both pools are looked up before either is updated, and  *)
(* an await lies between the two updates.                                  *)
RecordInflow(t) ==
  LET p == payment[t].from
  IN  /\ \/ /\ {p, payment[t].to} \subseteq Pools /\ Goes(t, "netted", "inflowRecorded")
            /\ UpdatePoolBalances(p, payment[t].amount, payment[t].amount, 0)
         \/ ~({p, payment[t].to} \subseteq Pools) /\ Goes(t, "netted", "unrecorded")
            /\ UNCHANGED pool
      /\ UNCHANGED <<payment, internal, rail, chain, reference, contended>>

RecordOutflow(t) ==
  /\ Goes(t, "inflowRecorded", "settled")
  /\ UpdatePoolBalances(payment[t].to, -payment[t].delivered, 0, payment[t].delivered)
  /\ UNCHANGED <<payment, internal, rail, chain, reference, contended>>

-----------------------------------------------------------------------------
(* RoutingEngine over the providers.  Fees in millionths of a dollar.      *)

SupportedAssets == {"USDC", "USDT", "EURC", "SOL"}
Confidence == [low |-> 1, medium |-> 2, high |-> 3, very_high |-> 4]
InternalRoute == [rail |-> "internal", cost |-> 1000000, confidence |-> "very_high"]
MockEstimate == [rail |-> "mock", cost |-> 2500000, confidence |-> "high"]
BlockchainEstimate == [rail |-> "solana", cost |-> 5, confidence |-> "medium"]
Estimate == [mock |-> MockEstimate, solana |-> BlockchainEstimate]

(* supportsRoute of each provider; canSettle refuses nothing beyond it.    *)
MockSupports(from, to) == <<from, to>> \in {<<"USD", "INR">>, <<"EUR", "USD">>}
BlockchainSupports(from, to) == {from, to} \subseteq SupportedAssets

Supports(provider, from, to) ==
  IF provider = "mock" THEN MockSupports(from, to) ELSE BlockchainSupports(from, to)

(* The rails that can take the transfer, in the order they are asked: 0 is *)
(* internal netting, the others are the providers.                         *)
Options(t) ==
  {i \in 0 .. Len(Providers) :
     IF i = 0 THEN internal[t] ELSE Supports(Providers[i], payment[t].from[2], payment[t].to[2])}

Route(i) == IF i = 0 THEN InternalRoute ELSE Estimate[Providers[i]]

(* Cheapest first, the more confident first among equals; the sort is stable. *)
Precedes(i, j) ==
  \/ Route(i).cost < Route(j).cost
  \/ /\ Route(i).cost = Route(j).cost
     /\ \/ Confidence[Route(i).confidence] > Confidence[Route(j).confidence]
        \/ Route(i).confidence = Route(j).confidence /\ i < j

FindOptimalRoute(t) ==
  /\ \/ Options(t) = {} /\ Goes(t, "checked", "refused") /\ UNCHANGED rail
     \/ /\ Goes(t, "checked", "routed")
        /\ \E i \in Options(t) : /\ \A j \in Options(t) \ {i} : Precedes(i, j)
                                 /\ rail' = [rail EXCEPT ![t] = Route(i).rail]
  /\ UNCHANGED <<payment, pool, internal, chain, reference, contended>>

-----------------------------------------------------------------------------
(* send of the providers.                                                  *)

(* The internal rail and the mock answer 'success' whatever they are sent. *)
SendInternally(t) ==
  /\ rail[t] = "internal" /\ Goes(t, "routed", "netted")
  /\ UNCHANGED <<payment, pool, internal, rail, chain, reference, contended>>

SendToMock(t) ==
  /\ rail[t] = "mock" /\ Goes(t, "routed", "settled")
  /\ UNCHANGED <<payment, pool, internal, rail, chain, reference, contended>>

(* buildTransaction and signTransaction: the keys may be missing, and each *)
(* question to the node may throw; nothing is on the chain yet.  A failed  *)
(* result is retryable, and the desk sends again.                          *)
Build(t) ==
  /\ phase[t] \in {"routed", "failed"} /\ rail[t] = "solana" /\ Len(chain[t]) < MaxSends
  /\ \E to \in {"built", "failed"} : phase' = [phase EXCEPT ![t] = to]
  /\ reference' = [reference EXCEPT ![t] = NoRail]
  /\ UNCHANGED <<payment, pool, internal, rail, chain, contended>>

(* broadcastTransaction: answered, refused, or accepted with its answer lost. *)
Broadcast(t) ==
  LET Sent(answered) ==
        [chain EXCEPT ![t] = Append(@, [state |-> "inflight", answered |-> answered,
                                        asset |-> AssetSent(payment[t].from[2])])]
  IN  /\ \/ /\ Goes(t, "built", "pending") /\ chain' = Sent(TRUE)
            /\ reference' = [reference EXCEPT ![t] = Len(chain[t]) + 1]
         \/ Goes(t, "built", "failed") /\ chain' \in {chain, Sent(FALSE)} /\ UNCHANGED reference
      /\ UNCHANGED <<payment, pool, internal, rail, contended>>

ChainResolves(t, i) ==
  /\ chain[t][i].state = "inflight"
  /\ \E state \in TxState \ {"inflight"} : chain' = [chain EXCEPT ![t][i].state = state]
  /\ UNCHANGED <<payment, pool, phase, internal, rail, reference, contended>>

(* verifyTransaction: on the chain and without an error.                   *)
Verified(t) == chain[t][reference[t]].state = "landed"

(* getStatus: what is not verified stays pending, also when it never will be. *)
GetStatus(t) ==
  /\ phase[t] = "pending" /\ Verified(t)
  /\ Goes(t, "pending", "confirmed")
  /\ UNCHANGED <<payment, pool, internal, rail, chain, reference, contended>>

TreasuryNext ==
  \E t \in Transfers :
    \/ CheckLiquidity(t) \/ FindOptimalRoute(t) \/ SendInternally(t) \/ SendToMock(t)
    \/ Build(t) \/ Broadcast(t) \/ GetStatus(t) \/ RecordInflow(t) \/ RecordOutflow(t)
    \/ \E i \in DOMAIN chain[t] : ChainResolves(t, i)

TreasurySpec == TreasuryInit /\ [][TreasuryNext]_tvars

-----------------------------------------------------------------------------
(* SimulationEngine over CostEngine, for an amount of whole dollars, 1 or  *)
(* more.                                                                   *)

Rail(name, spread, fixed, risk) ==
  [name |-> name, spread |-> spread, fixed |-> fixed, risk |-> risk]

(* The spread in tenths of a percent, fixed costs and risk in tenths of a cent. *)
SimulatedRails == <<Rail("Internal_Netting", 5, 600, 0), Rail("Solana_USDC", 2, 605, 200),
                    Rail("SWIFT_Wire", 15, 27000, 0)>>

(* calculateCosts: the total, and the score times the amount.              *)
TotalCostUSD(r, amount) == r.spread * amount + r.fixed + r.risk
RouteScore(r, amount) == 100 * amount - TotalCostUSD(r, amount) - (5 * r.risk * amount) \div 1000

(* simulateAllRoutes: of two viable rails, the one with the better score   *)
(* comes first, or the one that was simulated first.                       *)
SimulateAllRoutes(amount) ==
  LET score(i) == RouteScore(SimulatedRails[i], amount)
      viable == {i \in DOMAIN SimulatedRails : score(i) > 0}
  IN  {ranked \in viable \X viable :
         \/ score(ranked[1]) > score(ranked[2])
         \/ score(ranked[1]) = score(ranked[2]) /\ ranked[1] < ranked[2]}

-----------------------------------------------------------------------------
(* What recordTransfer has begun to move, or moved.                        *)
Recorded(t) == rail[t] = "internal" /\ phase[t] \in {"inflowRecorded", "settled"}

(* The transfer takes from the pool no more than was checked, and gives it *)
(* something.                                                              *)
TakesAsChecked(t, p) ==
  /\ payment[t].to = p => payment[t].delivered <= payment[t].amount
  /\ payment[t].from = p => payment[t].amount > 0

(* A pool on which no two transfers were between check and record at a     *)
(* time never falls below its threshold, whatever else interleaves, as     *)
(* long as none recorded on it delivered more than the sender's amount,    *)
(* which is what was checked; and its balance always is its opening        *)
(* balance with its flows.                                                 *)
ThresholdKept ==
  \A p \in Pools :
    /\ pool[p].balance = Opening[p].balance + pool[p].inflow - pool[p].outflow
    /\ /\ p \notin contended /\ Opening[p].balance >= Opening[p].minThreshold
       /\ \A t \in Transfers : Recorded(t) => TakesAsChecked(t, p)
       => pool[p].balance >= Opening[p].minThreshold

(* A confirmed transfer landed, in the asset that was asked for wherever   *)
(* the token registry knows it; and a transfer landed twice only when the  *)
(* answer to one of its broadcasts was lost.                               *)
ConfirmedLanded ==
  \A t \in Transfers :
    /\ phase[t] = "confirmed" =>
         LET tx == chain[t][reference[t]]
         IN  tx.state = "landed" /\ (tx.asset = payment[t].from[2]
                                       \/ payment[t].from[2] \notin TokenRegistry)
    /\ \A i, j \in DOMAIN chain[t] :
         i # j /\ chain[t][i].state = "landed" /\ chain[t][j].state = "landed" =>
           ~(chain[t][i].answered /\ chain[t][j].answered)

(* A rail is ranked before a cheaper one only for the risk that the        *)
(* cheaper one carries.                                                    *)
RankedByCost ==
  \A t \in Transfers : payment[t].amount > 0 =>
    \A ranked \in SimulateAllRoutes(payment[t].amount) :
      LET first == SimulatedRails[ranked[1]]
          second == SimulatedRails[ranked[2]]
      IN  \/ TotalCostUSD(first, payment[t].amount) <= TotalCostUSD(second, payment[t].amount)
          \/ first.risk < second.risk

(* What the desk relies on, of its pools, its transfers and its rails.     *)
TransfersHold == TreasuryTypeOK /\ ThresholdKept /\ ConfirmedLanded /\ RankedByCost
=============================================================================
