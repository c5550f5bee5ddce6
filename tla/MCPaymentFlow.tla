--------------------------- MODULE MCPaymentFlow ---------------------------
(***************************************************************************)
(* Instances of PaymentFlow.  Three payments over two wallets, one of them *)
(* unknown to the repository: all three can compete for one balance that   *)
(* covers some but not all of them.  One amount is negative, so that a     *)
(* payment can be sent with funds that another had taken.                  *)
(***************************************************************************)
EXTENDS PaymentFlow

CONSTANTS p1, p2, p3, known, unknown

MCPayments == {p1, p2, p3}
MCWallets == {known, unknown}
MCExisting == {known}
MCAmounts == {-1, 0, 2}
MCFunding == [w \in MCWallets |-> IF w = known THEN 3 ELSE 0]
MCRoutes == {"MockSettlementProvider", "BlockchainSettlementAdapter", "InternalRailProvider"}
MCRegistered == {"MockSettlementProvider", "BlockchainSettlementAdapter"}
MCInstant == {"MockSettlementProvider", "InternalRailProvider"}
=============================================================================
