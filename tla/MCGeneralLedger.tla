--------------------------- MODULE MCGeneralLedger ---------------------------
(***************************************************************************)
(* An instance of GeneralLedger: four entries of two days over three       *)
(* accounts in two currencies.  Two entries can be posted, one does not    *)
(* balance and one has the wrong currency; three calls post them in any    *)
(* order, some twice.                                                      *)
(***************************************************************************)
EXTENDS GeneralLedger, TLC

CONSTANTS cash, client, fees, sale, transfer, slip, mixed, c1, c2, c3

MCCalls == {c1, c2, c3}
MCEntries == {sale, transfer, slip, mixed}
MCAccounts == {cash, client, fees}
MCType == (cash :> "ASSET") @@ (client :> "LIABILITY") @@ (fees :> "EXPENSE")
MCCurrency == (cash :> "USD") @@ (client :> "USD") @@ (fees :> "EUR")

MCLine(a, d, n, cur) == [account |-> a, direction |-> d, amount |-> n, currency |-> cur]

MCLines ==
  (sale     :> <<MCLine(cash, "DEBIT", 3, "USD"), MCLine(fees, "DEBIT", 1, "EUR"),
                 MCLine(client, "CREDIT", 4, "USD")>>) @@
  (transfer :> <<MCLine(client, "DEBIT", 2, "USD"), MCLine(cash, "CREDIT", 2, "USD")>>) @@
  (slip     :> <<MCLine(cash, "DEBIT", 2, "USD"), MCLine(client, "CREDIT", 1, "USD")>>) @@
  (mixed    :> <<MCLine(cash, "DEBIT", 1, "EUR"), MCLine(client, "CREDIT", 1, "USD")>>)
MCTime == (sale :> 1) @@ (transfer :> 2) @@ (slip :> 1) @@ (mixed :> 2)

Symmetry == Permutations(MCCalls)
=============================================================================
