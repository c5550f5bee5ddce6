--------------------------- MODULE MCWalletPostgres ---------------------------
(***************************************************************************)
(* Instances of WalletPostgres: three calls over a wallet that covers some  *)
(* of what they reserve, and not always what they move twice.              *)
(***************************************************************************)
EXTENDS WalletPostgres

CONSTANTS c1, c2, c3

MCCalls == {c1, c2, c3}
MCAmounts == {-1, 0, 1, 2}
=============================================================================
