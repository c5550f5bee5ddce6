--------------------------- MODULE MCRemittanceApp ---------------------------
(***************************************************************************)
(* The two programs that customers and clients talk to; a deployment       *)
(* serves one of them.                                                     *)
(*                                                                         *)
(* "app": one account, which logs in before and after it is there; two     *)
(* amounts, and a gateway that restarts once.                              *)
(* "api": three calls, of which any number share a key, on one address     *)
(* whose bucket is smaller than their number.                              *)
(***************************************************************************)
EXTENDS RemittanceApp, PaymentApi

CONSTANTS a1, a2, a3

VARIABLE serves

MCCalls == {a1, a2, a3}

MCInit ==
  /\ serves \in {"app", "api"}
  /\ AppInit /\ ApiInit

MCNext ==
  /\ UNCHANGED serves
  /\ \/ serves = "app" /\ AppNext /\ UNCHANGED papi
     \/ serves = "api" /\ ApiNext /\ UNCHANGED avars

MCSpec == MCInit /\ [][MCNext]_<<avars, papi, serves>>
=============================================================================
