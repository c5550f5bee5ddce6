---------------------------- MODULE MCConnectivity ----------------------------
(***************************************************************************)
(* Instances of Connectivity and of RealProviders, of which a deployment   *)
(* constructs one or the other.                                            *)
(*                                                                         *)
(* "sandbox": a journey of the amount that the sandbox executes and one of *)
(* another amount, two officers, and a daily limit that covers one of      *)
(* them.  "real": two remittances that share the switch and the session.   *)
(***************************************************************************)
EXTENDS Connectivity, RealProviders, TLC

CONSTANTS j1, j2, ann, bob, r1, r2

VARIABLE constructed

MCJourneys == {j1, j2}
MCOfficers == {ann, bob}
MCAmount == (j1 :> 1) @@ (j2 :> 2)
MCRemittances == {r1, r2}

MCInit ==
  /\ constructed \in {"sandbox", "real"}
  /\ Init /\ RealInit
  /\ IF constructed = "sandbox" THEN ~live /\ ~enabled
     ELSE ~realMoney /\ \A c \in Connectors : connector[c].environment = "SANDBOX"

MCNext ==
  /\ UNCHANGED constructed
  /\ \/ constructed = "sandbox" /\ Next /\ UNCHANGED rvars
     \/ constructed = "real" /\ RealNext /\ UNCHANGED vars

MCSpec == MCInit /\ [][MCNext]_<<vars, rvars, constructed>>

Symmetry == Permutations(MCOfficers) \cup Permutations(MCRemittances)
=============================================================================
