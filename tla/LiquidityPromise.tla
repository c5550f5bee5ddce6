-------------------------- MODULE LiquidityPromise --------------------------
(***************************************************************************)
(* What the liquidity network promises as a whole, whichever pool a        *)
(* reservation is taken from and however pools are topped up from others:  *)
(* there is one pot of available money, a reservation takes from it only   *)
(* what it holds, and what a reservation took is either spent once or      *)
(* returned once.                                                          *)
(***************************************************************************)
EXTENDS Integers

CONSTANTS Calls   \* the calls of ReservationEngine.reserve

VARIABLES
  pot,            \* the money available in the network
  size,           \* the amount of each reservation
  state           \* the state of each reservation

vars == <<pot, size, state>>

Init ==
  /\ pot \in Nat
  /\ size = [r \in Calls |-> 0]
  /\ state = [r \in Calls |-> "none"]

Hold(r) ==
  /\ state[r] = "none"
  /\ state' = [state EXCEPT ![r] = "reserved"]
  /\ \E a \in 0 .. pot : /\ pot' = pot - a
                         /\ size' = [size EXCEPT ![r] = a]

Refuse(r) ==
  /\ state[r] = "none"
  /\ state' = [state EXCEPT ![r] = "refused"]
  /\ UNCHANGED <<pot, size>>

Spend(r) ==
  /\ state[r] = "reserved"
  /\ state' = [state EXCEPT ![r] = "committed"]
  /\ UNCHANGED <<pot, size>>

GiveBack(r) ==
  /\ state[r] = "reserved"
  /\ state' = [state EXCEPT ![r] = "rolled_back"]
  /\ pot' = pot + size[r]
  /\ UNCHANGED size

Next == \E r \in Calls : Hold(r) \/ Refuse(r) \/ Spend(r) \/ GiveBack(r)

Spec == Init /\ [][Next]_vars

=============================================================================
