---------------------------- MODULE WalletPromise ----------------------------
(***************************************************************************)
(* What reserving and spending funds promises the owner of a wallet,       *)
(* however the wallet is stored and whatever runs concurrently: a payment  *)
(* takes its amount from the free funds in one step, only when they cover  *)
(* it, and is sent to a settlement provider only after that.  What has     *)
(* been taken returns to the free funds in one case only, that of a        *)
(* request with a negative amount, which is never sent.                    *)
(***************************************************************************)
EXTENDS Integers

CONSTANTS
  Payments,   \* the calls of initiatePayment
  Wallets     \* wallet identifiers

VARIABLES
  request,    \* the sender wallet and the amount of each payment
  free,       \* the funds of each wallet that no payment has taken
  taken,      \* those that payments have taken
  claim       \* what each payment has done with its funds

vars == <<request, free, taken, claim>>

Init ==
  /\ request \in [Payments -> [wallet : Wallets, amount : Int]]
  /\ free \in [Wallets -> Nat]
  /\ taken = [w \in Wallets |-> 0]
  /\ claim = [p \in Payments |-> "none"]

Move(w, a) ==
  /\ free' = [free EXCEPT ![w] = @ - a]
  /\ taken' = [taken EXCEPT ![w] = @ + a]

Take(p) ==
  LET w == request[p].wallet
      a == request[p].amount
  IN  /\ claim[p] = "none"
      /\ a >= 0 /\ free[w] >= a
      /\ Move(w, a)
      /\ claim' = [claim EXCEPT ![p] = "taken"]
      /\ UNCHANGED request

\* A request with a negative amount puts back what other payments took, as far
\* as they took it.
GiveBack(p) ==
  LET w == request[p].wallet
      a == request[p].amount
  IN  /\ claim[p] = "none"
      /\ a < 0 /\ taken[w] >= -a
      /\ Move(w, a)
      /\ claim' = [claim EXCEPT ![p] = "put_back"]
      /\ UNCHANGED request

Send(p) ==
  /\ claim[p] = "taken"
  /\ claim' = [claim EXCEPT ![p] = "sent"]
  /\ UNCHANGED <<request, free, taken>>

\* A payment that ends before it took anything.  One that ends later keeps
\* what it took.
GiveUp(p) ==
  /\ claim[p] = "none"
  /\ claim' = [claim EXCEPT ![p] = "given_up"]
  /\ UNCHANGED <<request, free, taken>>

Next == \E p \in Payments : Take(p) \/ GiveBack(p) \/ Send(p) \/ GiveUp(p)

Spec == Init /\ [][Next]_vars

=============================================================================
