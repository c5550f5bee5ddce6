----------------------------- MODULE SerialWallet -----------------------------
(***************************************************************************)
(* What a wallet stored in rows promises: as far as its balances, holds    *)
(* and entries show, calls run one at a time.  Each takes effect in one    *)
(* step, on the balances as they are then, or has no effect at all.        *)
(*                                                                         *)
(* Two of them take two steps.  reserveFunds moves its amount once more in *)
(* a step of its own.  A release first finds its hold open and gives the   *)
(* amount back later, and does not look again: releases that found one     *)
(* hold open before any of them gave it back all give it back.  A release  *)
(* that comes after that finds nothing.                                    *)
(***************************************************************************)
EXTENDS Integers

CONSTANTS
  Calls,      \* calls of the services
  Amounts,    \* amounts a caller asks for
  Funding,    \* the balance before the calls
  Entries,    \* entries that one call records
  None        \* no call

VARIABLES
  wallet,     \* [available, locked]
  effect,     \* what each call has done: [kind, amount]
  open,       \* the holds that have not been given back
  found       \* the hold that each release has found open and works on

vars == <<wallet, effect, open, found>>

Init ==
  /\ wallet = [available |-> Funding, locked |-> 0]
  /\ effect = [c \in Calls |-> [kind |-> "none", amount |-> 0]]
  /\ open = {}
  /\ found = [c \in Calls |-> None]

\* The call has its effect; one that holds may have two.
Takes(c, from, to, amount) ==
  /\ effect[c].kind = from
  /\ effect' = [effect EXCEPT ![c] = [kind |-> to, amount |-> amount]]

Lock(amount) ==
  /\ wallet.available >= amount
  /\ wallet' = [available |-> wallet.available - amount, locked |-> wallet.locked + amount]

Unlock(amount) ==
  /\ wallet.locked >= amount
  /\ wallet' = [available |-> wallet.available + amount, locked |-> wallet.locked - amount]

Hold(c, amount) ==
  /\ amount > 0 /\ Lock(amount) /\ Takes(c, "none", "held", amount)
  /\ open' = open \cup {c}
  /\ UNCHANGED found

HoldAgain(c) ==
  /\ Lock(effect[c].amount) /\ Takes(c, "held", "heldTwice", effect[c].amount)
  /\ UNCHANGED <<open, found>>

FindOpen(c, h) ==
  /\ found[c] = None /\ effect[c].kind = "none" /\ h \in open
  /\ found' = [found EXCEPT ![c] = h]
  /\ UNCHANGED <<wallet, effect, open>>

\* A release that fails between the two.
Abandon(c) ==
  /\ found[c] # None /\ effect[c].kind = "none"
  /\ found' = [found EXCEPT ![c] = None]
  /\ UNCHANGED <<wallet, effect, open>>

\* What is given back is the amount of the hold, and it is not open any more.
GiveBack(c, h) ==
  /\ found[c] = h /\ effect[h].kind \in {"held", "heldTwice"}
  /\ Unlock(effect[h].amount)
  /\ Takes(c, "none", "gaveBack", effect[h].amount)
  /\ open' = open \ {h}
  /\ UNCHANGED found

Record(c) == Takes(c, "none", "recorded", Entries) /\ UNCHANGED <<wallet, open, found>>

Next ==
  \E c \in Calls :
    \/ \E amount \in Amounts : Hold(c, amount)
    \/ HoldAgain(c)
    \/ \E h \in Calls : FindOpen(c, h) \/ GiveBack(c, h)
    \/ Abandon(c)
    \/ Record(c)

Spec == Init /\ [][Next]_vars
=============================================================================
