------------------------------ MODULE Liquidity ------------------------------
(***************************************************************************)
(* The liquidity network: LiquidityGraph, ReservationEngine, ReserveEngine *)
(* and RebalancingEngine over InMemoryEventBus.                            *)
(*                                                                         *)
(* Each engine changes the pools before its first await, so one call is    *)
(* one action; what is asynchronous is the delivery of                     *)
(* ReserveThresholdExceeded, which RebalancingEngine handles later, when   *)
(* pools and policies may have changed.  The other events have no          *)
(* subscriber that changes state.                                          *)
(*                                                                         *)
(* Money is counted in units small enough for ratio times assets to be     *)
(* whole, where JavaScript's numbers are exact.                            *)
(***************************************************************************)
EXTENDS Integers, FiniteSets, Sequences, Totals

CONSTANTS
  Pools,      \* the registered pools
  NoPool,     \* no pool: an unknown identifier, or no parentPoolId
  Parent,     \* parentPoolId of each pool
  Level,      \* the rank of each pool's level: country below regional below global
  Opening,    \* available of each pool when it is registered
  Locked,     \* locked of each pool, which nothing changes
  Calls,      \* the calls of ReservationEngine.reserve
  Amounts,    \* the amounts that are asked for
  Parts,      \* a reserve ratio is a number of parts ...
  Ratios,     \* ... and these are the ratios that policies name
  NoPolicy,   \* no policy has been set
  MaxAlerts   \* bound: events that checkReserves publishes

ASSUME PoolsAssumption ==
  /\ IsFiniteSet(Pools) /\ NoPool \notin Pools
  /\ Opening \in [Pools -> Nat] /\ Locked \in [Pools -> Nat]
ASSUME LevelAssumption ==
  /\ Level \in [Pools -> Nat] /\ Parent \in [Pools -> Pools \cup {NoPool}]
  /\ \A p \in Pools : Parent[p] # NoPool => Level[p] < Level[Parent[p]]
ASSUME CallsAssumption == IsFiniteSet(Calls) /\ Amounts \subseteq Nat
ASSUME RatiosAssumption ==
  Parts \in Nat \ {0} /\ Ratios \subseteq 0 .. Parts /\ NoPolicy \notin Ratios
ASSUME BoundAssumption == MaxAlerts \in Nat

VARIABLES
  available, reserved, committed,   \* the balances of each pool
  minimum,    \* minimumReserveRatio of each pool's policy
  state,      \* state of the reservation of each call
  heldAt,     \* poolId of the reservation of each call
  size,       \* amount of the reservation of each call
  alerts,     \* ReserveThresholdExceeded events that wait for delivery
  published   \* how many were published

money == <<available, reserved, committed>>
reservations == <<state, heldAt, size>>
vars == <<available, reserved, committed, minimum, state, heldAt, size, alerts, published>>

TypeOK ==
  /\ available \in [Pools -> Nat]
  /\ reserved \in [Pools -> Nat]
  /\ committed \in [Pools -> Nat]
  /\ minimum \in [Pools -> Ratios \cup {NoPolicy}]
  /\ state \in [Calls -> {"none", "refused", "reserved", "committed", "rolled_back"}]
  /\ heldAt \in [Calls -> Pools \cup {NoPool}]
  /\ size \in [Calls -> Nat]
  /\ alerts \in Seq([pool : Pools, ratio : Ratios])
  /\ published \in 0 .. MaxAlerts

Init ==
  /\ available = Opening
  /\ reserved = [p \in Pools |-> 0]
  /\ committed = [p \in Pools |-> 0]
  /\ minimum = [p \in Pools |-> NoPolicy]
  /\ state = [r \in Calls |-> "none"]
  /\ heldAt = [r \in Calls |-> NoPool]
  /\ size = [r \in Calls |-> 0]
  /\ alerts = <<>>
  /\ published = 0

-----------------------------------------------------------------------------
Enough(p, a) == available[p] >= a

\* The pool and those that findFallbackPool reaches from it.
Ancestry[p \in Pools] ==
  {p} \cup IF Parent[p] = NoPool THEN {} ELSE Ancestry[Parent[p]]

\* The first pool on the way up that has enough; currencies are not compared.
IsFallback(q, p, a) ==
  /\ q \in Ancestry[p]
  /\ Enough(q, a)
  /\ \A x \in Ancestry[p] : Enough(x, a) => Level[q] <= Level[x]

\* Only a call in emergency_mode leaves the pool it named.
Serves(q, p, a, policy) ==
  /\ p # NoPool
  /\ \/ q = p /\ Enough(p, a)
     \/ policy = "emergency_mode" /\ ~Enough(p, a) /\ IsFallback(q, p, a)

Policies == {"emergency_mode", "highest_availability"}

Take(r, q, a) ==
  /\ available' = [available EXCEPT ![q] = @ - a]
  /\ reserved' = [reserved EXCEPT ![q] = @ + a]
  /\ state' = [state EXCEPT ![r] = "reserved"]
  /\ heldAt' = [heldAt EXCEPT ![r] = q]
  /\ size' = [size EXCEPT ![r] = a]
  /\ UNCHANGED committed

Reserve(r) ==
  /\ state[r] = "none"
  /\ \E p \in Pools \cup {NoPool}, a \in Amounts, policy \in Policies :
       \/ \E q \in Pools : Serves(q, p, a, policy) /\ Take(r, q, a)
       \/ /\ \A q \in Pools : ~Serves(q, p, a, policy)
          /\ state' = [state EXCEPT ![r] = "refused"]
          /\ UNCHANGED <<available, reserved, committed, heldAt, size>>
  /\ UNCHANGED <<minimum, alerts, published>>

KnownReservation(r) == heldAt[r] # NoPool
IsReserved(r) == KnownReservation(r) /\ state[r] = "reserved"

Commit(r) ==
  /\ IsReserved(r)
  /\ reserved' = [reserved EXCEPT ![heldAt[r]] = @ - size[r]]
  /\ committed' = [committed EXCEPT ![heldAt[r]] = @ + size[r]]
  /\ state' = [state EXCEPT ![r] = "committed"]
  /\ UNCHANGED <<available, minimum, heldAt, size, alerts, published>>

Rollback(r) ==
  /\ IsReserved(r)
  /\ reserved' = [reserved EXCEPT ![heldAt[r]] = @ - size[r]]
  /\ available' = [available EXCEPT ![heldAt[r]] = @ + size[r]]
  /\ state' = [state EXCEPT ![r] = "rolled_back"]
  /\ UNCHANGED <<committed, minimum, heldAt, size, alerts, published>>

SetPolicy(p) ==
  /\ \E n \in Ratios : minimum' = [minimum EXCEPT ![p] = n]
  /\ UNCHANGED <<money, reservations, alerts, published>>

Assets(p) == available[p] + reserved[p] + committed[p] + Locked[p]

\* ReserveEngine.checkReserves; checkAllReserves makes these calls one by one.
CheckReserves(p) ==
  /\ published < MaxAlerts
  /\ minimum[p] # NoPolicy
  /\ Assets(p) # 0
  /\ available[p] * Parts < minimum[p] * Assets(p)
  /\ alerts' = Append(alerts, [pool |-> p, ratio |-> minimum[p]])
  /\ published' = published + 1
  /\ UNCHANGED <<money, reservations, minimum>>

WholeTarget(p, n) == (Assets(p) * n) \div Parts
Deficit(p, n) == (Assets(p) * n) \div Parts - available[p]

MoveUnpaid(from, to, a) == available' = [available EXCEPT ![to] = @ + a]
Move(from, to, a) == available' = [available EXCEPT ![from] = @ - a, ![to] = @ + a]

\* The parent can pay what the pool lacks now, not when the event was published.
CanRebalance(p, n) ==
  /\ Parent[p] # NoPool
  /\ Deficit(p, n) > 0
  /\ available[Parent[p]] >= Deficit(p, n)

HandleEmergencyRebalance ==
  /\ alerts # <<>>
  /\ LET p == Head(alerts).pool
         n == Head(alerts).ratio
     IN  \/ CanRebalance(p, n) /\ Move(Parent[p], p, Deficit(p, n))
         \/ ~CanRebalance(p, n) /\ UNCHANGED available
  /\ alerts' = Tail(alerts)
  /\ UNCHANGED <<reserved, committed, reservations, minimum, published>>

Next ==
  \/ \E r \in Calls : Reserve(r) \/ Commit(r) \/ Rollback(r)
  \/ \E p \in Pools : SetPolicy(p) \/ CheckReserves(p)
  \/ HandleEmergencyRebalance

Spec == Init /\ [][Next]_vars

\* The timer that delivers an event fires.
FairSpec == Spec /\ WF_vars(HandleEmergencyRebalance)

-----------------------------------------------------------------------------
HeldIn(s, p) == {r \in Calls : state[r] = s /\ heldAt[r] = p}

\* The reserved and the committed balance of a pool are the sums of the
\* reservations held there in that state, whatever reservations, commits,
\* rollbacks and rebalances ran in between.
PoolAccounting ==
  \A p \in Pools :
    /\ reserved[p] = Total(size, HeldIn("reserved", p))
    /\ committed[p] = Total(size, HeldIn("committed", p))

\* No balance is ever negative, in particular none of a parent that pays for a
\* rebalance or of a pool that serves a fallback, and each is accounted for.
PoolsAreAccounted == TypeOK /\ PoolAccounting

\* A rebalance never takes more from the parent than restores the ratio its
\* event named, even if the event is stale: the pool was refilled by a rollback
\* or by the event before it.
NeverOverfills ==
  [][\A p \in Pools :
       /\ alerts # <<>> /\ alerts' = Tail(alerts)
       /\ p = Head(alerts).pool
       /\ available'[p] > available[p]
       => available'[p] * Parts <= Head(alerts).ratio * Assets(p)']_vars

\* The promise of the network: rebalancing is invisible in it.
Promise == INSTANCE LiquidityPromise WITH pot <- Total(available, Pools)

\* Reservations taken from any pool, and pools refilled from their parents,
\* behave like one pot of money.
KeepsPromise == Promise!Spec

=============================================================================
