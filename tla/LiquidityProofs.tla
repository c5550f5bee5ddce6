--------------------------- MODULE LiquidityProofs ---------------------------
(***************************************************************************)
(* Proofs about Liquidity and about SettlementScheduler, which commits its *)
(* reservations, for any finite graph of pools whose parents are of a      *)
(* higher level, any finite set of calls, any amounts and any workers.     *)
(*                                                                         *)
(* The types of Liquidity are not inductive alone: that a commit or a      *)
(* rollback leaves a reserved balance non-negative follows from the        *)
(* accounting of the pools, so the inductive invariant is their            *)
(* conjunction.                                                            *)
(***************************************************************************)
EXTENDS SettlementScheduler, TLAPS

\* A reservation that was made is held at a pool.
HeldSomewhere ==
  \A r \in Calls :
    state[r] \in {"reserved", "committed", "rolled_back"} <=> heldAt[r] \in Pools

Inv == TypeOK /\ PoolAccounting /\ HeldSomewhere

-----------------------------------------------------------------------------
(* The reservations held at a pool are finitely many, with natural amounts. *)
LEMMA HeldInFinite ==
  ASSUME TypeOK, NEW s, NEW p
  PROVE  IsFiniteSet(HeldIn(s, p)) /\ \A r \in HeldIn(s, p) : size[r] \in Nat
BY CallsAssumption, FS_Subset DEF HeldIn, TypeOK

(* The reserved balance of the pool covers each reservation held there. *)
LEMMA ReservedCovers ==
  ASSUME Inv, NEW r \in Calls, IsReserved(r)
  PROVE  /\ heldAt[r] \in Pools
         /\ r \in HeldIn("reserved", heldAt[r])
         /\ size[r] \in Nat
         /\ reserved[heldAt[r]] >= size[r]
<1>1. heldAt[r] \in Pools /\ r \in HeldIn("reserved", heldAt[r]) /\ size[r] \in Nat
  BY DEF Inv, TypeOK, IsReserved, KnownReservation, HeldIn
<1>2. size[r] <= Total(size, HeldIn("reserved", heldAt[r]))
  BY <1>1, HeldInFinite, TotalElement DEF Inv
<1>3. reserved[heldAt[r]] = Total(size, HeldIn("reserved", heldAt[r]))
  BY <1>1 DEF Inv, PoolAccounting
<1>4. reserved[heldAt[r]] \in Nat
  BY <1>1 DEF Inv, TypeOK
<1> QED
  BY <1>1, <1>2, <1>3, <1>4

(* The initial states satisfy the invariant. *)
LEMMA InitInv == Init => Inv
<1> SUFFICES ASSUME Init PROVE Inv
  OBVIOUS
<1> USE DEF Init
<1>1. TypeOK
  BY PoolsAssumption, BoundAssumption DEF TypeOK
<1>2. HeldSomewhere
  BY PoolsAssumption DEF HeldSomewhere
<1>3. PoolAccounting
  <2>1. \A p \in Pools : HeldIn("reserved", p) = {} /\ HeldIn("committed", p) = {}
    BY DEF HeldIn
  <2>2. Total(size, {}) = 0
    BY TotalEmpty
  <2>3. ASSUME NEW p \in Pools
        PROVE  /\ reserved[p] = Total(size, HeldIn("reserved", p))
               /\ committed[p] = Total(size, HeldIn("committed", p))
    BY <2>1, <2>2
  <2> QED
    BY <2>3 DEF PoolAccounting
<1> QED
  BY <1>1, <1>2, <1>3 DEF Inv

-----------------------------------------------------------------------------
(* A reservation joins those held at the pool that served it. *)
LEMMA TakeInv ==
  ASSUME Inv, NEW r \in Calls, state[r] = "none", NEW q \in Pools, NEW a \in Amounts,
         Enough(q, a), Take(r, q, a), UNCHANGED <<minimum, alerts, published>>
  PROVE  Inv'
<1>1. a \in Nat /\ available[q] \in Nat /\ reserved[q] \in Nat /\ available[q] >= a
  BY CallsAssumption DEF Inv, TypeOK, Enough
<1>2. TypeOK'
  <2>1. available' \in [Pools -> Nat] /\ reserved' \in [Pools -> Nat]
    BY <1>1 DEF Inv, TypeOK, Take
  <2> QED
    BY <1>1, <2>1 DEF Inv, TypeOK, Take
<1>3. HeldSomewhere'
  BY DEF Inv, TypeOK, HeldSomewhere, Take
<1>4. PoolAccounting'
  <2>1. \A s, p : r \notin HeldIn(s, p) \/ s = "none"
    BY DEF HeldIn
  <2>2. \A s, p : s # "none" => Total(size', HeldIn(s, p)) = Total(size, HeldIn(s, p))
    <3> SUFFICES ASSUME NEW s, NEW p, s # "none"
                 PROVE  Total(size', HeldIn(s, p)) = Total(size, HeldIn(s, p))
      OBVIOUS
    <3>1. \A x \in HeldIn(s, p) : size'[x] = size[x]
      BY <2>1 DEF Take, HeldIn, Inv, TypeOK
    <3> QED
      BY <3>1, TotalSame
  <2>3. HeldIn("reserved", q)' = HeldIn("reserved", q) \cup {r}
    BY DEF HeldIn, Take, Inv, TypeOK
  <2>4. /\ \A p \in Pools \ {q} : HeldIn("reserved", p)' = HeldIn("reserved", p)
        /\ \A p \in Pools : HeldIn("committed", p)' = HeldIn("committed", p)
    BY DEF HeldIn, Take, Inv, TypeOK
  <2>5. Total(size', HeldIn("reserved", q) \cup {r}) = Total(size', HeldIn("reserved", q)) + a
    <3>1. IsFiniteSet(HeldIn("reserved", q)) /\ r \notin HeldIn("reserved", q)
      BY HeldInFinite, <2>1 DEF Inv
    <3>2. \A x \in HeldIn("reserved", q) \cup {r} : size'[x] \in Nat
      BY <1>2 DEF HeldIn, TypeOK
    <3>3. size'[r] = a
      BY DEF Take, Inv, TypeOK
    <3> QED
      BY <3>1, <3>2, <3>3, TotalAdd
  <2>6. ASSUME NEW p \in Pools
        PROVE  /\ reserved'[p] = Total(size', HeldIn("reserved", p)')
               /\ committed'[p] = Total(size', HeldIn("committed", p)')
    <3>1. /\ reserved[p] = Total(size, HeldIn("reserved", p))
          /\ committed[p] = Total(size, HeldIn("committed", p))
      BY DEF Inv, PoolAccounting
    <3>2. committed'[p] = Total(size', HeldIn("committed", p)')
      BY <2>2, <2>4, <3>1 DEF Take
    <3>3. CASE p = q
      BY <2>2, <2>3, <2>5, <3>1, <3>2, <3>3 DEF Take, Inv, TypeOK
    <3>4. CASE p # q
      BY <2>2, <2>4, <3>1, <3>2, <3>4 DEF Take, Inv, TypeOK
    <3> QED
      BY <3>3, <3>4
  <2> QED
    BY <2>6 DEF PoolAccounting
<1> QED
  BY <1>2, <1>3, <1>4 DEF Inv

(* A step that leaves the reservations and what they reserved alone, and the
   types right, keeps the invariant. *)
LEMMA OtherInv ==
  ASSUME Inv, TypeOK', UNCHANGED <<reserved, committed, heldAt, size>>,
         \A r \in Calls : \/ state'[r] = state[r]
                          \/ state[r] = "none" /\ state'[r] = "refused"
  PROVE  Inv'
<1>1. \A p \in Pools : /\ HeldIn("reserved", p)' = HeldIn("reserved", p)
                       /\ HeldIn("committed", p)' = HeldIn("committed", p)
  BY DEF HeldIn
<1>2. PoolAccounting'
  BY <1>1 DEF Inv, PoolAccounting
<1>3. HeldSomewhere'
  BY DEF Inv, HeldSomewhere
<1> QED
  BY <1>2, <1>3 DEF Inv

(* A commit moves a reservation and its amount from reserved to committed. *)
LEMMA CommitInv ==
  ASSUME Inv, NEW r \in Calls, Commit(r)
  PROVE  Inv'
<1> DEFINE q == heldAt[r]
<1>1. /\ q \in Pools /\ r \in HeldIn("reserved", q)
      /\ size[r] \in Nat /\ reserved[q] >= size[r] /\ IsReserved(r)
  BY ReservedCovers DEF Commit
<1>2. TypeOK'
  <2>1. reserved' \in [Pools -> Nat] /\ committed' \in [Pools -> Nat]
    BY <1>1 DEF Inv, TypeOK, Commit
  <2> QED
    BY <2>1 DEF Inv, TypeOK, Commit
<1>3. HeldSomewhere'
  BY <1>1 DEF Inv, TypeOK, HeldSomewhere, Commit, IsReserved
<1>4. PoolAccounting'
  <2>1. /\ HeldIn("reserved", q)' = HeldIn("reserved", q) \ {r}
        /\ HeldIn("committed", q)' = HeldIn("committed", q) \cup {r}
        /\ r \notin HeldIn("committed", q)
    BY <1>1 DEF HeldIn, Commit, Inv, TypeOK, IsReserved
  <2>2. \A p \in Pools \ {q} : /\ HeldIn("reserved", p)' = HeldIn("reserved", p)
                               /\ HeldIn("committed", p)' = HeldIn("committed", p)
    BY <1>1 DEF HeldIn, Commit, Inv, TypeOK, IsReserved
  <2>3. /\ \A p : IsFiniteSet(HeldIn("reserved", p)) /\ IsFiniteSet(HeldIn("committed", p))
        /\ \A p : \A x \in HeldIn("reserved", p) \cup HeldIn("committed", p) : size[x] \in Nat
    BY HeldInFinite DEF Inv
  <2>4. Total(size, HeldIn("reserved", q) \ {r}) = Total(size, HeldIn("reserved", q)) - size[r]
    BY <1>1, <2>3, TotalRemove
  <2>5. Total(size, HeldIn("committed", q) \cup {r}) = Total(size, HeldIn("committed", q)) + size[r]
    <3>1. \A x \in HeldIn("committed", q) \cup {r} : size[x] \in Nat
      BY <1>1, <2>3
    <3> QED
      BY <2>1, <2>3, <3>1, TotalAdd
  <2>6. ASSUME NEW p \in Pools
        PROVE  /\ reserved'[p] = Total(size', HeldIn("reserved", p)')
               /\ committed'[p] = Total(size', HeldIn("committed", p)')
    <3>1. /\ reserved[p] = Total(size, HeldIn("reserved", p))
          /\ committed[p] = Total(size, HeldIn("committed", p))
      BY DEF Inv, PoolAccounting
    <3>2. size' = size
      BY DEF Commit
    <3>3. CASE p = q
      <4>1. HeldIn("reserved", p)' = HeldIn("reserved", q) \ {r}
        BY <1>1, <3>3 DEF HeldIn, Commit, Inv, TypeOK, IsReserved
      <4>2. HeldIn("committed", p)' = HeldIn("committed", q) \cup {r}
        BY <1>1, <3>3 DEF HeldIn, Commit, Inv, TypeOK, IsReserved
      <4>3. reserved'[p] = reserved[q] - size[r] /\ committed'[p] = committed[q] + size[r]
        BY <1>1, <3>3 DEF Commit, Inv, TypeOK
      <4>4. Total(size, HeldIn("reserved", p)') = reserved[q] - size[r]
        BY <2>4, <3>1, <3>3, <4>1
      <4>5. Total(size, HeldIn("committed", p)') = committed[q] + size[r]
        BY <2>5, <3>1, <3>3, <4>2
      <4> QED
        BY <3>2, <4>3, <4>4, <4>5
    <3>4. CASE p # q
      BY <2>2, <3>1, <3>2, <3>4 DEF Commit, Inv, TypeOK
    <3> QED
      BY <3>3, <3>4
  <2> QED
    BY <2>6 DEF PoolAccounting
<1> QED
  BY <1>2, <1>3, <1>4 DEF Inv

(* A rollback takes a reservation and its amount out of reserved. *)
LEMMA RollbackInv ==
  ASSUME Inv, NEW r \in Calls, Rollback(r)
  PROVE  Inv'
<1> DEFINE q == heldAt[r]
<1>1. /\ q \in Pools /\ r \in HeldIn("reserved", q)
      /\ size[r] \in Nat /\ reserved[q] >= size[r] /\ IsReserved(r)
  BY ReservedCovers DEF Rollback
<1>2. TypeOK'
  <2>1. reserved' \in [Pools -> Nat] /\ available' \in [Pools -> Nat]
    BY <1>1 DEF Inv, TypeOK, Rollback
  <2> QED
    BY <2>1 DEF Inv, TypeOK, Rollback
<1>3. HeldSomewhere'
  BY <1>1 DEF Inv, TypeOK, HeldSomewhere, Rollback, IsReserved
<1>4. PoolAccounting'
  <2>1. IsFiniteSet(HeldIn("reserved", q)) /\ \A x \in HeldIn("reserved", q) : size[x] \in Nat
    BY HeldInFinite DEF Inv
  <2>2. Total(size, HeldIn("reserved", q) \ {r}) = Total(size, HeldIn("reserved", q)) - size[r]
    BY <1>1, <2>1, TotalRemove
  <2>3. ASSUME NEW p \in Pools
        PROVE  /\ reserved'[p] = Total(size', HeldIn("reserved", p)')
               /\ committed'[p] = Total(size', HeldIn("committed", p)')
    <3>1. /\ reserved[p] = Total(size, HeldIn("reserved", p))
          /\ committed[p] = Total(size, HeldIn("committed", p))
      BY DEF Inv, PoolAccounting
    <3>2. size' = size /\ committed' = committed
      BY DEF Rollback
    <3>3. HeldIn("committed", p)' = HeldIn("committed", p)
      BY <1>1 DEF HeldIn, Rollback, Inv, TypeOK, IsReserved
    <3>4. CASE p = q
      <4>1. HeldIn("reserved", p)' = HeldIn("reserved", q) \ {r}
        BY <1>1, <3>4 DEF HeldIn, Rollback, Inv, TypeOK, IsReserved
      <4>2. reserved'[p] = reserved[q] - size[r]
        BY <1>1, <3>4 DEF Rollback, Inv, TypeOK
      <4>3. Total(size, HeldIn("reserved", p)') = reserved[q] - size[r]
        BY <2>2, <3>1, <3>4, <4>1
      <4> QED
        BY <3>1, <3>2, <3>3, <4>2, <4>3
    <3>5. CASE p # q
      <4>1. HeldIn("reserved", p)' = HeldIn("reserved", p)
        BY <1>1, <3>5 DEF HeldIn, Rollback, Inv, TypeOK, IsReserved
      <4> QED
        BY <3>1, <3>2, <3>3, <3>5, <4>1 DEF Rollback, Inv, TypeOK
    <3> QED
      BY <3>4, <3>5
  <2> QED
    BY <2>3 DEF PoolAccounting
<1> QED
  BY <1>2, <1>3, <1>4 DEF Inv

-----------------------------------------------------------------------------
(* A rebalance moves what the parent has, to a different pool. *)
LEMMA RebalanceMoves ==
  ASSUME TypeOK, NEW p \in Pools, NEW n \in Ratios, CanRebalance(p, n)
  PROVE  /\ Parent[p] \in Pools /\ Parent[p] # p
         /\ Assets(p) \in Nat /\ Deficit(p, n) \in Nat
         /\ available[Parent[p]] >= Deficit(p, n)
<1>1. Parent[p] \in Pools /\ Parent[p] # p
  BY LevelAssumption DEF CanRebalance
<1>2. Assets(p) \in Nat /\ available[p] \in Nat
  BY PoolsAssumption DEF Assets, TypeOK
<1>3. n \in Nat /\ Parts \in Nat \ {0}
  BY RatiosAssumption
<1>4. Assets(p) * n \in Nat
  BY <1>2, <1>3
<1>5. Deficit(p, n) \in Nat
  BY <1>2, <1>3, <1>4 DEF Deficit, CanRebalance
<1> QED
  BY <1>1, <1>2, <1>5 DEF CanRebalance

(* What Head and Tail of a queue that is not empty are. *)
LEMMA HeadTail ==
  ASSUME NEW S, NEW q \in Seq(S), q # <<>>
  PROVE  Head(q) \in S /\ Tail(q) \in Seq(S) /\ Tail(q) # q
OBVIOUS

(* Handling an alert preserves the types: no parent pays what it lacks. *)
LEMMA RebalanceType ==
  ASSUME TypeOK, HandleEmergencyRebalance
  PROVE  TypeOK'
<1> DEFINE p == Head(alerts).pool
           n == Head(alerts).ratio
<1>1. alerts # <<>> /\ alerts \in Seq([pool : Pools, ratio : Ratios])
  BY DEF HandleEmergencyRebalance, TypeOK
<1>2. p \in Pools /\ n \in Ratios /\ Tail(alerts) \in Seq([pool : Pools, ratio : Ratios])
  <2>1. Head(alerts) \in [pool : Pools, ratio : Ratios]
    BY <1>1, HeadTail
  <2> QED
    BY <1>1, <2>1, HeadTail
<1>3. available' \in [Pools -> Nat]
  <2>1. CASE CanRebalance(p, n)
    <3>1. Move(Parent[p], p, Deficit(p, n))
      BY <2>1 DEF HandleEmergencyRebalance
    <3>2. /\ Parent[p] \in Pools /\ Parent[p] # p
          /\ Deficit(p, n) \in Nat /\ available[Parent[p]] >= Deficit(p, n)
      BY <1>2, <2>1, RebalanceMoves
    <3> DEFINE from == Parent[p]
               d == Deficit(p, n)
    <3>3. available' = [available EXCEPT ![from] = @ - d, ![p] = @ + d]
      BY <3>1 DEF Move
    <3>4. from \in Pools /\ p \in Pools /\ from # p /\ d \in Nat /\ available[from] >= d
      BY <1>2, <3>2
    <3>5. available \in [Pools -> Nat]
      BY DEF TypeOK
    <3> HIDE DEF p, n, from, d
    <3>6. available[from] - d \in Nat /\ available[p] + d \in Nat
      BY <3>4, <3>5
    <3> QED
      BY <3>3, <3>4, <3>5, <3>6
  <2>2. CASE ~CanRebalance(p, n)
    BY <2>2 DEF HandleEmergencyRebalance, TypeOK
  <2> QED
    BY <2>1, <2>2
<1> QED
  BY <1>2, <1>3 DEF HandleEmergencyRebalance, TypeOK, money, reservations

(* Every step preserves the invariant. *)
LEMMA InvStep == Inv /\ [Next]_vars => Inv'
<1> SUFFICES ASSUME Inv, [Next]_vars PROVE Inv'
  OBVIOUS
<1>1. ASSUME NEW r \in Calls, Reserve(r) PROVE Inv'
  <2>1. PICK p \in Pools \cup {NoPool}, a \in Amounts, policy \in Policies :
          \/ \E q \in Pools : Serves(q, p, a, policy) /\ Take(r, q, a)
          \/ /\ state' = [state EXCEPT ![r] = "refused"]
             /\ UNCHANGED <<available, reserved, committed, heldAt, size>>
    BY <1>1 DEF Reserve
  <2>2. state[r] = "none" /\ UNCHANGED <<minimum, alerts, published>>
    BY <1>1 DEF Reserve
  <2>3. ASSUME NEW q \in Pools, Serves(q, p, a, policy), Take(r, q, a) PROVE Inv'
    <3>1. Enough(q, a)
      BY <2>3 DEF Serves, IsFallback
    <3> QED
      BY <2>2, <2>3, <3>1, TakeInv
  <2>4. CASE /\ state' = [state EXCEPT ![r] = "refused"]
             /\ UNCHANGED <<available, reserved, committed, heldAt, size>>
    <3>1. TypeOK'
      BY <2>2, <2>4 DEF Inv, TypeOK
    <3> QED
      BY <2>2, <2>4, <3>1, OtherInv DEF Inv, TypeOK
  <2> QED
    BY <2>1, <2>3, <2>4
<1>2. ASSUME NEW r \in Calls, Commit(r) PROVE Inv'
  BY <1>2, CommitInv
<1>3. ASSUME NEW r \in Calls, Rollback(r) PROVE Inv'
  BY <1>3, RollbackInv
<1>4. ASSUME NEW p \in Pools, SetPolicy(p) PROVE Inv'
  <2>1. TypeOK'
    BY <1>4 DEF SetPolicy, Inv, TypeOK, money, reservations
  <2> QED
    BY <1>4, <2>1, OtherInv DEF SetPolicy, money, reservations
<1>5. ASSUME NEW p \in Pools, CheckReserves(p) PROVE Inv'
  <2>1. minimum[p] \in Ratios /\ published + 1 \in 0 .. MaxAlerts
    BY <1>5, BoundAssumption DEF CheckReserves, Inv, TypeOK
  <2>2. alerts' \in Seq([pool : Pools, ratio : Ratios])
    <3>1. [pool |-> p, ratio |-> minimum[p]] \in [pool : Pools, ratio : Ratios]
      BY <2>1
    <3> QED
      BY <1>5, <3>1 DEF CheckReserves, Inv, TypeOK
  <2>3. TypeOK'
    BY <1>5, <2>1, <2>2 DEF CheckReserves, Inv, TypeOK, money, reservations
  <2> QED
    BY <1>5, <2>3, OtherInv DEF CheckReserves, money, reservations
<1>6. CASE HandleEmergencyRebalance
  <2>1. TypeOK'
    BY <1>6, RebalanceType DEF Inv
  <2> QED
    BY <1>6, <2>1, OtherInv DEF HandleEmergencyRebalance, reservations
<1>7. CASE UNCHANGED vars
  <2>1. TypeOK'
    BY <1>7 DEF vars, Inv, TypeOK
  <2> QED
    BY <1>7, <2>1, OtherInv DEF vars
<1> QED
  BY <1>1, <1>2, <1>3, <1>4, <1>5, <1>6, <1>7 DEF Next

(* The invariant holds in every state. *)
THEOREM Invariance == Spec => []Inv
<1> QED
  BY InitInv, InvStep, PTL DEF Spec

(* Type correctness: no pool ever has a negative balance, in particular no
   parent that pays for a rebalance and no pool that serves a fallback. *)
THEOREM TypeCorrect == Spec => []TypeOK
<1>1. Inv => TypeOK
  BY DEF Inv
<1> QED
  BY <1>1, Invariance, PTL

(* No balance is negative, and the reserved and committed ones are the sums
   of the reservations. *)
THEOREM AccountingHolds == Spec => []PoolsAreAccounted
<1>1. Inv => PoolsAreAccounted
  BY DEF Inv, PoolsAreAccounted
<1> QED
  BY <1>1, Invariance, PTL

-----------------------------------------------------------------------------
(* The quotient of a division, times the divisor, is at most the dividend. *)
LEMMA QuotientBound ==
  ASSUME NEW x \in Nat, NEW d \in Nat \ {0}
  PROVE  (x \div d) \in Nat /\ (x \div d) * d <= x
OBVIOUS

(* A rebalance moves at most what restores the ratio of its event: it computes
   the deficit from the balances of the moment it runs. *)
THEOREM RebalanceNeverOverfills == Spec => NeverOverfills
<1>1. TypeOK /\ [Next]_vars =>
        [\A p \in Pools :
           /\ alerts # <<>> /\ alerts' = Tail(alerts)
           /\ p = Head(alerts).pool
           /\ available'[p] > available[p]
           => available'[p] * Parts <= Head(alerts).ratio * Assets(p)']_vars
  <2> SUFFICES ASSUME TypeOK, Next, NEW p \in Pools,
                      alerts # <<>>, alerts' = Tail(alerts),
                      p = Head(alerts).pool, available'[p] > available[p]
               PROVE  available'[p] * Parts <= Head(alerts).ratio * Assets(p)'
    BY DEF vars
  <2> DEFINE n == Head(alerts).ratio
             d == Deficit(p, n)
  <2>1. alerts \in Seq([pool : Pools, ratio : Ratios]) /\ available[p] \in Nat
    BY DEF TypeOK
  <2>2. Tail(alerts) # alerts /\ n \in Ratios
    <3>1. Head(alerts) \in [pool : Pools, ratio : Ratios] /\ Tail(alerts) # alerts
      BY <2>1, HeadTail
    <3> QED
      BY <3>1
  <2>3. HandleEmergencyRebalance
    <3>1. ASSUME NEW r \in Calls, Reserve(r) \/ Commit(r) \/ Rollback(r) PROVE FALSE
      BY <2>2, <3>1 DEF Reserve, Commit, Rollback
    <3>2. ASSUME NEW q \in Pools, SetPolicy(q) \/ CheckReserves(q) PROVE FALSE
      BY <3>2, <2>1 DEF SetPolicy, CheckReserves, money
    <3> QED
      BY <3>1, <3>2 DEF Next
  <2>4. CanRebalance(p, n) /\ Move(Parent[p], p, d)
    BY <2>1, <2>3 DEF HandleEmergencyRebalance
  <2>5. /\ Parent[p] \in Pools /\ Parent[p] # p
        /\ Assets(p) \in Nat /\ d \in Nat
    BY <2>2, <2>4, RebalanceMoves
  <2>6. available' = [available EXCEPT ![Parent[p]] = @ - d, ![p] = @ + d]
        /\ reserved' = reserved /\ committed' = committed
    BY <2>3, <2>4 DEF Move, HandleEmergencyRebalance
  <2>7. available'[p] = available[p] + d /\ Assets(p)' = Assets(p) + d
    <3>1. /\ available[p] \in Nat /\ reserved[p] \in Nat /\ committed[p] \in Nat
          /\ Locked[p] \in Nat
      BY PoolsAssumption DEF TypeOK
    <3>2. available'[p] = available[p] + d
      BY <2>5, <2>6 DEF TypeOK
    <3>3. /\ Assets(p) = available[p] + reserved[p] + committed[p] + Locked[p]
          /\ Assets(p)' = available'[p] + reserved[p] + committed[p] + Locked[p]
      BY <2>6 DEF Assets
    <3> HIDE DEF d
    <3>4. d \in Nat
      BY <2>5
    <3> QED
      BY <3>1, <3>2, <3>3, <3>4
  <2>8. n \in Nat /\ Parts \in Nat \ {0}
    <3> HIDE DEF n
    <3> QED
      BY <2>2, RatiosAssumption
  <2>9. Assets(p) * n \in Nat /\ Assets(p) * n <= (Assets(p) + d) * n
    <3>1. d * n \in Nat /\ Assets(p) * n \in Nat
      BY <2>5, <2>8
    <3>2. (Assets(p) + d) * n = Assets(p) * n + d * n
      BY <2>5, <2>8
    <3> QED
      BY <3>1, <3>2
  <2>10. available[p] + d = (Assets(p) * n) \div Parts
    <3>1. (Assets(p) * n) \div Parts \in Nat
      BY <2>8, <2>9, QuotientBound
    <3> QED
      BY <2>1, <3>1 DEF Deficit
  <2>11. ((Assets(p) * n) \div Parts) * Parts <= Assets(p) * n
    BY <2>8, <2>9, QuotientBound
  <2>12. available'[p] * Parts <= (Assets(p) + d) * n
    <3>1. /\ ((Assets(p) * n) \div Parts) * Parts \in Nat
          /\ (Assets(p) + d) * n \in Nat
      <4>1. (Assets(p) * n) \div Parts \in Nat
        BY <2>8, <2>9, QuotientBound
      <4> QED
        BY <2>5, <2>8, <4>1
    <3> QED
      BY <2>7, <2>9, <2>10, <2>11, <3>1
  <2>13. (Assets(p) + d) * n = n * (Assets(p) + d)
    BY <2>5, <2>8
  <2> QED
    BY <2>7, <2>12, <2>13
<1> QED
  BY <1>1, TypeCorrect, PTL DEF Spec, NeverOverfills

-----------------------------------------------------------------------------
\* The money available in the network.
potted == Total(available, Pools)

(* The pot is a number, and it covers what any pool has. *)
LEMMA PotCovers ==
  ASSUME TypeOK
  PROVE  potted \in Nat /\ \A p \in Pools : available[p] <= potted
BY PoolsAssumption, TotalType, TotalElement DEF potted, TypeOK

(* Changing the available balance of one pool changes the pot as much. *)
LEMMA PotUpdate ==
  ASSUME TypeOK, NEW p \in Pools, \A y \in Pools : available'[y] \in Nat,
         \A y \in Pools \ {p} : available'[y] = available[y]
  PROVE  potted' = potted - available[p] + available'[p]
<1>1. \A y \in Pools : available[y] \in Nat
  BY DEF TypeOK
<1>2. Total(available', Pools) = Total(available, Pools) - available[p] + available'[p]
  BY <1>1, PoolsAssumption, TotalUpdate
<1> QED
  BY <1>2 DEF potted

(* A rebalance leaves the pot as it is. *)
LEMMA PotMove ==
  ASSUME TypeOK, NEW p \in Pools, NEW q \in Pools, p # q, NEW d \in Nat,
         available[q] >= d, Move(q, p, d)
  PROVE  potted' = potted
<1> DEFINE paid == [available EXCEPT ![q] = available[q] - d]
<1>1. \A y \in Pools : available[y] \in Nat /\ available'[y] \in Nat /\ paid[y] \in Nat
  BY DEF TypeOK, Move
<1>2. /\ \A y \in Pools \ {q} : paid[y] = available[y]
      /\ \A y \in Pools \ {p} : available'[y] = paid[y]
      /\ paid[q] = available[q] - d /\ available'[p] = paid[p] + d
  BY DEF TypeOK, Move
<1> HIDE DEF paid
<1>3. Total(paid, Pools) = Total(available, Pools) - available[q] + paid[q]
  BY <1>1, <1>2, PoolsAssumption, TotalUpdate
<1>4. Total(available', Pools) = Total(paid, Pools) - paid[p] + available'[p]
  BY <1>1, <1>2, PoolsAssumption, TotalUpdate
<1>5. Total(available, Pools) \in Nat /\ Total(paid, Pools) \in Nat
  BY <1>1, PoolsAssumption, TotalType
<1>6. Total(available', Pools) = Total(available, Pools)
  BY <1>1, <1>2, <1>3, <1>4, <1>5
<1> QED
  BY <1>6 DEF potted

(* The initial states are initial states of the promise. *)
LEMMA PromiseInit == Init => Promise!Init
<1> SUFFICES ASSUME Init PROVE Promise!Init
  OBVIOUS
<1>1. TypeOK
  BY InitInv DEF Inv
<1> QED
  BY <1>1, PotCovers DEF Promise!Init, Init, potted

(* A reservation takes what it holds from the pot. *)
LEMMA PromiseHold ==
  ASSUME Inv, NEW r \in Calls, state[r] = "none", NEW q \in Pools, NEW a \in Amounts,
         Enough(q, a), Take(r, q, a)
  PROVE  Promise!Hold(r)
<1>1. a \in Nat /\ available[q] \in Nat /\ available[q] - a \in Nat
  BY CallsAssumption DEF Inv, TypeOK, Enough
<1>2. potted \in Nat /\ available[q] <= potted
  BY PotCovers DEF Inv
<1>3. /\ \A y \in Pools : available'[y] \in Nat
      /\ \A y \in Pools \ {q} : available'[y] = available[y]
      /\ available'[q] = available[q] - a
  BY <1>1 DEF Take, Inv, TypeOK
<1>4. potted' = potted - available[q] + available'[q]
  BY <1>3, PotUpdate DEF Inv
<1>5. potted' = potted - a /\ a \in 0 .. potted
  <2> HIDE DEF potted
  <2> QED
    BY <1>1, <1>2, <1>3, <1>4
<1>6. Total(available, Pools)' = Total(available, Pools) - a /\ a \in 0 .. Total(available, Pools)
  BY <1>5 DEF potted
<1> QED
  BY <1>6 DEF Promise!Hold, Take

(* A rollback returns what its reservation held to the pot. *)
LEMMA PromiseGiveBack ==
  ASSUME Inv, NEW r \in Calls, Rollback(r)
  PROVE  Promise!GiveBack(r)
<1> DEFINE q == heldAt[r]
<1>1. q \in Pools /\ size[r] \in Nat /\ available[q] \in Nat
  BY ReservedCovers DEF Rollback, Inv, TypeOK
<1>2. /\ \A y \in Pools : available'[y] \in Nat
      /\ \A y \in Pools \ {q} : available'[y] = available[y]
      /\ available'[q] = available[q] + size[r]
  BY <1>1 DEF Rollback, Inv, TypeOK
<1>3. potted' = potted - available[q] + available'[q]
  BY <1>1, <1>2, PotUpdate DEF Inv
<1>4. potted \in Nat
  BY PotCovers DEF Inv
<1>5. potted' = potted + size[r]
  <2> HIDE DEF potted, q
  <2> QED
    BY <1>1, <1>2, <1>3, <1>4
<1>6. Total(available, Pools)' = Total(available, Pools) + size[r]
  BY <1>5 DEF potted
<1> QED
  BY <1>6 DEF Promise!GiveBack, Rollback, IsReserved

(* Every step of the network is a step of the promise or leaves it as it is. *)
LEMMA PromiseStep == Inv /\ [Next]_vars => [Promise!Next]_(Promise!vars)
<1> SUFFICES ASSUME Inv, [Next]_vars PROVE [Promise!Next]_(Promise!vars)
  OBVIOUS
<1>1. ASSUME NEW r \in Calls, Reserve(r) PROVE Promise!Hold(r) \/ Promise!Refuse(r)
  <2>1. state[r] = "none"
    BY <1>1 DEF Reserve
  <2>2. ASSUME NEW q \in Pools, NEW p \in Pools \cup {NoPool}, NEW a \in Amounts,
               NEW policy \in Policies, Serves(q, p, a, policy), Take(r, q, a)
        PROVE  Promise!Hold(r)
    <3>1. Enough(q, a)
      BY <2>2 DEF Serves, IsFallback
    <3> QED
      BY <2>1, <2>2, <3>1, PromiseHold
  <2>3. CASE /\ state' = [state EXCEPT ![r] = "refused"]
             /\ UNCHANGED <<available, reserved, committed, heldAt, size>>
    BY <2>1, <2>3 DEF Promise!Refuse
  <2> QED
    BY <1>1, <2>2, <2>3 DEF Reserve
<1>2. ASSUME NEW r \in Calls, Commit(r) PROVE Promise!Spend(r)
  BY <1>2 DEF Commit, IsReserved, Promise!Spend
<1>3. ASSUME NEW r \in Calls, Rollback(r) PROVE Promise!GiveBack(r)
  BY <1>3, PromiseGiveBack
<1>4. ASSUME NEW p \in Pools, SetPolicy(p) \/ CheckReserves(p) PROVE UNCHANGED Promise!vars
  BY <1>4 DEF SetPolicy, CheckReserves, money, reservations, Promise!vars
<1>5. ASSUME HandleEmergencyRebalance PROVE UNCHANGED Promise!vars
  <2> DEFINE p == Head(alerts).pool
             n == Head(alerts).ratio
             d == Deficit(p, n)
  <2>1. UNCHANGED <<size, state>>
    BY <1>5 DEF HandleEmergencyRebalance, reservations
  <2>2. CASE CanRebalance(p, n)
    <3>1. p \in Pools /\ n \in Ratios
      <4>1. alerts # <<>> /\ alerts \in Seq([pool : Pools, ratio : Ratios])
        BY <1>5 DEF HandleEmergencyRebalance, Inv, TypeOK
      <4>2. Head(alerts) \in [pool : Pools, ratio : Ratios]
        BY <4>1, HeadTail
      <4> QED
        BY <4>2
    <3>2. Parent[p] \in Pools /\ Parent[p] # p /\ d \in Nat /\ available[Parent[p]] >= d
      BY <2>2, <3>1, RebalanceMoves DEF Inv
    <3>3. Move(Parent[p], p, d)
      BY <1>5, <2>2 DEF HandleEmergencyRebalance
    <3> HIDE DEF p, d
    <3>4. potted' = potted
      BY <3>1, <3>2, <3>3, PotMove DEF Inv
    <3> QED
      BY <2>1, <3>4 DEF potted, Promise!vars
  <2>3. CASE ~CanRebalance(p, n)
    BY <1>5, <2>1, <2>3 DEF HandleEmergencyRebalance, Promise!vars
  <2> QED
    BY <2>2, <2>3
<1>6. CASE UNCHANGED vars
  BY <1>6 DEF vars, Promise!vars
<1> QED
  BY <1>1, <1>2, <1>3, <1>4, <1>5, <1>6 DEF Next, Promise!Next

(* The network of pools implements the promise of a single pot. *)
THEOREM Refinement == Spec => KeepsPromise
<1> QED
  BY PromiseInit, PromiseStep, Invariance, PTL DEF Spec, KeepsPromise, Promise!Spec

-----------------------------------------------------------------------------
(***************************************************************************)
(* The settlement scheduler.  What its workers do to the queue is stated   *)
(* for the workers in busy only: between the end of one task of a batch    *)
(* and the start of the next a worker is on none.                          *)
(***************************************************************************)

\* The call has made a reservation, whatever became of it.
Made(r) == state[r] \in {"reserved", "committed", "rolled_back"}

TasksKnown(tasks) ==
  \A i \in DOMAIN tasks :
    /\ tasks[i].reservation # NoReservation => Made(tasks[i].reservation)
    /\ tasks[i].status = "completed" =>
         tasks[i].reservation # NoReservation /\ state[tasks[i].reservation] = "committed"
    /\ tasks[i].status = "failed" => ~Commits(tasks[i].reservation)

TasksOwned(tasks, busy) ==
  \A i \in DOMAIN tasks :
    tasks[i].status = "processing" => \E w \in busy : Current(w, i)

TasksSettledOnce(tasks) ==
  \A i, j \in DOMAIN tasks :
    /\ tasks[i].status = "completed" /\ tasks[j].status = "completed"
    /\ tasks[j].reservation = tasks[i].reservation
    => i = j

\* The reservation of the task a worker is on.
Works(tasks, w) == tasks[Head(todo[w])].reservation

\* What a worker has committed is committed, by this worker alone and for no
\* completed task; what it failed to commit cannot be committed.
WorkersOK(tasks, busy) ==
  \A w \in busy :
    /\ phase[w] = "failing" => ~Commits(Works(tasks, w))
    /\ phase[w] = "committing" =>
         /\ Works(tasks, w) # NoReservation /\ state[Works(tasks, w)] = "committed"
         /\ \A v \in busy : phase[v] = "committing" /\ Works(tasks, v) = Works(tasks, w) => v = w
         /\ \A j \in DOMAIN tasks :
              tasks[j].status = "completed" => tasks[j].reservation # Works(tasks, w)

TasksOK(tasks, busy) ==
  /\ tasks \in Seq(Task) /\ DOMAIN tasks = DOMAIN queue
  /\ TasksKnown(tasks)
  /\ TasksOwned(tasks, busy)
  /\ TasksSettledOnce(tasks)
  /\ WorkersOK(tasks, busy)

SchedulerInv == Inv /\ SchedulerTypeOK /\ TasksOK(queue, Workers)

(* A sequence over a set is one over a larger set. *)
LEMMA SeqWiden ==
  ASSUME NEW S, NEW T, S \subseteq T, NEW q \in Seq(S)
  PROVE  q \in Seq(T)
OBVIOUS

(* A call whose reservation is made can be committed while it is reserved. *)
LEMMA CommitsIff ==
  ASSUME Inv, NEW r \in Calls
  PROVE  /\ r # NoReservation
         /\ Commits(r) <=> state[r] = "reserved"
BY WorkersAssumption, PoolsAssumption
   DEF Inv, TypeOK, HeldSomewhere, Commits, IsReserved, KnownReservation

\* What a step may do to the reservations that are made.
MadeStays ==
  \A r \in Calls : Made(r) => /\ Made(r)'
                              /\ state'[r] = "reserved" => state[r] = "reserved"
                              /\ state[r] = "committed" => state'[r] = "committed"

(* No step of the network unmakes a reservation or revives one. *)
LEMMA NextKeepsMade == Inv /\ [Next]_vars => MadeStays
<1> SUFFICES ASSUME Inv, [Next]_vars, NEW r \in Calls, Made(r)
             PROVE  /\ Made(r)'
                    /\ state'[r] = "reserved" => state[r] = "reserved"
                    /\ state[r] = "committed" => state'[r] = "committed"
  BY DEF MadeStays
<1>0. state \in [Calls -> {"none", "refused", "reserved", "committed", "rolled_back"}]
  BY DEF Inv, TypeOK
<1>1. ASSUME NEW x \in Calls, Reserve(x) PROVE state'[r] = state[r]
  BY <1>0, <1>1 DEF Reserve, Take, Made
<1>2. ASSUME NEW x \in Calls, Commit(x)
      PROVE  state'[r] = state[r] \/ (state[r] = "reserved" /\ state'[r] = "committed")
  <2>1. state' = [state EXCEPT ![x] = "committed"] /\ state[x] = "reserved"
    BY <1>2 DEF Commit, IsReserved
  <2> QED
    BY <1>0, <2>1
<1>3. ASSUME NEW x \in Calls, Rollback(x)
      PROVE  state'[r] = state[r] \/ (state[r] = "reserved" /\ state'[r] = "rolled_back")
  <2>1. state' = [state EXCEPT ![x] = "rolled_back"] /\ state[x] = "reserved"
    BY <1>3 DEF Rollback, IsReserved
  <2> QED
    BY <1>0, <2>1
<1>4. ASSUME NEW p \in Pools, SetPolicy(p) \/ CheckReserves(p) PROVE state'[r] = state[r]
  BY <1>4 DEF SetPolicy, CheckReserves, reservations
<1>5. ASSUME HandleEmergencyRebalance \/ UNCHANGED vars PROVE state'[r] = state[r]
  BY <1>5 DEF HandleEmergencyRebalance, reservations, vars
<1> QED
  BY <1>1, <1>2, <1>3, <1>4, <1>5 DEF Next, Made

(* The tasks stay what they are when only the network moves. *)
LEMMA NetworkKeepsTasks ==
  ASSUME SchedulerInv, Next, UNCHANGED scheduler
  PROVE  SchedulerInv'
<1>1. Inv' /\ MadeStays
  BY InvStep, NextKeepsMade DEF SchedulerInv
<1>2. UNCHANGED <<queue, todo, phase>>
  BY DEF scheduler
<1>3. SchedulerTypeOK'
  BY <1>2 DEF SchedulerInv, SchedulerTypeOK
<1>4. ASSUME NEW i \in DOMAIN queue
      PROVE  queue[i] \in Task /\ queue[i].reservation \in Calls \cup {NoReservation}
  <2>1. queue[i] \in Task
    BY DEF SchedulerInv, SchedulerTypeOK
  <2> QED
    BY <2>1 DEF Task
<1>5. ASSUME NEW r \in Calls \cup {NoReservation}, r # NoReservation => Made(r), ~Commits(r)
      PROVE  ~Commits(r)'
  <2>1. CASE r = NoReservation
    BY <2>1 DEF Commits
  <2>2. CASE r \in Calls /\ r # NoReservation
    <3>1. Made(r) /\ state[r] # "reserved"
      BY <1>5, <2>2, CommitsIff DEF SchedulerInv
    <3>2. state'[r] # "reserved"
      BY <1>1, <2>2, <3>1 DEF MadeStays
    <3> QED
      BY <3>2 DEF Commits, IsReserved
  <2> QED
    BY <2>1, <2>2
<1>6. TasksKnown(queue)'
  BY <1>1, <1>2, <1>4, <1>5 DEF SchedulerInv, TasksOK, TasksKnown, MadeStays, Made
<1>7. TasksOwned(queue, Workers)' /\ TasksSettledOnce(queue)'
  BY <1>2 DEF SchedulerInv, TasksOK, TasksOwned, TasksSettledOnce, Current
<1>8. WorkersOK(queue, Workers)'
  <2> SUFFICES ASSUME NEW w \in Workers
               PROVE  /\ phase[w] = "failing" => ~Commits(Works(queue, w))'
                      /\ phase[w] = "committing" => state'[Works(queue, w)] = "committed"
    BY <1>2 DEF SchedulerInv, TasksOK, WorkersOK, Works
  <2>1. CASE phase[w] \in {"failing", "committing"}
    <3>1. Head(todo[w]) \in DOMAIN queue
      BY <2>1, HeadTail DEF SchedulerInv, SchedulerTypeOK
    <3>2. Works(queue, w) \in Calls \cup {NoReservation}
          /\ (Works(queue, w) # NoReservation => Made(Works(queue, w)))
      BY <3>1, <1>4 DEF Works, SchedulerInv, TasksOK, TasksKnown
    <3>3. phase[w] = "failing" => ~Commits(Works(queue, w))'
      BY <1>2, <1>5, <3>2 DEF SchedulerInv, TasksOK, WorkersOK, Works
    <3>4. phase[w] = "committing" => state'[Works(queue, w)] = "committed"
      BY <1>1, <3>2 DEF SchedulerInv, TasksOK, WorkersOK, MadeStays
    <3> QED
      BY <3>3, <3>4
  <2> QED
    BY <2>1
<1>9. queue' \in Seq(Task) /\ DOMAIN queue' = DOMAIN queue
  BY <1>2 DEF SchedulerInv, SchedulerTypeOK
<1> QED
  BY <1>1, <1>3, <1>6, <1>7, <1>8, <1>9, <1>2 DEF SchedulerInv, TasksOK

(* What giving a task of a queue a status changes. *)
LEMMA Remarked ==
  ASSUME NEW tasks \in Seq(Task), NEW i \in DOMAIN tasks,
         NEW status \in {"queued", "processing", "completed", "failed"},
         NEW marked, marked = [tasks EXCEPT ![i].status = status]
  PROVE  /\ marked \in Seq(Task) /\ DOMAIN marked = DOMAIN tasks
         /\ marked[i].status = status
         /\ \A j \in DOMAIN tasks : marked[j].reservation = tasks[j].reservation
         /\ \A j \in DOMAIN tasks \ {i} : marked[j].status = tasks[j].status
<1>1. \A j \in DOMAIN tasks : tasks[j] \in Task
  OBVIOUS
<1>2. /\ DOMAIN marked = DOMAIN tasks
      /\ \A j \in DOMAIN tasks \ {i} : marked[j] = tasks[j]
      /\ marked[i] = [tasks[i] EXCEPT !.status = status]
  OBVIOUS
<1>3. marked[i] \in Task /\ marked[i].status = status
      /\ marked[i].reservation = tasks[i].reservation
  BY <1>1, <1>2 DEF Task
<1>4. tasks \in [1 .. Len(tasks) -> Task] /\ DOMAIN tasks = 1 .. Len(tasks) /\ Len(tasks) \in Nat
  OBVIOUS
<1> DEFINE n == Len(tasks)
           changed == [tasks[i] EXCEPT !.status = status]
<1>5. marked = [tasks EXCEPT ![i] = changed] /\ changed \in Task
  BY <1>2, <1>3
<1>6. marked \in [1 .. n -> Task] /\ n \in Nat
  <2> HIDE DEF n, changed, Task
  <2> QED
    BY <1>4, <1>5 DEF n
<1>7. marked \in Seq(Task)
  <2> HIDE DEF n, Task
  <2> QED
    BY <1>6
<1> QED
  BY <1>2, <1>3, <1>7

(* A worker that turns to a task keeps the tasks right. *)
LEMMA StartInv ==
  ASSUME Inv, SchedulerTypeOK, NEW w \in Workers, NEW tasks, TasksOK(tasks, Workers \ {w}),
         NEW rest \in Seq(DOMAIN queue), rest # <<>>, Start(w, tasks, rest)
  PROVE  SchedulerInv'
<1> DEFINE i == Head(rest)
           r == tasks[i].reservation
<1>1. i \in DOMAIN queue /\ tasks \in Seq(Task) /\ DOMAIN tasks = DOMAIN queue
  BY HeadTail DEF TasksOK
<1>2. queue' = [tasks EXCEPT ![i].status = "processing"]
  BY DEF Start
<1>3. /\ queue' \in Seq(Task) /\ DOMAIN queue' = DOMAIN queue
      /\ queue'[i].status = "processing"
      /\ \A j \in DOMAIN queue : queue'[j].reservation = tasks[j].reservation
      /\ \A j \in DOMAIN queue \ {i} : queue'[j].status = tasks[j].status
  BY <1>1, <1>2, Remarked
<1>4. \A j \in DOMAIN queue : tasks[j].reservation \in Calls \cup {NoReservation}
  <2>1. \A j \in DOMAIN queue : tasks[j] \in Task
    BY <1>1
  <2> QED
    BY <2>1 DEF Task
<1>5. \/ /\ Commits(r) /\ Commit(r)
         /\ phase' = [phase EXCEPT ![w] = "committing"]
      \/ /\ ~Commits(r) /\ UNCHANGED vars
         /\ phase' = [phase EXCEPT ![w] = "failing"]
  BY DEF Start
<1>6. todo' = [todo EXCEPT ![w] = rest]
  BY DEF Start
<1>7. [Next]_vars
  BY <1>1, <1>4, <1>5 DEF Next, Commits
<1>8. Inv' /\ MadeStays
  BY <1>7, InvStep, NextKeepsMade
<1>9. SchedulerTypeOK'
  <2>1. todo' \in [Workers -> Seq(DOMAIN queue)]
    BY <1>6 DEF SchedulerTypeOK
  <2>2. phase' \in [Workers -> {"new", "committing", "failing", "returned", "threw"}]
    BY <1>5 DEF SchedulerTypeOK
  <2>3. \A v \in Workers : phase'[v] \in {"committing", "failing"} => todo'[v] # <<>>
    BY <1>5, <1>6 DEF SchedulerTypeOK
  <2> QED
    BY <1>3, <2>1, <2>2, <2>3 DEF SchedulerTypeOK
<1>10. \A v \in Workers : v # w => phase'[v] = phase[v] /\ todo'[v] = todo[v]
  BY <1>5, <1>6 DEF SchedulerTypeOK
<1>11. todo'[w] = rest
  BY <1>6 DEF SchedulerTypeOK
<1>12. phase'[w] \in {"committing", "failing"}
  BY <1>5 DEF SchedulerTypeOK
<1>13. Works(queue, w)' = r
  BY <1>1, <1>3, <1>11 DEF Works
<1>14. ASSUME NEW v \in Workers \ {w}, phase[v] \in {"committing", "failing"}
       PROVE  /\ Works(queue, v)' = Works(tasks, v)
              /\ Works(tasks, v) \in Calls \cup {NoReservation}
              /\ (Works(tasks, v) # NoReservation => Made(Works(tasks, v)))
  <2>1. Head(todo[v]) \in DOMAIN queue
    BY <1>14, HeadTail DEF SchedulerTypeOK
  <2> QED
    BY <1>1, <1>3, <1>4, <1>10, <2>1 DEF Works, TasksOK, TasksKnown
<1>15. ASSUME NEW x \in Calls \cup {NoReservation}, x # NoReservation => Made(x), ~Commits(x)
       PROVE  ~Commits(x)'
  <2>1. CASE x \in Calls /\ x # NoReservation
    <3>1. state'[x] # "reserved"
      BY <1>8, <1>15, <2>1, CommitsIff DEF MadeStays
    <3> QED
      BY <3>1 DEF Commits, IsReserved
  <2> QED
    BY <2>1 DEF Commits
<1>16. r \in Calls \cup {NoReservation} /\ (r # NoReservation => Made(r))
  BY <1>1, <1>4 DEF TasksOK, TasksKnown
<1> HIDE DEF i, r
<1>17. TasksKnown(queue)'
  <2> SUFFICES ASSUME NEW j \in DOMAIN queue
               PROVE  /\ queue'[j].reservation # NoReservation => Made(queue[j].reservation)'
                      /\ queue'[j].status = "completed" =>
                           queue'[j].reservation # NoReservation
                           /\ state'[queue'[j].reservation] = "committed"
                      /\ queue'[j].status = "failed" => ~Commits(queue[j].reservation)'
    BY <1>3 DEF TasksKnown
  <2> DEFINE x == tasks[j].reservation
  <2>1. queue'[j].reservation = x /\ x \in Calls \cup {NoReservation}
    BY <1>3, <1>4
  <2>2. x # NoReservation => Made(x) /\ Made(x)'
    BY <1>1, <1>8, <2>1 DEF TasksOK, TasksKnown, MadeStays
  <2>3. queue'[j].status \in {"completed", "failed"} => queue'[j].status = tasks[j].status
    BY <1>3
  <2>4. tasks[j].status = "completed" => x # NoReservation /\ state[x] = "committed"
    BY <1>1 DEF TasksOK, TasksKnown
  <2>5. tasks[j].status = "failed" => ~Commits(x)
    BY <1>1 DEF TasksOK, TasksKnown
  <2> HIDE DEF x
  <2>6. tasks[j].status = "completed" => state'[x] = "committed"
    BY <1>8, <2>1, <2>2, <2>4 DEF MadeStays
  <2>7. tasks[j].status = "failed" => ~Commits(x)'
    BY <1>15, <2>1, <2>2, <2>5
  <2>8. tasks[j].status = "failed" => ~Commits(queue[j].reservation)'
    BY <2>1, <2>7 DEF Commits, IsReserved, KnownReservation
  <2>9. queue'[j].reservation # NoReservation => Made(queue[j].reservation)'
    BY <2>1, <2>2 DEF Made
  <2> QED
    BY <2>1, <2>2, <2>3, <2>4, <2>6, <2>8, <2>9
<1>18. TasksOwned(queue, Workers)'
  <2> SUFFICES ASSUME NEW j \in DOMAIN queue, queue'[j].status = "processing"
               PROVE  \E v \in Workers : Current(v, j)'
    BY <1>3 DEF TasksOwned
  <2>1. CASE j = i
    BY <1>11, <1>12, <2>1 DEF Current, i
  <2>2. CASE j # i
    <3>1. PICK v \in Workers \ {w} : Current(v, j)
      BY <1>1, <1>3, <2>2 DEF TasksOK, TasksOwned
    <3> QED
      BY <1>10, <3>1 DEF Current
  <2> QED
    BY <2>1, <2>2
<1>19. TasksSettledOnce(queue)'
  BY <1>1, <1>3 DEF TasksOK, TasksSettledOnce
<1>20. WorkersOK(queue, Workers)'
  <2>1. ASSUME NEW v \in Workers, phase'[v] = "failing"
        PROVE  ~Commits(Works(queue, v))'
    <3>1. CASE v = w
      <4>1. ~Commits(r)
        BY <1>5, <2>1, <3>1 DEF SchedulerTypeOK
      <4> QED
        BY <1>13, <1>15, <1>16, <3>1, <4>1 DEF Commits, IsReserved, KnownReservation
    <3>2. CASE v # w
      <4>1. phase[v] = "failing"
        BY <1>10, <2>1, <3>2
      <4>2. ~Commits(Works(tasks, v))
        BY <3>2, <4>1 DEF TasksOK, WorkersOK
      <4>3. Works(queue, v)' = Works(tasks, v)
        BY <1>14, <3>2, <4>1
      <4>4. ASSUME NEW x, x = Works(tasks, v), ~Commits(x)' PROVE ~Commits(Works(queue, v))'
        BY <4>3, <4>4 DEF Commits, IsReserved, KnownReservation
      <4> QED
        BY <1>14, <1>15, <3>2, <4>1, <4>2, <4>4
    <3> QED
      BY <3>1, <3>2
  <2>2. CASE Commits(r) /\ Commit(r) /\ phase' = [phase EXCEPT ![w] = "committing"]
    <3>1. r # NoReservation /\ r \in Calls /\ state[r] = "reserved" /\ state'[r] = "committed"
      BY <1>16, <2>2 DEF Commits, IsReserved, Commit, Inv, TypeOK
    <3>2. ASSUME NEW v \in Workers \ {w}, phase'[v] = "committing"
          PROVE  /\ Works(queue, v)' = Works(tasks, v)
                 /\ Works(tasks, v) # NoReservation /\ Works(tasks, v) # r
                 /\ state'[Works(tasks, v)] = "committed"
      <4>1. phase[v] = "committing"
        BY <1>10, <3>2
      <4>2. Works(tasks, v) # NoReservation /\ state[Works(tasks, v)] = "committed"
        BY <4>1 DEF TasksOK, WorkersOK
      <4> QED
        BY <1>8, <1>14, <3>1, <4>1, <4>2 DEF MadeStays
    <3>3. ASSUME NEW v \in Workers, phase'[v] = "committing"
          PROVE  /\ Works(queue, v)' # NoReservation /\ state'[Works(queue, v)'] = "committed"
                 /\ \A u \in Workers : phase'[u] = "committing"
                                       /\ Works(queue, u)' = Works(queue, v)' => u = v
                 /\ \A j \in DOMAIN queue : queue'[j].status = "completed"
                      => queue'[j].reservation # Works(queue, v)'
      <4>1. CASE v = w
        <5>1. \A j \in DOMAIN queue : tasks[j].status = "completed" => state[tasks[j].reservation] = "committed"
          BY <1>1 DEF TasksOK, TasksKnown
        <5>2. \A j \in DOMAIN queue : queue'[j].status = "completed" => queue'[j].reservation # r
          BY <1>3, <3>1, <5>1
        <5> QED
          BY <1>13, <3>1, <3>2, <4>1, <5>2
      <4>2. CASE v # w
        <5>1. phase[v] = "committing"
          BY <1>10, <3>3, <4>2
        <5>2. \A u \in Workers \ {w} : phase'[u] = "committing"
                                       /\ Works(queue, u)' = Works(queue, v)' => u = v
          BY <1>10, <3>2, <3>3, <4>2, <5>1 DEF TasksOK, WorkersOK
        <5>3. \A j \in DOMAIN queue : queue'[j].status = "completed"
                                      => queue'[j].reservation # Works(queue, v)'
          BY <1>1, <1>3, <3>2, <3>3, <4>2, <5>1 DEF TasksOK, WorkersOK
        <5> QED
          BY <1>13, <3>2, <3>3, <4>2, <5>2, <5>3
      <4> QED
        BY <4>1, <4>2
    <3> QED
      BY <1>3, <2>1, <3>3 DEF WorkersOK
  <2>3. CASE ~Commits(r) /\ UNCHANGED vars /\ phase' = [phase EXCEPT ![w] = "failing"]
    <3>1. phase'[w] = "failing" /\ state' = state
      BY <2>3 DEF SchedulerTypeOK, vars
    <3>2. ASSUME NEW v \in Workers, phase'[v] = "committing"
          PROVE  v # w /\ phase[v] = "committing" /\ Works(queue, v)' = Works(tasks, v)
      BY <1>10, <1>14, <3>1, <3>2
    <3>3. ASSUME NEW v \in Workers, phase'[v] = "committing"
          PROVE  /\ Works(queue, v)' # NoReservation /\ state'[Works(queue, v)'] = "committed"
                 /\ \A u \in Workers : phase'[u] = "committing"
                                       /\ Works(queue, u)' = Works(queue, v)' => u = v
                 /\ \A j \in DOMAIN queue : queue'[j].status = "completed"
                      => queue'[j].reservation # Works(queue, v)'
      <4>1. v # w /\ phase[v] = "committing" /\ Works(queue, v)' = Works(tasks, v)
        BY <3>2, <3>3
      <4>2. Works(queue, v)' # NoReservation /\ state'[Works(queue, v)'] = "committed"
        BY <3>1, <4>1 DEF TasksOK, WorkersOK
      <4>3. \A u \in Workers : phase'[u] = "committing"
                               /\ Works(queue, u)' = Works(queue, v)' => u = v
        BY <3>2, <4>1 DEF TasksOK, WorkersOK
      <4>4. \A j \in DOMAIN queue : queue'[j].status = "completed"
              => tasks[j].status = "completed" /\ queue'[j].reservation = tasks[j].reservation
        BY <1>3
      <4>5. \A j \in DOMAIN queue : queue'[j].status = "completed"
                                    => queue'[j].reservation # Works(queue, v)'
        BY <1>1, <4>1, <4>4 DEF TasksOK, WorkersOK
      <4> QED
        BY <4>2, <4>3, <4>5
    <3> QED
      BY <1>3, <2>1, <3>3 DEF WorkersOK
  <2> QED
    BY <1>5, <2>2, <2>3
<1> QED
  BY <1>3, <1>8, <1>9, <1>17, <1>18, <1>19, <1>20 DEF SchedulerInv, TasksOK

(* A worker that is done keeps the tasks right. *)
LEMMA EndInv ==
  ASSUME SchedulerTypeOK, Inv, UNCHANGED vars, NEW w \in Workers,
         TasksOK(queue', Workers \ {w}),
         NEW ending \in {"returned", "threw"}, phase' = [phase EXCEPT ![w] = ending],
         NEW left \in Seq(DOMAIN queue), todo' = [todo EXCEPT ![w] = left]
  PROVE  SchedulerInv'
<1>1. queue' \in Seq(Task) /\ DOMAIN queue' = DOMAIN queue
  BY DEF TasksOK
<1>2. /\ \A v \in Workers \ {w} : phase'[v] = phase[v] /\ todo'[v] = todo[v]
      /\ phase'[w] = ending
  BY DEF SchedulerTypeOK
<1>3. SchedulerTypeOK'
  BY <1>1 DEF SchedulerTypeOK
<1>4. Inv'
  BY InvStep
<1>5. state' = state /\ heldAt' = heldAt
  BY DEF vars
<1>6. TasksKnown(queue)' /\ TasksSettledOnce(queue)'
  BY <1>5 DEF TasksOK, TasksKnown, TasksSettledOnce, Made, Commits, IsReserved, KnownReservation
<1>7. TasksOwned(queue, Workers)'
  BY <1>2 DEF TasksOK, TasksOwned, Current
<1>8. ASSUME NEW v \in Workers, phase'[v] \in {"committing", "failing"}
      PROVE  v # w /\ phase[v] = phase'[v] /\ Works(queue, v)' = Works(queue', v)
  BY <1>2, <1>8 DEF Works
<1>9. WorkersOK(queue, Workers)'
  <2>1. ASSUME NEW v \in Workers, phase'[v] = "failing"
        PROVE  ~Commits(Works(queue, v))'
    BY <1>5, <1>8, <2>1 DEF TasksOK, WorkersOK, Commits, IsReserved, KnownReservation
  <2>2. ASSUME NEW v \in Workers, phase'[v] = "committing"
        PROVE  /\ Works(queue, v)' # NoReservation /\ state'[Works(queue, v)'] = "committed"
               /\ \A u \in Workers : phase'[u] = "committing"
                                     /\ Works(queue, u)' = Works(queue, v)' => u = v
               /\ \A j \in DOMAIN queue' : queue'[j].status = "completed"
                    => queue'[j].reservation # Works(queue, v)'
    BY <1>5, <1>8, <2>2 DEF TasksOK, WorkersOK
  <2> QED
    BY <2>1, <2>2 DEF WorkersOK
<1> QED
  BY <1>1, <1>3, <1>4, <1>6, <1>7, <1>9 DEF SchedulerInv, TasksOK

(* A worker that is not on a task can be left out of account. *)
LEMMA Idle ==
  ASSUME NEW tasks, NEW w \in Workers, TasksOK(tasks, Workers), phase[w] = "new"
  PROVE  TasksOK(tasks, Workers \ {w})
<1>1. TasksOwned(tasks, Workers \ {w})
  BY DEF TasksOK, TasksOwned, Current
<1>2. WorkersOK(tasks, Workers \ {w})
  BY DEF TasksOK, WorkersOK
<1> QED
  BY <1>1, <1>2 DEF TasksOK

(* Marking the task that a worker is on ends the worker's part in it. *)
LEMMA MarkedOK ==
  ASSUME SchedulerInv, NEW w \in Workers,
         NEW status \in {"completed", "failed"},
         phase[w] = IF status = "completed" THEN "committing" ELSE "failing"
  PROVE  TasksOK(Marked(w, status), Workers \ {w})
<1> DEFINE i == Head(todo[w])
           marked == Marked(w, status)
           r == queue[i].reservation
<1>1. i \in DOMAIN queue /\ queue \in Seq(Task)
  BY HeadTail DEF SchedulerInv, SchedulerTypeOK
<1>2. marked = [queue EXCEPT ![i].status = status]
  BY DEF Marked
<1>3. /\ marked \in Seq(Task) /\ DOMAIN marked = DOMAIN queue
      /\ marked[i].status = status
      /\ \A j \in DOMAIN queue : marked[j].reservation = queue[j].reservation
      /\ \A j \in DOMAIN queue \ {i} : marked[j].status = queue[j].status
  BY <1>1, <1>2, Remarked
<1>4. /\ Works(queue, w) = r
      /\ TasksKnown(queue) /\ TasksOwned(queue, Workers)
      /\ TasksSettledOnce(queue) /\ WorkersOK(queue, Workers)
  BY DEF Works, SchedulerInv, TasksOK
<1>5. /\ status = "failed" => ~Commits(r)
      /\ status = "completed" =>
           /\ r # NoReservation /\ state[r] = "committed"
           /\ \A v \in Workers : phase[v] = "committing" /\ Works(queue, v) = r => v = w
           /\ \A j \in DOMAIN queue : queue[j].status = "completed" => queue[j].reservation # r
  BY <1>4 DEF WorkersOK
<1>6. ASSUME NEW v \in Workers, phase[v] \in {"failing", "committing"}
      PROVE  Works(marked, v) = Works(queue, v)
  <2>1. Head(todo[v]) \in DOMAIN queue
    BY <1>6, HeadTail DEF SchedulerInv, SchedulerTypeOK
  <2> HIDE DEF marked
  <2> QED
    BY <1>3, <2>1 DEF Works
<1> HIDE DEF i, marked
<1>7. TasksKnown(marked)
  BY <1>1, <1>3, <1>4, <1>5 DEF TasksKnown
<1>8. TasksOwned(marked, Workers \ {w})
  <2> SUFFICES ASSUME NEW j \in DOMAIN queue, marked[j].status = "processing"
               PROVE  \E v \in Workers \ {w} : Current(v, j)
    BY <1>3 DEF TasksOwned
  <2>1. j # i
    BY <1>3
  <2>2. PICK v \in Workers : Current(v, j)
    BY <1>3, <1>4, <2>1 DEF TasksOwned
  <2>3. v # w
    BY <2>1, <2>2 DEF Current, i
  <2> QED
    BY <2>2, <2>3
<1>9. TasksSettledOnce(marked)
  BY <1>1, <1>3, <1>4, <1>5 DEF TasksSettledOnce
<1>10. WorkersOK(marked, Workers \ {w})
  <2> SUFFICES ASSUME NEW v \in Workers \ {w}
      PROVE  /\ phase[v] = "failing" => ~Commits(Works(marked, v))
             /\ phase[v] = "committing" =>
                  /\ Works(marked, v) # NoReservation /\ state[Works(marked, v)] = "committed"
                  /\ \A u \in Workers \ {w} : phase[u] = "committing"
                        /\ Works(marked, u) = Works(marked, v) => u = v
                  /\ \A j \in DOMAIN queue : marked[j].status = "completed"
                        => marked[j].reservation # Works(marked, v)
    BY <1>3 DEF WorkersOK
  <2>1. phase[v] = "failing" => ~Commits(Works(marked, v))
    BY <1>4, <1>6 DEF WorkersOK
  <2>2. ASSUME phase[v] = "committing"
        PROVE  /\ Works(marked, v) # NoReservation /\ state[Works(marked, v)] = "committed"
               /\ \A u \in Workers \ {w} : phase[u] = "committing"
                     /\ Works(marked, u) = Works(marked, v) => u = v
    BY <1>4, <1>6, <2>2 DEF WorkersOK
  <2>3. ASSUME phase[v] = "committing", NEW j \in DOMAIN queue, marked[j].status = "completed"
        PROVE  marked[j].reservation # Works(marked, v)
    <3>1. CASE j = i
      <4>1. status = "completed"
        BY <1>3, <2>3, <3>1
      <4>2. Works(queue, v) # r
        BY <1>5, <2>3, <4>1
      <4>3. marked[j].reservation = r
        BY <1>1, <1>3, <3>1 DEF r
      <4> QED
        BY <1>6, <2>3, <4>2, <4>3
    <3>2. CASE j # i
      BY <1>3, <1>4, <1>6, <2>3, <3>2 DEF WorkersOK
    <3> QED
      BY <3>1, <3>2
  <2> QED
    BY <2>1, <2>2, <2>3
<1> QED
  BY <1>3, <1>7, <1>8, <1>9, <1>10 DEF TasksOK, marked

(* A scheduled task joins the end of the queue. *)
LEMMA ScheduleInv ==
  ASSUME SchedulerInv, NEW r \in Calls \cup {NoReservation}, NEW priority \in Priorities,
         Schedule(r, priority)
  PROVE  SchedulerInv'
<1> DEFINE task == [reservation |-> r, priority |-> priority, status |-> "queued"]
           n == Len(queue)
<1>1. /\ queue' = Append(queue, task)
      /\ UNCHANGED <<vars, todo, phase>>
      /\ (r # NoReservation => KnownReservation(r))
  BY DEF Schedule
<1>2. task \in Task /\ task.reservation = r /\ task.status = "queued"
  BY DEF Task
<1>3. queue \in Seq(Task)
  BY DEF SchedulerInv, SchedulerTypeOK
<1> HIDE DEF task
<1>4. /\ queue' \in Seq(Task) /\ n \in Nat
      /\ DOMAIN queue = 1 .. n /\ DOMAIN queue' = 1 .. (n + 1)
      /\ queue'[n + 1] = task
      /\ \A i \in 1 .. n : queue'[i] = queue[i]
  <2> HIDE DEF Task
  <2> QED
    BY <1>1, <1>2, <1>3
<1>5. DOMAIN queue \subseteq DOMAIN queue' /\ DOMAIN queue' = DOMAIN queue \cup {n + 1}
  BY <1>4
<1>6. Inv' /\ state' = state /\ heldAt' = heldAt
  <2>1. Inv'
    BY <1>1, InvStep DEF SchedulerInv
  <2> QED
    BY <1>1, <2>1 DEF vars
<1>7. SchedulerTypeOK'
  <2>1. \A w \in Workers : todo[w] \in Seq(DOMAIN queue')
    BY <1>5, SeqWiden DEF SchedulerInv, SchedulerTypeOK
  <2>2. todo' \in [Workers -> Seq(DOMAIN queue')]
    BY <1>1, <2>1 DEF SchedulerInv, SchedulerTypeOK
  <2> QED
    BY <1>1, <1>4, <2>2 DEF SchedulerInv, SchedulerTypeOK
<1>8. r # NoReservation => Made(r)
  BY <1>1 DEF SchedulerInv, Inv, TypeOK, HeldSomewhere, KnownReservation, Made
<1> HIDE DEF n
<1>9. /\ TasksKnown(queue) /\ TasksOwned(queue, Workers)
      /\ TasksSettledOnce(queue) /\ WorkersOK(queue, Workers)
  BY DEF SchedulerInv, TasksOK
<1>10. ASSUME NEW i \in DOMAIN queue', queue'[i].status # "queued"
       PROVE  i \in DOMAIN queue /\ queue'[i] = queue[i]
  BY <1>2, <1>4, <1>10
<1>11. TasksKnown(queue)'
  <2> SUFFICES ASSUME NEW i \in DOMAIN queue'
      PROVE  /\ queue'[i].reservation # NoReservation => Made(queue[i].reservation)'
             /\ queue'[i].status = "completed" =>
                  queue'[i].reservation # NoReservation
                  /\ state'[queue'[i].reservation] = "committed"
             /\ queue'[i].status = "failed" => ~Commits(queue[i].reservation)'
    BY DEF TasksKnown
  <2>1. CASE i \in DOMAIN queue
    <3>1. queue'[i] = queue[i]
      BY <1>4, <2>1
    <3> QED
      BY <1>6, <1>9, <2>1, <3>1
         DEF TasksKnown, Made, Commits, IsReserved, KnownReservation
  <2>2. CASE i \notin DOMAIN queue
    <3>1. queue'[i] = task
      BY <1>4, <1>5, <2>2
    <3> QED
      BY <1>2, <1>6, <1>8, <3>1 DEF Made
  <2> QED
    BY <2>1, <2>2
<1>12. TasksOwned(queue, Workers)' /\ TasksSettledOnce(queue)'
  BY <1>1, <1>9, <1>10 DEF TasksOwned, TasksSettledOnce, Current
<1>13. ASSUME NEW w \in Workers, phase[w] \in {"committing", "failing"}
       PROVE  Works(queue, w)' = Works(queue, w)
  <2>1. Head(todo[w]) \in DOMAIN queue
    BY <1>13, HeadTail DEF SchedulerInv, SchedulerTypeOK
  <2> QED
    BY <1>1, <1>4, <2>1 DEF Works
<1>14. WorkersOK(queue, Workers)'
  <2>1. ASSUME NEW w \in Workers, phase[w] = "failing"
        PROVE  ~Commits(Works(queue, w))'
    BY <1>6, <1>9, <1>13, <2>1 DEF WorkersOK, Commits, IsReserved, KnownReservation
  <2>2. ASSUME NEW w \in Workers, phase[w] = "committing"
        PROVE  /\ Works(queue, w)' # NoReservation /\ state'[Works(queue, w)'] = "committed"
               /\ \A v \in Workers : phase[v] = "committing"
                                     /\ Works(queue, v)' = Works(queue, w)' => v = w
    BY <1>6, <1>9, <1>13, <2>2 DEF WorkersOK
  <2>3. ASSUME NEW w \in Workers, phase[w] = "committing",
               NEW j \in DOMAIN queue', queue'[j].status = "completed"
        PROVE  queue'[j].reservation # Works(queue, w)'
    BY <1>9, <1>10, <1>13, <2>3 DEF WorkersOK
  <2> QED
    BY <1>1, <2>1, <2>2, <2>3 DEF WorkersOK
<1> QED
  BY <1>4, <1>6, <1>7, <1>11, <1>12, <1>14 DEF SchedulerInv, TasksOK

(* The beginning of a call keeps the tasks right. *)
LEMMA BeginInv ==
  ASSUME SchedulerInv, NEW w \in Workers, NEW tasks \in Seq(DOMAIN queue), Begin(w, tasks)
  PROVE  SchedulerInv'
<1>1. phase[w] = "new"
  BY DEF Begin
<1>2. TasksOK(queue, Workers \ {w})
  BY <1>1, Idle DEF SchedulerInv
<1>3. CASE tasks # <<>> /\ Start(w, queue, tasks)
  BY <1>2, <1>3, StartInv DEF SchedulerInv
<1>4. CASE phase' = [phase EXCEPT ![w] = "returned"] /\ UNCHANGED <<vars, queue, todo>>
  <2>1. todo' = [todo EXCEPT ![w] = todo[w]] /\ todo[w] \in Seq(DOMAIN queue)
    BY <1>4 DEF SchedulerInv, SchedulerTypeOK
  <2>2. TasksOK(queue', Workers \ {w})
    BY <1>2, <1>4
  <2>3. UNCHANGED vars
    BY <1>4
  <2> QED
    BY <1>4, <2>1, <2>2, <2>3, EndInv DEF SchedulerInv
<1> QED
  BY <1>3, <1>4 DEF Begin

(* The end of a commit keeps the tasks right, and so does the turn to the next. *)
LEMMA CompletedInv ==
  ASSUME SchedulerInv, NEW w \in Workers, Completed(w)
  PROVE  SchedulerInv'
<1> DEFINE rest == Tail(todo[w])
           marked == Marked(w, "completed")
<1>1. phase[w] = "committing"
  BY DEF Completed
<1>2. TasksOK(marked, Workers \ {w})
  BY <1>1, MarkedOK
<1>3. rest \in Seq(DOMAIN queue)
  BY <1>1, HeadTail DEF SchedulerInv, SchedulerTypeOK
<1>4. CASE rest # <<>> /\ Start(w, marked, rest)
  BY <1>2, <1>3, <1>4, StartInv DEF SchedulerInv
<1>5. CASE /\ queue' = marked
           /\ todo' = [todo EXCEPT ![w] = <<>>]
           /\ phase' = [phase EXCEPT ![w] = "returned"]
           /\ UNCHANGED vars
  <2>1. TasksOK(queue', Workers \ {w})
    BY <1>2, <1>5
  <2> HIDE DEF marked
  <2>2. <<>> \in Seq(DOMAIN queue)
    OBVIOUS
  <2> QED
    BY <1>5, <2>1, <2>2, EndInv DEF SchedulerInv
<1> QED
  BY <1>4, <1>5 DEF Completed

(* A failure keeps the tasks right. *)
LEMMA FailedInv ==
  ASSUME SchedulerInv, NEW w \in Workers, Failed(w)
  PROVE  SchedulerInv'
<1>1. phase[w] = "failing" /\ queue' = Marked(w, "failed")
  BY DEF Failed
<1>2. TasksOK(queue', Workers \ {w})
  <2>1. TasksOK(Marked(w, "failed"), Workers \ {w})
    BY <1>1, MarkedOK
  <2> QED
    BY <1>1, <2>1
<1>3. /\ todo' = [todo EXCEPT ![w] = <<>>] /\ phase' = [phase EXCEPT ![w] = "threw"]
      /\ UNCHANGED vars /\ <<>> \in Seq(DOMAIN queue)
  BY DEF Failed
<1> QED
  BY <1>2, <1>3, EndInv DEF SchedulerInv

(* Either call begins with a sequence of positions of the queue. *)
LEMMA Selects ==
  ASSUME SchedulerInv, NEW w \in Workers, ExecuteNext(w) \/ ProcessBatch(w)
  PROVE  \E tasks \in Seq(DOMAIN queue) : Begin(w, tasks)
<1>1. CASE ExecuteNext(w)
  <2>1. ASSUME Begin(w, <<>>)
        PROVE  \E tasks \in Seq(DOMAIN queue) : Begin(w, tasks)
    <3>1. <<>> \in Seq(DOMAIN queue)
      OBVIOUS
    <3> QED
      BY <2>1, <3>1, Zenon
  <2>2. ASSUME NEW i \in Queued("immediate"), Begin(w, <<i>>)
        PROVE  \E tasks \in Seq(DOMAIN queue) : Begin(w, tasks)
    <3>1. i \in DOMAIN queue
      BY DEF Queued
    <3>2. <<i>> \in Seq(DOMAIN queue)
      BY <3>1
    <3> QED
      BY <2>2, <3>2
  <2> QED
    BY <1>1, <2>1, <2>2 DEF ExecuteNext
<1>2. CASE ProcessBatch(w)
  <2>1. PICK tasks \in [1 .. Cardinality(Queued("batch")) -> Queued("batch")] : Begin(w, tasks)
    BY <1>2 DEF ProcessBatch
  <2>2. Cardinality(Queued("batch")) \in Nat
    <3>1. IsFiniteSet(DOMAIN queue)
      <4>1. Len(queue) \in Nat /\ DOMAIN queue = 1 .. Len(queue)
        BY DEF SchedulerInv, SchedulerTypeOK
      <4> QED
        BY <4>1, FS_Interval
    <3>2. Queued("batch") \in SUBSET DOMAIN queue
      BY DEF Queued
    <3> QED
      BY <3>1, <3>2, FS_Subset, FS_CardinalityType
  <2>3. tasks \in Seq(Queued("batch"))
    BY <2>1, <2>2
  <2>4. tasks \in Seq(DOMAIN queue)
    BY <2>3, SeqWiden DEF Queued
  <2> QED
    BY <2>1, <2>4
<1> QED
  BY <1>1, <1>2

(* Every step of the scheduler and of the network keeps the tasks right. *)
LEMMA SchedulerInvStep == SchedulerInv /\ [SchedulerNext]_allVars => SchedulerInv'
<1> SUFFICES ASSUME SchedulerInv, [SchedulerNext]_allVars PROVE SchedulerInv'
  OBVIOUS
<1>1. CASE Next /\ UNCHANGED scheduler
  BY <1>1, NetworkKeepsTasks
<1>2. ASSUME NEW r \in Calls \cup {NoReservation}, NEW priority \in Priorities,
             Schedule(r, priority)
      PROVE  SchedulerInv'
  BY <1>2, ScheduleInv
<1>3. ASSUME NEW w \in Workers, ExecuteNext(w) \/ ProcessBatch(w) PROVE SchedulerInv'
  BY <1>3, Selects, BeginInv
<1>5. ASSUME NEW w \in Workers, Completed(w) \/ Failed(w) PROVE SchedulerInv'
  BY <1>5, CompletedInv, FailedInv
<1>6. CASE UNCHANGED allVars
  <2>1. Inv'
    BY <1>6, InvStep DEF SchedulerInv, allVars
  <2>2. UNCHANGED <<queue, todo, phase, state, heldAt>>
    BY <1>6 DEF allVars, vars, scheduler
  <2>3. SchedulerTypeOK'
    BY <2>2 DEF SchedulerInv, SchedulerTypeOK
  <2>4. TasksOK(queue, Workers)'
    <3>1. TasksOK(queue, Workers)
      BY DEF SchedulerInv
    <3> QED
      BY <2>2, <3>1 DEF TasksOK, TasksKnown, TasksOwned, TasksSettledOnce, WorkersOK, Works,
             Current, Made, Commits, IsReserved, KnownReservation
  <2> QED
    BY <2>1, <2>3, <2>4 DEF SchedulerInv
<1> QED
  BY <1>1, <1>2, <1>3, <1>5, <1>6 DEF SchedulerNext

(* No task is there at first. *)
LEMMA SchedulerInitInv == SchedulerInit => SchedulerInv
<1> SUFFICES ASSUME SchedulerInit PROVE SchedulerInv
  OBVIOUS
<1>1. Inv
  BY InitInv DEF SchedulerInit
<1>2. queue = <<>> /\ queue \in Seq(Task) /\ DOMAIN queue = {}
  BY DEF SchedulerInit
<1>3. SchedulerTypeOK
  <2>1. <<>> \in Seq(DOMAIN queue)
    OBVIOUS
  <2> QED
    BY <1>2, <2>1 DEF SchedulerInit, SchedulerTypeOK
<1>4. TasksOK(queue, Workers)
  <2>1. WorkersOK(queue, Workers)
    BY DEF SchedulerInit, WorkersOK
  <2> QED
    BY <1>2, <2>1 DEF TasksOK, TasksKnown, TasksOwned, TasksSettledOnce
<1> QED
  BY <1>1, <1>3, <1>4 DEF SchedulerInv

(* The tasks are right in every state of the scheduler. *)
LEMMA SchedulerInvariance == SchedulerSpec => []SchedulerInv
<1> QED
  BY SchedulerInitInv, SchedulerInvStep, PTL DEF SchedulerSpec

(* No two completed tasks settle the same reservation, and what a completed
   task settled is committed, for any number of workers, tasks and pools. *)
THEOREM SettlesOnce == SchedulerSpec => []SettledOnce
<1>1. SchedulerInv => SettledOnce
  BY DEF SchedulerInv, TasksOK, TasksKnown, TasksSettledOnce, SettledOnce
<1> QED
  BY <1>1, SchedulerInvariance, PTL

(* A task in processing has a worker, and one that failed holds no money. *)
THEOREM AccountsForTasks == SchedulerSpec => []TasksAreAccounted
<1>1. SchedulerInv => TasksAreAccounted
  <2> SUFFICES ASSUME SchedulerInv PROVE TasksAreAccounted
    OBVIOUS
  <2>1. ProcessingIsOwned
    BY DEF SchedulerInv, TasksOK, TasksOwned, ProcessingIsOwned
  <2>2. FailureHoldsNothing
    BY DEF SchedulerInv, TasksOK, TasksKnown, WorkersOK, Works, FailureHoldsNothing
  <2> QED
    BY <2>1, <2>2 DEF SchedulerInv, TasksAreAccounted
<1> QED
  BY <1>1, SchedulerInvariance, PTL

-----------------------------------------------------------------------------
(* What the scheduler does to the pools, the network allows. *)

(* A worker that turns to a task commits its reservation or does nothing. *)
LEMMA StartIsNetwork ==
  ASSUME Inv, NEW w \in Workers, NEW tasks \in Seq(Task),
         NEW rest \in Seq(DOMAIN tasks), rest # <<>>, Start(w, tasks, rest)
  PROVE  [Next]_vars
<1> DEFINE i == Head(rest)
           r == tasks[i].reservation
<1>1. i \in DOMAIN tasks
  BY HeadTail
<1>2. r \in Calls \cup {NoReservation}
  <2>1. tasks[i] \in Task
    BY <1>1
  <2> QED
    BY <2>1 DEF Task
<1>3. (Commits(r) /\ Commit(r)) \/ UNCHANGED vars
  BY DEF Start
<1> HIDE DEF r
<1>4. CASE Commits(r) /\ Commit(r)
  BY <1>2, <1>4 DEF Commits, Next
<1> QED
  BY <1>3, <1>4

(* Every step of the scheduler is one of the network, or leaves it alone. *)
LEMMA SchedulerIsNetwork == SchedulerInv /\ [SchedulerNext]_allVars => [Next]_vars
<1> SUFFICES ASSUME SchedulerInv, [SchedulerNext]_allVars PROVE [Next]_vars
  OBVIOUS
<1>1. queue \in Seq(Task) /\ Inv
  BY DEF SchedulerInv, SchedulerTypeOK
<1>2. ASSUME NEW r \in Calls \cup {NoReservation}, NEW priority \in Priorities,
             Schedule(r, priority)
      PROVE  UNCHANGED vars
  BY <1>2 DEF Schedule
<1>3. ASSUME NEW w \in Workers, ExecuteNext(w) \/ ProcessBatch(w) PROVE [Next]_vars
  <2>1. PICK tasks \in Seq(DOMAIN queue) : Begin(w, tasks)
    BY <1>3, Selects
  <2> QED
    BY <1>1, <2>1, StartIsNetwork DEF Begin
<1>4. ASSUME NEW w \in Workers, Completed(w) PROVE [Next]_vars
  <2> DEFINE rest == Tail(todo[w])
             marked == Marked(w, "completed")
  <2>1. phase[w] = "committing"
    BY <1>4 DEF Completed
  <2>2. TasksOK(marked, Workers \ {w})
    BY <2>1, MarkedOK
  <2>3. marked \in Seq(Task) /\ DOMAIN marked = DOMAIN queue
    BY <2>2 DEF TasksOK
  <2>4. rest \in Seq(DOMAIN marked)
    BY <2>1, <2>3, HeadTail DEF SchedulerInv, SchedulerTypeOK
  <2>5. (rest # <<>> /\ Start(w, marked, rest)) \/ UNCHANGED vars
    BY <1>4 DEF Completed
  <2> HIDE DEF rest, marked
  <2> QED
    BY <1>1, <2>3, <2>4, <2>5, StartIsNetwork
<1>5. ASSUME NEW w \in Workers, Failed(w) PROVE UNCHANGED vars
  BY <1>5 DEF Failed
<1>6. CASE UNCHANGED allVars
  BY <1>6 DEF allVars
<1> QED
  BY <1>2, <1>3, <1>4, <1>5, <1>6 DEF SchedulerNext

(* However many workers take tasks, the pools under a scheduler behave as  *)
(* the network does without one: the scheduler can do nothing to them that *)
(* a caller of reserve, commit and rollback could not.                     *)
THEOREM SchedulerRefinesNetwork == SchedulerSpec => Spec
<1>1. SchedulerInit => Init
  BY DEF SchedulerInit
<1> QED
  BY <1>1, SchedulerInvariance, SchedulerIsNetwork, PTL DEF SchedulerSpec, Spec

(* So the pools keep their accounts under the scheduler, implement the     *)
(* single pot, and are not overfilled by a rebalance.                      *)
THEOREM ScheduledPoolsKeepPromise == SchedulerSpec => []PoolsAreAccounted /\ NeverOverfills /\ KeepsPromise
<1> QED
  BY SchedulerRefinesNetwork, AccountingHolds, RebalanceNeverOverfills, Refinement, PTL

=============================================================================
