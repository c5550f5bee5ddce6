------------------------------- MODULE Totals -------------------------------
(***************************************************************************)
(* Sums of natural numbers over finite sets, as the services of this       *)
(* repository keep them implicitly: the balance of a wallet or a pool is    *)
(* the total of the amounts of the holds or reservations behind it.         *)
(*                                                                         *)
(* Total(f, S) is the sum of f[x] for x in S.  It is defined by counting   *)
(* units, one for each of the f[x] units of every x, so that what it       *)
(* satisfies follows from the theorems on cardinalities.                   *)
(***************************************************************************)
EXTENDS Integers, FiniteSets, FiniteSetTheorems, TLAPS

Units(f, x) == {x} \X (1 .. f[x])

UnitsOf(f, S) == UNION {Units(f, x) : x \in S}

Total(f, S) == Cardinality(UnitsOf(f, S))

-----------------------------------------------------------------------------
(* The units of one element are finite, and as many as its amount. *)
LEMMA UnitsCount ==
  ASSUME NEW f, NEW x, f[x] \in Nat
  PROVE  IsFiniteSet(Units(f, x)) /\ Cardinality(Units(f, x)) = f[x]
<1>1. IsFiniteSet({x}) /\ Cardinality({x}) = 1
  BY FS_Singleton
<1>2. IsFiniteSet(1 .. f[x]) /\ Cardinality(1 .. f[x]) = f[x]
  BY FS_Interval
<1>3. Units(f, x) = {x} \X (1 .. f[x])
  BY DEF Units
<1>4. IsFiniteSet(Units(f, x)) /\ Cardinality(Units(f, x)) = 1 * Cardinality(1 .. f[x])
  BY <1>1, <1>2, <1>3, FS_Product, Zenon
<1> QED
  BY <1>2, <1>4

(* The units of two different elements are different. *)
LEMMA UnitsDisjoint ==
  ASSUME NEW f, NEW S, NEW x, x \notin S
  PROVE  UnitsOf(f, S) \cap Units(f, x) = {}
BY DEF Units, UnitsOf

(* Adding an element to a set adds its units. *)
LEMMA UnitsOfAdd ==
  ASSUME NEW f, NEW S, NEW x
  PROVE  UnitsOf(f, S \cup {x}) = UnitsOf(f, S) \cup Units(f, x)
BY DEF Units, UnitsOf

(* The units of a finite set are finite. *)
LEMMA UnitsOfFinite ==
  ASSUME NEW f, NEW S, IsFiniteSet(S), \A x \in S : f[x] \in Nat
  PROVE  IsFiniteSet(UnitsOf(f, S))
<1> DEFINE us == {Units(f, x) : x \in S}
           g  == [x \in S |-> Units(f, x)]
<1>1. g \in Surjection(S, us)
  BY DEF Surjection
<1>2. IsFiniteSet(us)
  BY <1>1, FS_Surjection, Zenon
<1>3. \A u \in us : IsFiniteSet(u)
  BY UnitsCount
<1>4. IsFiniteSet(UNION us)
  BY <1>2, <1>3, FS_UNION, Zenon
<1> QED
  BY <1>4 DEF UnitsOf

-----------------------------------------------------------------------------
(* A total is a natural number. *)
LEMMA TotalType ==
  ASSUME NEW f, NEW S, IsFiniteSet(S), \A x \in S : f[x] \in Nat
  PROVE  Total(f, S) \in Nat
BY UnitsOfFinite, FS_CardinalityType, Zenon DEF Total

(* The total over no elements is 0. *)
LEMMA TotalEmpty ==
  ASSUME NEW f
  PROVE  Total(f, {}) = 0
<1>1. UnitsOf(f, {}) = {}
  BY DEF UnitsOf
<1> QED
  BY <1>1, FS_EmptySet DEF Total

(* An element that joins a set adds its amount to the total. *)
LEMMA TotalAdd ==
  ASSUME NEW f, NEW S, NEW x, IsFiniteSet(S), x \notin S,
         \A y \in S \cup {x} : f[y] \in Nat
  PROVE  Total(f, S \cup {x}) = Total(f, S) + f[x]
<1> DEFINE U == UnitsOf(f, S)
           V == Units(f, x)
<1>1. IsFiniteSet(U)
  BY UnitsOfFinite
<1>2. IsFiniteSet(V) /\ Cardinality(V) = f[x]
  BY UnitsCount
<1>3. U \cap V = {}
  BY UnitsDisjoint
<1>4. Cardinality(U \cup V) = Cardinality(U) + Cardinality(V) - Cardinality(U \cap V)
  BY <1>1, <1>2, FS_Union, Zenon
<1>5. Cardinality(U \cap V) = 0
  BY <1>3, FS_EmptySet
<1>6. Cardinality(U) \in Nat
  BY <1>1, FS_CardinalityType, Zenon
<1>7. Total(f, S \cup {x}) = Cardinality(U \cup V)
  BY UnitsOfAdd DEF Total
<1>8. Total(f, S) = Cardinality(U)
  BY DEF Total
<1> HIDE DEF U, V
<1> QED
  BY <1>2, <1>4, <1>5, <1>6, <1>7, <1>8

(* An element that leaves a set takes its amount from the total. *)
LEMMA TotalRemove ==
  ASSUME NEW f, NEW S, NEW x \in S, IsFiniteSet(S), \A y \in S : f[y] \in Nat
  PROVE  Total(f, S \ {x}) = Total(f, S) - f[x]
<1> DEFINE R == S \ {x}
<1>1. IsFiniteSet(R)
  BY FS_RemoveElement
<1>2. R \cup {x} = S /\ x \notin R
  OBVIOUS
<1> HIDE DEF R
<1>3. Total(f, R \cup {x}) = Total(f, R) + f[x]
  BY <1>1, <1>2, TotalAdd
<1>4. Total(f, R) \in Nat
  BY <1>1, <1>2, TotalType
<1>5. Total(f, S) = Total(f, R) + f[x]
  BY <1>2, <1>3, Zenon
<1>6. f[x] \in Nat
  OBVIOUS
<1>7. Total(f, R) = Total(f, S) - f[x]
  BY <1>4, <1>5, <1>6
<1> QED
  BY <1>7 DEF R

(* A total grows with the set. *)
LEMMA TotalSubset ==
  ASSUME NEW f, NEW T, NEW S \in SUBSET T, IsFiniteSet(T), \A x \in T : f[x] \in Nat
  PROVE  Total(f, S) <= Total(f, T)
<1>1. IsFiniteSet(UnitsOf(f, T))
  BY UnitsOfFinite
<1>2. UnitsOf(f, S) \in SUBSET UnitsOf(f, T)
  BY DEF UnitsOf
<1>3. Cardinality(UnitsOf(f, S)) <= Cardinality(UnitsOf(f, T))
  BY <1>1, <1>2, FS_Subset, Zenon
<1> QED
  BY <1>3 DEF Total

(* A total depends only on the amounts of the elements it ranges over. *)
LEMMA TotalSame ==
  ASSUME NEW f, NEW g, NEW S, \A x \in S : f[x] = g[x]
  PROVE  Total(f, S) = Total(g, S)
<1>1. UnitsOf(f, S) = UnitsOf(g, S)
  BY DEF UnitsOf, Units
<1> QED
  BY <1>1 DEF Total

(* Changing the amount of one element changes the total by the difference. *)
LEMMA TotalUpdate ==
  ASSUME NEW S, NEW f, NEW g, NEW x \in S, IsFiniteSet(S),
         \A y \in S : f[y] \in Nat /\ g[y] \in Nat,
         \A y \in S \ {x} : g[y] = f[y]
  PROVE  Total(g, S) = Total(f, S) - f[x] + g[x]
<1> DEFINE R == S \ {x}
<1>1. Total(f, R) = Total(f, S) - f[x]
  BY TotalRemove
<1>2. Total(g, R) = Total(g, S) - g[x]
  BY TotalRemove
<1>3. Total(g, R) = Total(f, R)
  BY TotalSame
<1>4. Total(g, S) \in Nat /\ Total(f, S) \in Nat /\ f[x] \in Nat /\ g[x] \in Nat
  BY TotalType
<1> HIDE DEF R
<1> QED
  BY <1>1, <1>2, <1>3, <1>4

(* An element's amount is at most the total over a set it belongs to. *)
LEMMA TotalElement ==
  ASSUME NEW f, NEW S, NEW x \in S, IsFiniteSet(S), \A y \in S : f[y] \in Nat
  PROVE  f[x] <= Total(f, S)
<1>1. Total(f, S \ {x}) = Total(f, S) - f[x]
  BY TotalRemove
<1>2. Total(f, S \ {x}) \in Nat
  <2>1. IsFiniteSet(S \ {x})
    BY FS_RemoveElement
  <2> QED
    BY <2>1, TotalType
<1>3. Total(f, S) \in Nat /\ f[x] \in Nat
  BY TotalType
<1> QED
  BY <1>1, <1>2, <1>3

-----------------------------------------------------------------------------
(* What the units of a set are. *)
LEMMA UnitsAre ==
  ASSUME NEW f, NEW S
  PROVE  /\ \A u \in UnitsOf(f, S) : /\ u = <<u[1], u[2]>> /\ u[1] \in S
                                     /\ u[2] \in 1 .. f[u[1]]
         /\ \A x \in S : \A n \in 1 .. f[x] : <<x, n>> \in UnitsOf(f, S)
BY DEF UnitsOf, Units

(* Sets have as many elements as each other when one is mapped to the other *)
(* one to one. *)
LEMMA OneToOne ==
  ASSUME NEW S, NEW T, IsFiniteSet(T), NEW b \in [S -> T],
         \A x, y \in S : b[x] = b[y] => x = y,
         \A t \in T : \E x \in S : b[x] = t
  PROVE  Cardinality(S) = Cardinality(T)
<1>1. b \in Injection(S, T)
  BY DEF Injection, IsInjective
<1>2. b \in Surjection(S, T)
  BY DEF Surjection
<1> QED
  BY <1>1, <1>2, FS_Injection, Zenon

(* The total of a sum is the sum of the totals. *)
LEMMA TotalPlus ==
  ASSUME NEW f, NEW g, NEW h, NEW S, IsFiniteSet(S),
         \A x \in S : f[x] \in Nat /\ g[x] \in Nat /\ h[x] = f[x] + g[x]
  PROVE  Total(h, S) = Total(f, S) + Total(g, S)
<1> DEFINE U == UnitsOf(f, S)
           W == UnitsOf(h, S)
           V == {u \in W : u[2] > f[u[1]]}
           b == [u \in UnitsOf(g, S) |-> <<u[1], u[2] + f[u[1]]>>]
<1>1. \A x \in S : h[x] \in Nat
  OBVIOUS
<1>2. IsFiniteSet(W) /\ IsFiniteSet(U)
  BY <1>1, UnitsOfFinite
<1>3. IsFiniteSet(V)
  BY <1>2, FS_Subset
<1>4. b \in [UnitsOf(g, S) -> V]
  <2> SUFFICES ASSUME NEW u \in UnitsOf(g, S)
               PROVE  <<u[1], u[2] + f[u[1]]>> \in V
    OBVIOUS
  <2>1. u[1] \in S /\ u[2] \in 1 .. g[u[1]]
    BY UnitsAre
  <2>2. u[2] + f[u[1]] \in 1 .. h[u[1]] /\ u[2] + f[u[1]] > f[u[1]]
    BY <2>1
  <2> HIDE DEF W
  <2>3. <<u[1], u[2] + f[u[1]]>> \in W
    BY <2>1, <2>2, UnitsAre DEF W
  <2> QED
    BY <2>2, <2>3
<1>5. \A u, v \in UnitsOf(g, S) : b[u] = b[v] => u = v
  <2> SUFFICES ASSUME NEW u \in UnitsOf(g, S), NEW v \in UnitsOf(g, S), b[u] = b[v]
               PROVE  u = v
    OBVIOUS
  <2>1. u[1] = v[1] /\ u[2] + f[u[1]] = v[2] + f[v[1]]
    OBVIOUS
  <2>2. /\ u = <<u[1], u[2]>> /\ v = <<v[1], v[2]>> /\ u[1] \in S
        /\ u[2] \in 1 .. g[u[1]] /\ v[2] \in 1 .. g[v[1]]
    BY UnitsAre
  <2>3. u[2] = v[2]
    BY <2>1, <2>2
  <2> QED
    BY <2>1, <2>2, <2>3
<1>6. \A t \in V : \E u \in UnitsOf(g, S) : b[u] = t
  <2> SUFFICES ASSUME NEW t \in V PROVE \E u \in UnitsOf(g, S) : b[u] = t
    OBVIOUS
  <2>1. t = <<t[1], t[2]>> /\ t[1] \in S /\ t[2] \in 1 .. h[t[1]] /\ t[2] > f[t[1]]
    BY UnitsAre
  <2> DEFINE n == t[2] - f[t[1]]
  <2>2. n \in 1 .. g[t[1]] /\ n + f[t[1]] = t[2]
    BY <2>1
  <2> HIDE DEF n
  <2>3. <<t[1], n>> \in UnitsOf(g, S)
    BY <2>1, <2>2, UnitsAre
  <2>4. b[<<t[1], n>>] = <<t[1], n + f[t[1]]>>
    BY <2>3
  <2> QED
    BY <2>1, <2>2, <2>3, <2>4
<1>7. Cardinality(UnitsOf(g, S)) = Cardinality(V)
  <2> HIDE DEF b, V
  <2> QED
    BY <1>3, <1>4, <1>5, <1>6, OneToOne
<1>8. U \cup V = W /\ U \cap V = {}
  <2>1. U \subseteq W
    <3> SUFFICES ASSUME NEW u \in U PROVE u \in W
      OBVIOUS
    <3>1. u = <<u[1], u[2]>> /\ u[1] \in S /\ u[2] \in 1 .. f[u[1]]
      BY UnitsAre
    <3>2. u[2] \in 1 .. h[u[1]]
      BY <3>1
    <3> QED
      BY <3>1, <3>2, UnitsAre
  <2>2. W \ V \subseteq U
    <3> SUFFICES ASSUME NEW u \in W, ~(u[2] > f[u[1]]) PROVE u \in U
      OBVIOUS
    <3>1. u = <<u[1], u[2]>> /\ u[1] \in S /\ u[2] \in 1 .. h[u[1]]
      BY UnitsAre
    <3>2. u[2] \in 1 .. f[u[1]]
      BY <3>1
    <3> QED
      BY <3>1, <3>2, UnitsAre
  <2>3. \A u \in U : ~(u[2] > f[u[1]])
    <3> SUFFICES ASSUME NEW u \in U PROVE ~(u[2] > f[u[1]])
      OBVIOUS
    <3>1. u[1] \in S /\ u[2] \in 1 .. f[u[1]]
      BY UnitsAre
    <3> QED
      BY <3>1
  <2> HIDE DEF U, W
  <2> QED
    BY <2>1, <2>2, <2>3
<1>9. Cardinality(U \cup V) = Cardinality(U) + Cardinality(V) - Cardinality(U \cap V)
  BY <1>2, <1>3, FS_Union, Zenon
<1>10. Cardinality(U \cap V) = 0 /\ Cardinality(U) \in Nat /\ Cardinality(V) \in Nat
  <2> HIDE DEF U, V
  <2> QED
    BY <1>2, <1>3, <1>8, FS_EmptySet, FS_CardinalityType
<1>11. Total(h, S) = Cardinality(W) /\ Total(f, S) = Cardinality(U)
       /\ Total(g, S) = Cardinality(UnitsOf(g, S))
  BY DEF Total
<1> HIDE DEF U, V, W
<1>12. Cardinality(W) = Cardinality(U) + Cardinality(V) - Cardinality(U \cap V)
  BY <1>8, <1>9, Zenon
<1> QED
  BY <1>7, <1>10, <1>11, <1>12

(* The elements of a set that have a given key. *)
Keyed(k, S, a) == {x \in S : k[x] = a}

(* What a finite set has of each key adds up to its cardinality. *)
LEMMA TotalOfKeys ==
  ASSUME NEW g, NEW U, NEW K, NEW k, IsFiniteSet(U), \A u \in U : k[u] \in K,
         \A a \in K : g[a] = Cardinality(Keyed(k, U, a))
  PROVE  Total(g, K) = Cardinality(U)
<1> DEFINE Numbered(a) == CHOOSE c : c \in Bijection(1 .. g[a], Keyed(k, U, a))
           b == [v \in UnitsOf(g, K) |-> Numbered(v[1])[v[2]]]
<1>1. ASSUME NEW a \in K
      PROVE  Numbered(a) \in Bijection(1 .. g[a], Keyed(k, U, a))
  <2>1. IsFiniteSet(Keyed(k, U, a))
    BY FS_Subset DEF Keyed
  <2>2. ExistsBijection(1 .. g[a], Keyed(k, U, a))
    BY <2>1, FS_CardinalityType, Zenon
  <2>3. \E c : c \in Bijection(1 .. g[a], Keyed(k, U, a))
    BY <2>2 DEF ExistsBijection
  <2> QED
    BY <2>3
<1> HIDE DEF Numbered
<1>2. ASSUME NEW v \in UnitsOf(g, K)
      PROVE  /\ v = <<v[1], v[2]>> /\ v[1] \in K /\ v[2] \in 1 .. g[v[1]]
             /\ b[v] = Numbered(v[1])[v[2]]
             /\ b[v] \in U /\ k[b[v]] = v[1]
  <2>1. v = <<v[1], v[2]>> /\ v[1] \in K /\ v[2] \in 1 .. g[v[1]]
    BY UnitsAre
  <2>2. b[v] = Numbered(v[1])[v[2]]
    OBVIOUS
  <2>3. Numbered(v[1]) \in [1 .. g[v[1]] -> Keyed(k, U, v[1])]
    BY <2>1, <1>1 DEF Bijection, Injection
  <2>4. b[v] \in Keyed(k, U, v[1])
    BY <2>1, <2>2, <2>3
  <2> QED
    BY <2>1, <2>2, <2>4 DEF Keyed
<1>3. b \in [UnitsOf(g, K) -> U]
  BY <1>2
<1>4. \A v, w \in UnitsOf(g, K) : b[v] = b[w] => v = w
  <2> SUFFICES ASSUME NEW v \in UnitsOf(g, K), NEW w \in UnitsOf(g, K), b[v] = b[w]
               PROVE  v = w
    OBVIOUS
  <2> HIDE DEF b
  <2>1. v[1] \in K /\ v[2] \in 1 .. g[v[1]] /\ b[v] = Numbered(v[1])[v[2]] /\ k[b[v]] = v[1]
    BY <1>2
  <2>2. w[2] \in 1 .. g[w[1]] /\ b[w] = Numbered(w[1])[w[2]] /\ k[b[w]] = w[1]
    BY <1>2
  <2>3. v[1] = w[1] /\ v[1] \in K
    BY <2>1, <2>2
  <2>4. /\ v[2] \in 1 .. g[v[1]] /\ w[2] \in 1 .. g[v[1]]
        /\ Numbered(v[1])[v[2]] = Numbered(v[1])[w[2]]
    BY <2>1, <2>2, <2>3
  <2>5. v[2] = w[2]
    <3>1. Numbered(v[1]) \in Injection(1 .. g[v[1]], Keyed(k, U, v[1]))
      BY <2>3, <1>1 DEF Bijection
    <3>2. /\ Numbered(v[1]) \in [1 .. g[v[1]] -> Keyed(k, U, v[1])]
          /\ IsInjective(Numbered(v[1]))
      BY <3>1 DEF Injection
    <3>3. DOMAIN Numbered(v[1]) = 1 .. g[v[1]]
      BY <3>2
    <3> QED
      BY <2>4, <3>2, <3>3 DEF IsInjective
  <2> QED
    BY <2>3, <2>5, <1>2
<1>5. \A t \in U : \E v \in UnitsOf(g, K) : b[v] = t
  <2> SUFFICES ASSUME NEW t \in U PROVE \E v \in UnitsOf(g, K) : b[v] = t
    OBVIOUS
  <2> DEFINE a == k[t]
  <2>1. a \in K /\ t \in Keyed(k, U, a)
    BY DEF Keyed
  <2>2. PICK n \in 1 .. g[a] : Numbered(a)[n] = t
    BY <2>1, <1>1 DEF Bijection, Surjection
  <2>3. <<a, n>> \in UnitsOf(g, K)
    BY <2>1, <2>2, UnitsAre
  <2>4. b[<<a, n>>] = Numbered(a)[n]
    BY <2>3
  <2> QED
    BY <2>2, <2>3, <2>4
<1>6. Cardinality(UnitsOf(g, K)) = Cardinality(U)
  <2> HIDE DEF b
  <2> QED
    BY <1>3, <1>4, <1>5, OneToOne
<1> QED
  BY <1>6 DEF Total

(* A total is the total of its parts, whatever the elements are parted by. *)
LEMMA TotalPartition ==
  ASSUME NEW f, NEW g, NEW S, NEW K, NEW k, IsFiniteSet(S), \A x \in S : f[x] \in Nat /\ k[x] \in K,
         \A a \in K : g[a] = Total(f, Keyed(k, S, a))
  PROVE  Total(g, K) = Total(f, S)
<1> DEFINE U == UnitsOf(f, S)
           h == [u \in U |-> k[u[1]]]
<1>1. IsFiniteSet(U)
  BY UnitsOfFinite
<1>2. \A u \in U : h[u] \in K
  BY UnitsAre
<1>3. \A a \in K : g[a] = Cardinality(Keyed(h, U, a))
  <2> SUFFICES ASSUME NEW a \in K PROVE g[a] = Cardinality(Keyed(h, U, a))
    OBVIOUS
  <2>1. Keyed(h, U, a) \subseteq UnitsOf(f, Keyed(k, S, a))
    <3> SUFFICES ASSUME NEW u \in U, h[u] = a PROVE u \in UnitsOf(f, Keyed(k, S, a))
      BY DEF Keyed
    <3>1. u = <<u[1], u[2]>> /\ u[1] \in S /\ u[2] \in 1 .. f[u[1]] /\ k[u[1]] = a
      BY UnitsAre
    <3>2. u[1] \in Keyed(k, S, a)
      BY <3>1 DEF Keyed
    <3> QED
      BY <3>1, <3>2, UnitsAre
  <2>2. UnitsOf(f, Keyed(k, S, a)) \subseteq Keyed(h, U, a)
    <3> SUFFICES ASSUME NEW u \in UnitsOf(f, Keyed(k, S, a)) PROVE u \in Keyed(h, U, a)
      OBVIOUS
    <3>1. u = <<u[1], u[2]>> /\ u[1] \in Keyed(k, S, a) /\ u[2] \in 1 .. f[u[1]]
      BY UnitsAre
    <3>2. u[1] \in S /\ k[u[1]] = a
      BY <3>1 DEF Keyed
    <3>3. u \in U
      BY <3>1, <3>2, UnitsAre
    <3> QED
      BY <3>2, <3>3 DEF Keyed
  <2>3. Keyed(h, U, a) = UnitsOf(f, Keyed(k, S, a))
    BY <2>1, <2>2
  <2> QED
    BY <2>3 DEF Total
<1> HIDE DEF U, h
<1>4. Total(g, K) = Cardinality(U)
  BY <1>1, <1>2, <1>3, TotalOfKeys
<1> QED
  BY <1>4 DEF Total, U

(* A total does not depend on the names of the elements. *)
LEMMA TotalRenamed ==
  ASSUME NEW f, NEW g, NEW S, NEW T, NEW b \in [S -> T], IsFiniteSet(T),
         \A y \in T : g[y] \in Nat,
         \A x, y \in S : b[x] = b[y] => x = y,
         \A t \in T : \E x \in S : b[x] = t,
         \A x \in S : f[x] = g[b[x]]
  PROVE  Total(f, S) = Total(g, T)
<1> DEFINE c == [u \in UnitsOf(f, S) |-> <<b[u[1]], u[2]>>]
<1>1. IsFiniteSet(UnitsOf(g, T))
  BY UnitsOfFinite
<1>2. c \in [UnitsOf(f, S) -> UnitsOf(g, T)]
  <2> SUFFICES ASSUME NEW u \in UnitsOf(f, S) PROVE <<b[u[1]], u[2]>> \in UnitsOf(g, T)
    OBVIOUS
  <2>1. u[1] \in S /\ u[2] \in 1 .. f[u[1]]
    BY UnitsAre
  <2>2. b[u[1]] \in T /\ u[2] \in 1 .. g[b[u[1]]]
    BY <2>1
  <2> QED
    BY <2>2, UnitsAre
<1>3. \A u, v \in UnitsOf(f, S) : c[u] = c[v] => u = v
  <2> SUFFICES ASSUME NEW u \in UnitsOf(f, S), NEW v \in UnitsOf(f, S), c[u] = c[v] PROVE u = v
    OBVIOUS
  <2>1. b[u[1]] = b[v[1]] /\ u[2] = v[2]
    OBVIOUS
  <2>2. u = <<u[1], u[2]>> /\ v = <<v[1], v[2]>> /\ u[1] \in S /\ v[1] \in S
    BY UnitsAre
  <2>3. u[1] = v[1]
    BY <2>1, <2>2
  <2> QED
    BY <2>1, <2>2, <2>3
<1>4. \A t \in UnitsOf(g, T) : \E u \in UnitsOf(f, S) : c[u] = t
  <2> SUFFICES ASSUME NEW t \in UnitsOf(g, T) PROVE \E u \in UnitsOf(f, S) : c[u] = t
    OBVIOUS
  <2>1. t = <<t[1], t[2]>> /\ t[1] \in T /\ t[2] \in 1 .. g[t[1]]
    BY UnitsAre
  <2>2. PICK x \in S : b[x] = t[1]
    BY <2>1
  <2>3. <<x, t[2]>> \in UnitsOf(f, S)
    BY <2>1, <2>2, UnitsAre
  <2>4. c[<<x, t[2]>>] = <<b[x], t[2]>>
    BY <2>3
  <2> QED
    BY <2>1, <2>2, <2>3, <2>4
<1>5. Cardinality(UnitsOf(f, S)) = Cardinality(UnitsOf(g, T))
  <2> HIDE DEF c
  <2> QED
    BY <1>1, <1>2, <1>3, <1>4, OneToOne
<1> QED
  BY <1>5 DEF Total

(* The total over two sets that share nothing. *)
LEMMA TotalUnion ==
  ASSUME NEW f, NEW S, NEW T, IsFiniteSet(S), IsFiniteSet(T), S \cap T = {},
         \A x \in S \cup T : f[x] \in Nat
  PROVE  Total(f, S \cup T) = Total(f, S) + Total(f, T)
<1> DEFINE U == UnitsOf(f, S)
           V == UnitsOf(f, T)
<1>1. IsFiniteSet(U) /\ IsFiniteSet(V)
  BY UnitsOfFinite
<1>2. UnitsOf(f, S \cup T) = U \cup V
  BY DEF UnitsOf
<1>3. U \cap V = {}
  <2> SUFFICES ASSUME NEW u \in U, u \in V PROVE FALSE
    OBVIOUS
  <2>1. u[1] \in S /\ u[1] \in T
    BY UnitsAre
  <2> QED
    BY <2>1
<1> HIDE DEF U, V
<1>4. Cardinality(U \cup V) = Cardinality(U) + Cardinality(V) - Cardinality(U \cap V)
  BY <1>1, FS_Union, Zenon
<1>5. Cardinality(U \cap V) = 0 /\ Cardinality(U) \in Nat /\ Cardinality(V) \in Nat
  BY <1>1, <1>3, FS_EmptySet, FS_CardinalityType
<1>6. Total(f, S) = Cardinality(U) /\ Total(f, T) = Cardinality(V)
  BY DEF Total, U, V
<1>7. Total(f, S \cup T) = Cardinality(U \cup V)
  BY <1>2 DEF Total
<1> QED
  BY <1>4, <1>5, <1>6, <1>7

(* Elements of no amount do not count. *)
LEMMA TotalPositive ==
  ASSUME NEW f, NEW S, NEW T \in SUBSET S, \A x \in S : f[x] \in Nat,
         \A x \in S \ T : f[x] = 0
  PROVE  Total(f, S) = Total(f, T)
<1>1. UnitsOf(f, S) \subseteq UnitsOf(f, T)
  <2> SUFFICES ASSUME NEW u \in UnitsOf(f, S) PROVE u \in UnitsOf(f, T)
    OBVIOUS
  <2>1. u = <<u[1], u[2]>> /\ u[1] \in S /\ u[2] \in 1 .. f[u[1]]
    BY UnitsAre
  <2>2. u[1] \in T
    BY <2>1
  <2> QED
    BY <2>1, <2>2, UnitsAre
<1>2. UnitsOf(f, T) \subseteq UnitsOf(f, S)
  BY DEF UnitsOf
<1> QED
  BY <1>1, <1>2 DEF Total

(* Where each amount is at most another, so is the total. *)
LEMMA TotalMonotone ==
  ASSUME NEW f, NEW g, NEW S, IsFiniteSet(S),
         \A x \in S : f[x] \in Nat /\ g[x] \in Nat /\ f[x] <= g[x]
  PROVE  Total(f, S) <= Total(g, S)
<1>1. IsFiniteSet(UnitsOf(g, S))
  BY UnitsOfFinite
<1>2. UnitsOf(f, S) \in SUBSET UnitsOf(g, S)
  <2> SUFFICES ASSUME NEW u \in UnitsOf(f, S) PROVE u \in UnitsOf(g, S)
    OBVIOUS
  <2>1. u = <<u[1], u[2]>> /\ u[1] \in S /\ u[2] \in 1 .. f[u[1]]
    BY UnitsAre
  <2>2. u[2] \in 1 .. g[u[1]]
    BY <2>1
  <2> QED
    BY <2>1, <2>2, UnitsAre
<1> QED
  BY <1>1, <1>2, FS_Subset, Zenon DEF Total
=============================================================================
