----------------------------- MODULE RoutePlanning -----------------------------
(***************************************************************************)
(* Routes and providers of the packages: ProviderRegistry, RouteGenerator, *)
(* SimulationEngine and RouteOptimizer plan a route, ProviderRouter picks  *)
(* one provider, ProviderReputationEngine counts failures.                 *)
(*                                                                         *)
(* A planner calls the first four as tests/integration does: it generates  *)
(* the routes, simulates all of them at a time, each with an await for the *)
(* quote of every hop, and ranks the results.  Meanwhile providers are     *)
(* registered, again or anew, and quotes and capabilities change.          *)
(***************************************************************************)
EXTENDS Integers, FiniteSets, SequencesExt

CONSTANTS
  Catalogue,     \* what can be registered under each id: a set of provider objects
  Countries,     \* the two countries of the payment
  Principal,     \* its amount, in dollars
  MaxRegistered, \* bound on the registrations
  Fleet,         \* the ids that ProviderRouter knows, in order
  Capable,       \* the capabilities each of them may report
  Asked,         \* requests to ProviderRouter: [amount, corridor, policy]
  Failing        \* ids whose failures are recorded

ProviderIds == DOMAIN Catalogue

(* A provider object: its type, its countries and its quote, with the fees *)
(* in thousandths of a dollar and the time in milliseconds.                *)
IsProvider(o) ==
  /\ o.type \in {"blockchain", "bank", "internal", "mobile_money"}
  /\ {o.fees, o.timeMs} \subseteq Nat /\ o.compliance \in {"pass", "review", "fail"}

(* What a provider of the router reports, its success rate per thousand.   *)
IsCapability(c) ==
  /\ c.health \in {"HEALTHY", "DEGRADED", "DOWN"}
  /\ {c.minimumAmount, c.maximumAmount, c.currentCapacity, c.currentLiquidity,
      c.averageLatencyMs, c.successRate, c.priority} \subseteq Nat

ProviderReputation == [availability : 0..100, failures : Nat, healthy : BOOLEAN]

(* An id is no null reference.                                             *)
ASSUME PlanningAssumption ==
  /\ Principal \in Nat /\ MaxRegistered \in Nat
  /\ \A id \in ProviderIds : \A o \in Catalogue[id] : IsProvider(o)
  /\ Fleet \in Seq(DOMAIN Capable) /\ "null" \notin ToSet(Fleet)
  /\ \A id \in ToSet(Fleet) : Capable[id] # {} /\ \A c \in Capable[id] : IsCapability(c)

VARIABLES
  registry,      \* the registered ids, in the order of the map
  object,        \* the object each id was last registered with
  registrations, \* how many there were
  candidates,    \* the routes, by their places in the list: sequences of provider ids
  quotes,        \* the quotes each route's simulation has received, hop by hop
  totals,        \* what each simulation has added up: [costUSD, timeMs]
  ranking,       \* the result of rankRoutes: [policy, order]; no policy, or it threw
  capability,    \* what each provider of the router reports now
  search,        \* the call of findBestProvider: [request, at, best, score, heard]
  reputation     \* what was recorded of each id, or of no id that is unknown

pvars == <<registry, object, registrations, candidates, quotes, totals, ranking, capability,
           search, reputation>>

plan == <<candidates, quotes, totals, ranking>>
registered == <<registry, object, registrations>>

Unranked == [policy |-> "none", order |-> <<>>]
NotSearching == [request |-> "none", at |-> 0, best |-> "null", score |-> -1, heard |-> <<>>]

(* Seeded for three providers; failures are those recorded since.          *)
Seeds == [InternalRail |-> 100, Solana_USDC |-> 98, SWIFT_Wire |-> 95]

PlanningInit ==
  /\ registry = <<>> /\ object = <<>> /\ registrations = 0
  /\ candidates = <<>> /\ quotes = <<>> /\ totals = <<>> /\ ranking = Unranked
  /\ capability = [id \in ToSet(Fleet) |-> CHOOSE c \in Capable[id] : TRUE]
  /\ search = NotSearching
  /\ reputation = [id \in DOMAIN Seeds |->
                     [availability |-> Seeds[id], failures |-> 0, healthy |-> TRUE]]

-----------------------------------------------------------------------------
(* ProviderRegistry: an id keeps its place when it is registered again.    *)

Register(id, o) ==
  /\ registrations < MaxRegistered /\ registrations' = registrations + 1
  /\ registry' = IF id \in ToSet(registry) THEN registry ELSE Append(registry, id)
  /\ object' = [i \in DOMAIN object \cup {id} |-> IF i = id THEN o ELSE object[i]]
  /\ UNCHANGED <<plan, capability, search, reputation>>

-----------------------------------------------------------------------------
(* RouteGenerator.  CorridorIntelligence is looked up and not used.        *)

OfTypes(types) == {n \in DOMAIN registry : object[registry[n]].type \in types}

DirectRoutes == {n \in DOMAIN registry : Countries \subseteq object[registry[n]].countries}

(* The direct route of the n-th provider has place n, the hybrid one of    *)
(* the n-th, if it is a chain, follows all of those, and the bridged route *)
(* is the last.                                                            *)
HybridRoutes == {Len(registry) + n : n \in OfTypes({"blockchain"})}

BridgedRoutes ==
  IF {"Base_USDC", "Solana_USDC", "Circle_CCTP"} \subseteq ToSet(registry)
  THEN {2 * Len(registry) + 1} ELSE {}

(* An internal provider takes the money in, and the first internal or bank *)
(* pays it out; without the former there are direct routes only.           *)
Routes ==
  LET first(types) == registry[Min(OfTypes(types))]
      onRamp == first({"internal"})
      offRamp == first({"internal", "bank"})
      hybrid == IF OfTypes({"internal"}) = {} THEN {} ELSE HybridRoutes
      bridged == IF OfTypes({"internal"}) = {} THEN {} ELSE BridgedRoutes
  IN  [n \in DirectRoutes \cup hybrid \cup bridged |->
         IF n \in DirectRoutes THEN <<registry[n]>>
         ELSE IF n \in hybrid THEN <<onRamp, registry[n - Len(registry)], offRamp>>
         ELSE <<onRamp, "Base_USDC", "Circle_CCTP", "Solana_USDC", offRamp>>]

(* What is planned next is planned after the ranking; there is a route.    *)
Idle == candidates = <<>> \/ ranking # Unranked

GenerateRoutes ==
  /\ Idle /\ Routes # <<>>
  /\ candidates' = Routes
  /\ quotes' = [i \in DOMAIN Routes |-> <<>>]
  /\ totals' = [i \in DOMAIN Routes |-> [costUSD |-> 0, timeMs |-> 0]]
  /\ ranking' = Unranked
  /\ UNCHANGED <<registered, capability, search, reputation>>

-----------------------------------------------------------------------------
(* SimulationEngine.simulate, one await at a time.                         *)

Failed(i) == quotes[i] # <<>> /\ Last(quotes[i]).compliance = "fail"
Simulated(i) == Failed(i) \/ Len(quotes[i]) = Len(candidates[i])

Viable(i) == ~Failed(i)

(* A quote that is refused for compliance ends the simulation.             *)
Add(sum, quote) ==
  IF quote.compliance = "fail" THEN sum
  ELSE [costUSD |-> sum.costUSD + quote.fees, timeMs |-> sum.timeMs + quote.timeMs]

(* The next hop is asked of whatever object its id has by now.  Nothing is *)
(* ever unregistered: every hop of a generated route is found.             *)
Simulate(i) ==
  /\ i \in DOMAIN candidates /\ ranking = Unranked /\ ~Simulated(i)
  /\ LET quote == object[candidates[i][Len(quotes[i]) + 1]]
     IN  /\ quotes' = [quotes EXCEPT ![i] = Append(@, quote)]
         /\ totals' = [totals EXCEPT ![i] = Add(@, quote)]
  /\ UNCHANGED <<registered, candidates, ranking, capability, search, reputation>>

TotalCost(i) == totals[i].costUSD
TotalTimeMs(i) == totals[i].timeMs

(* One percent is charged, in thousandths of a dollar.                     *)
ExpectedProfit(i) == 10 * Principal - TotalCost(i)

-----------------------------------------------------------------------------
(* RouteOptimizer.  Scores in thousandths of a point.                      *)

(* The cost itself, that is, the dearest first.                            *)
ScoreByCost(i, policy) ==
  IF ~Viable(i) THEN -1
  ELSE IF policy = "cheapest" THEN TotalCost(i) ELSE 100000 - TotalTimeMs(i)

Score(i, policy) ==
  IF ~Viable(i) THEN -1
  ELSE IF policy = "cheapest" THEN 100000 + ExpectedProfit(i)
  ELSE IF TotalTimeMs(i) > 100000 THEN 0 ELSE 100000 - TotalTimeMs(i)

(* The best score first; a stable sort.                                    *)
Before(i, j, policy) ==
  \/ Score(i, policy) > Score(j, policy)
  \/ Score(i, policy) = Score(j, policy) /\ i < j

Kept(policy) == {i \in DOMAIN candidates : Score(i, policy) >= 0}

(* The n-th has n - 1 others before it.                                    *)
Ranked(policy) ==
  [n \in 1 .. Cardinality(Kept(policy)) |->
     CHOOSE i \in Kept(policy) :
       Cardinality({j \in Kept(policy) : Before(j, i, policy)}) = n - 1]

(* Only two of the policies have a strategy; the others throw.             *)
RankRoutes(policy) ==
  /\ candidates # <<>> /\ ranking = Unranked /\ \A i \in DOMAIN candidates : Simulated(i)
  /\ ranking' = IF policy \in {"cheapest", "fastest"}
                THEN [policy |-> policy, order |-> Ranked(policy)]
                ELSE [Unranked EXCEPT !.policy = "threw"]
  /\ UNCHANGED <<registered, candidates, quotes, totals, capability, search, reputation>>

-----------------------------------------------------------------------------
(* ProviderRouter.findBestProvider, with an await for every provider.      *)

CapabilityChanges(id, c) ==
  /\ capability' = [capability EXCEPT ![id] = c]
  /\ UNCHANGED <<registered, plan, search, reputation>>

Eligible(c, r) ==
  /\ c.health = "HEALTHY" /\ r.corridor \in c.corridors
  /\ c.minimumAmount <= r.amount /\ r.amount <= c.maximumAmount
  /\ r.amount <= c.currentCapacity /\ r.amount <= c.currentLiquidity

RouterScore(c, policy) ==
  CASE policy = "FASTEST" -> 100000 - c.averageLatencyMs
    [] policy = "RELIABLE" -> c.successRate
    [] OTHER -> c.priority

FindBestProvider(r) ==
  /\ search.at = 0
  /\ search' = [NotSearching EXCEPT !.request = r, !.at = 1]
  /\ UNCHANGED <<registered, plan, capability, reputation>>

Consider(best, score, id, c, r) ==
  IF Eligible(c, r) /\ RouterScore(c, r.policy) > score
  THEN <<id, RouterScore(c, r.policy)>> ELSE <<best, score>>

GetCapabilities ==
  /\ search.at \in DOMAIN Fleet
  /\ LET id == Fleet[search.at]
         c == capability[id]
         kept == Consider(search.best, search.score, id, c, search.request)
     IN  search' = [search EXCEPT !.at = @ + 1, !.best = kept[1], !.score = kept[2],
                                  !.heard = Append(@, c)]
  /\ UNCHANGED <<registered, plan, capability, reputation>>

Found == search.at = Len(Fleet) + 1

UseProvider ==
  /\ Found /\ search' = NotSearching
  /\ UNCHANGED <<registered, plan, capability, reputation>>

-----------------------------------------------------------------------------
(* ProviderReputationEngine, which nothing that ranks a route asks: a      *)
(* route of a ruined provider is ranked as before.  Recording ends, for    *)
(* the model, when an availability has reached zero.                       *)

GetReputation(id) ==
  IF id \in DOMAIN reputation THEN reputation[id]
  ELSE [availability |-> 50, failures |-> 0, healthy |-> TRUE]

RecordFailure(id) ==
  LET rep == GetReputation(id)
      left == IF rep.availability > 10 THEN rep.availability - 10 ELSE 0
      now == [availability |-> left, failures |-> rep.failures + 1,
              healthy |-> rep.healthy /\ left >= 50]
  IN  /\ rep.availability > 0
      /\ reputation' = [i \in DOMAIN reputation \cup {id} |->
                          IF i = id THEN now ELSE reputation[i]]
      /\ UNCHANGED <<registered, plan, capability, search>>

PlannerNext ==
  \/ \E id \in ProviderIds : \E o \in Catalogue[id] : Register(id, o)
  \/ GenerateRoutes
  \/ \E i \in DOMAIN candidates : Simulate(i)
  \/ \E policy \in {"cheapest", "fastest", "safest"} : RankRoutes(policy)

RouterNext ==
  \/ \E id \in ToSet(Fleet) : \E c \in Capable[id] : CapabilityChanges(id, c)
  \/ \E r \in Asked : FindBestProvider(r)
  \/ GetCapabilities \/ UseProvider

ReputationNext == \E id \in Failing : RecordFailure(id)

(* A process that has all three; they share no state.                      *)
PlanningNext == PlannerNext \/ RouterNext \/ ReputationNext

PlanningSpec == PlanningInit /\ [][PlanningNext]_pvars

-----------------------------------------------------------------------------
(* Every ranked route had each of its hops quoted, and none refused for    *)
(* compliance; a route is left out only when a hop refused it or, of the   *)
(* cheapest, when it loses more than a hundred dollars; and the route that *)
(* is ranked first is as cheap, or as fast up to a hundred seconds, as any *)
(* other - however the simulations interleave with registrations.          *)
RankedWasQuoted ==
  ranking.policy \in {"cheapest", "fastest"} =>
    LET quoted == {i \in DOMAIN candidates : Len(quotes[i]) = Len(candidates[i])
                     /\ \A n \in DOMAIN quotes[i] : quotes[i][n].compliance # "fail"}
        ranked == ToSet(ranking.order)
        first == ranking.order[1]
    IN  /\ ranked \subseteq quoted
        /\ \A i \in quoted \ ranked :
             ranking.policy = "cheapest" /\ TotalCost(i) > 10 * Principal + 100000
        /\ \A i \in ranked :
             IF ranking.policy = "cheapest" THEN TotalCost(first) <= TotalCost(i)
             ELSE TotalTimeMs(first) <= TotalTimeMs(i) \/ TotalTimeMs(i) >= 100000

(* The provider found was able to carry the payment when it was asked, and *)
(* none that was able then was faster, more reliable or of a higher        *)
(* priority; none is found only when none was able, or all were slower     *)
(* than a hundred seconds.                                                 *)
BestOfThoseAsked ==
  Found =>
    LET policy == search.request.policy
        able == {i \in DOMAIN Fleet : Eligible(search.heard[i], search.request)}
        value(i) == RouterScore(search.heard[i], policy)
    IN  IF search.best = "null"
        THEN able # {} => policy = "FASTEST" /\ \A i \in able : value(i) < 0
        ELSE \E i \in able : Fleet[i] = search.best /\ \A j \in able : value(j) <= value(i)

(* A provider is taken for healthy exactly while its availability has not  *)
(* fallen under fifty, and it has lost ten points with every failure.      *)
ReputationFollowsFailures ==
  \A id \in DOMAIN reputation :
    LET rep == reputation[id]
        seed == IF id \in DOMAIN Seeds THEN Seeds[id] ELSE 50
    IN  /\ rep \in ProviderReputation /\ (rep.healthy <=> rep.availability >= 50)
        /\ rep.availability = 0 \/ rep.availability = seed - 10 * rep.failures

(* Routes and providers are judged by what was asked of them and what they  *)
(* were recorded to have done, and by nothing else.                        *)
ProvidersAreJudged == RankedWasQuoted /\ BestOfThoseAsked /\ ReputationFollowsFailures
=============================================================================
