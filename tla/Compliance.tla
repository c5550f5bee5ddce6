------------------------------ MODULE Compliance ------------------------------
(***************************************************************************)
(* The compliance decision as ComplianceGateway wires it: DecisionEngine   *)
(* with AmlEngine and VelocityEngine, FraudEngine, SanctionsEngine,        *)
(* WalletScreeningEngine over BlockchainAnalyzer, RiskEngine,              *)
(* AiDecisionService with FeatureStoreManager, FraudPredictionEngine and   *)
(* RecommendationEngine, and RuleEngine.                                   *)
(*                                                                         *)
(* Evaluations share nothing but the registries of watchlists, analytics   *)
(* providers and rules, to which an operator adds between any two awaits.  *)
(* What a list or a provider answers is part of the request.  Scores are   *)
(* whole numbers and probabilities percents; every rounding of the code is *)
(* to the nearest, half up.                                                *)
(***************************************************************************)
EXTENDS Integers, FiniteSets, Sequences

CONSTANTS
  Requests,    \* calls of evaluate
  Inputs,      \* [amount, country, lists, wallet, features, aiUp]
  ListCount,   \* watchlists there are to register
  Analysts,    \* analytics providers there are to register
  Rules,       \* rules there are to register
  Absent

(* RuleCondition and Rule of the rule engine.                               *)
WellFormed(rule) ==
  /\ rule.logic \in {"AND", "OR", "NOT"} /\ rule.enabled \in BOOLEAN
  /\ rule.action \in {"FLAG", "BLOCK", "REVIEW", "APPROVE"}
  /\ \A i \in DOMAIN rule.conditions : rule.conditions[i].operator \in
       {"gt", "lt", "gte", "lte", "eq", "neq", "in", "not_in"}

SanctionsStatus == {"CLEAR", "MATCH", "PARTIAL_MATCH", "REVIEW", "BLOCK"}
Decisions == {"APPROVED", "REJECTED", "MANUAL_REVIEW"}

(* What evaluate reads of a request: the gateway passes it on unchanged.    *)
(* With it goes what each list and each analytics provider will answer.     *)
IsRequest(r) ==
  /\ DOMAIN r = {"amount", "country", "lists", "wallet", "features", "aiUp"}
  /\ r.amount \in Nat /\ r.aiUp \in BOOLEAN
  /\ r.lists \in Seq(SanctionsStatus) /\ Len(r.lists) >= ListCount
  /\ r.wallet = Absent \/ (r.wallet \in Seq(0..100) /\ Len(r.wallet) >= Analysts)

ASSUME ComplianceAssumption ==
  /\ ListCount \in Nat /\ Analysts \in Nat /\ Absent \notin Decisions
  /\ \A rule \in Rules : WellFormed(rule)
  /\ \A r \in Inputs : IsRequest(r)

VARIABLES
  request,     \* what each call was given
  lists,       \* how many watchlists are registered, in their order
  analysts,    \* how many analytics providers are registered
  rules,       \* rules that are registered
  stage,       \* where each evaluation is
  found        \* what each evaluation has found

compliance == <<request, lists, analysts, rules, stage, found>>

Nothing == [aml |-> 0, fraud |-> 0, fraudDecision |-> "APPROVE", first |-> 0, list |-> 1,
            sanctions |-> "CLEAR", wallet |-> 0, risk |-> 0, ai |-> Absent,
            rules |-> {}, decision |-> Absent]

FraudRiskScore == {0, 30, 60, 90}
FraudDecisions == {"APPROVE", "REVIEW", "REJECT"}
AmlRiskScore == {0, 50, 80}
AiDecisionResult ==
  [score : 0..100, probability : 0..100,
   recommendation : {"APPROVE", "REJECT", "MANUAL_REVIEW", "REQUEST_DOCUMENTS",
                     "ENHANCED_DUE_DILIGENCE", "FREEZE_WALLET"}]

Stages == {"aml", "fraud", "sanctions", "wallet", "risk", "ai", "decide", "done"}
Finding ==
  [aml : AmlRiskScore, fraud : FraudRiskScore, fraudDecision : FraudDecisions, first : Nat,
   list : Nat, sanctions : SanctionsStatus, wallet : 0..100, risk : 0..100,
   ai : AiDecisionResult \cup {Absent}, rules : SUBSET Rules, decision : Decisions \cup {Absent}]

ComplianceTypeOK ==
  /\ request \in [Requests -> Inputs]
  /\ lists \in 0..ListCount /\ analysts \in 0..Analysts /\ rules \subseteq Rules
  /\ stage \in [Requests -> Stages] /\ found \in [Requests -> Finding]
  /\ \A r \in Requests : (stage[r] = "done") = (found[r].decision \in Decisions)

ComplianceInit ==
  /\ request \in [Requests -> Inputs]
  /\ lists = 0 /\ analysts = 0 /\ rules = {}
  /\ stage = [r \in Requests |-> "aml"]
  /\ found = [r \in Requests |-> Nothing]

Rounded(n, d) == (2 * n + d) \div (2 * d)
Greater(a, b) == IF a > b THEN a ELSE b

-----------------------------------------------------------------------------
(* The engines.                                                            *)

(* checkVelocity: a limit on the single amount.                             *)
WithinVelocity(amount) == amount <= 10000

AmlScore(amount) ==
  (IF amount > 9000 /\ amount < 10000 THEN 50 ELSE 0)
    + (IF WithinVelocity(amount) THEN 0 ELSE 80)

FraudScore(amount, country) ==
  (IF country = "HIGH_RISK_COUNTRY" THEN 60 ELSE 0) + (IF amount > 50000 THEN 30 ELSE 0)

FraudDecision(score) ==
  IF score > 80 THEN "REJECT" ELSE IF score > 50 THEN "REVIEW" ELSE "APPROVE"

(* analyze: of the providers' answers the one with the highest score, and   *)
(* the first of several; no provider, no risk.                              *)
WalletScore(answers) ==
  IF answers = <<>> THEN 0
  ELSE CHOOSE s \in {answers[i] : i \in DOMAIN answers} : \A i \in DOMAIN answers : answers[i] <= s

(* calculateRisk with the customer, provider and corridor risks that the    *)
(* decision engine passes: 50, 20 and 30 with weights .2, .1 and .1.        *)
Composite(wallet, fraud, aml) == Rounded(150 + 2 * wallet + 2 * fraud + 2 * aml, 10)

RiskDecision(score) ==
  IF score >= 90 THEN "REJECT" ELSE IF score >= 70 THEN "MANUAL_REVIEW" ELSE "APPROVE"

(* predict, in percent, from the features that stand out; an account that   *)
(* is not known counts as a day old.                                        *)
FraudProbability(features) ==
  LET weight == [volume |-> 20, velocity |-> 30, countries |-> 15, devices |-> 20, age |-> 10]
      chosen == [f \in DOMAIN weight |-> IF f \in features THEN weight[f] ELSE 0]
      sum == 5 + chosen.volume + chosen.velocity + chosen.countries + chosen.devices + chosen.age
  IN  IF sum > 100 THEN 100 ELSE sum

(* The floating-point sums that come out above the percents they stand for:  *)
(* .05 + .2 + .3 + .15 exceeds .7.                                          *)
RoundedUp == {{"volume", "velocity", "countries"}, {"volume", "countries", "devices", "age"},
              {"volume", "velocity", "countries", "devices"}}

Exceeds(features, percent) ==
  \/ FraudProbability(features) > percent
  \/ FraudProbability(features) = percent /\ features \in RoundedUp

AdaptiveRisk(risk, probability) == Rounded(7 * risk + 3 * probability, 10)

Recommendation(score, features) ==
  CASE Exceeds(features, 90) \/ score >= 95 -> "FREEZE_WALLET"
    [] Exceeds(features, 70) \/ score >= 80 -> "REJECT"
    [] score >= 70 -> "ENHANCED_DUE_DILIGENCE"
    [] score >= 50 -> "REQUEST_DOCUMENTS"
    [] score >= 40 -> "MANUAL_REVIEW"
    [] OTHER -> "APPROVE"

(* evaluateContext: the enabled rules whose conditions match.               *)
Matches(condition, context) ==
  LET value == context[condition.field]
  IN  CASE condition.operator = "gt" -> value > condition.value
        [] condition.operator = "lt" -> value < condition.value
        [] condition.operator = "gte" -> value >= condition.value
        [] condition.operator = "lte" -> value <= condition.value
        [] condition.operator = "eq" -> value = condition.value
        [] condition.operator = "neq" -> value # condition.value
        [] condition.operator = "in" -> value \in condition.value
        [] condition.operator = "not_in" -> value \notin condition.value

Triggered(registered, context) ==
  {rule \in registered :
     /\ rule.enabled
     /\ LET match(i) == Matches(rule.conditions[i], context)
        IN  CASE rule.logic = "AND" -> \A i \in DOMAIN rule.conditions : match(i)
              [] rule.logic = "OR" -> \E i \in DOMAIN rule.conditions : match(i)
              [] rule.logic = "NOT" -> ~match(1)}

-----------------------------------------------------------------------------
(* The decision, from what was found and what the AI layer said.           *)

(* The scores the rules see: the AI's score replaces the composite one, and *)
(* its probability can only raise the fraud score.                          *)
Context(f, sent, ai) ==
  [amount |-> sent.amount, senderCountry |-> sent.country, amlScore |-> f.aml,
   fraudScore |-> IF ai = Absent THEN f.fraud ELSE Greater(f.fraud, ai.probability),
   riskScore |-> IF ai = Absent THEN f.risk ELSE ai.score]

(* Two recommendations reject and two ask for a review; the others,         *)
(* REQUEST_DOCUMENTS among them, leave the composite verdict.               *)
Verdict(f, ai) ==
  CASE ai # Absent /\ ai.recommendation \in {"REJECT", "FREEZE_WALLET"} -> "REJECT"
    [] ai # Absent /\ ai.recommendation \in {"MANUAL_REVIEW", "ENHANCED_DUE_DILIGENCE"} ->
         "MANUAL_REVIEW"
    [] OTHER -> RiskDecision(f.risk)

DecideAsAdvised(f, sent, registered, ai) ==
  CASE f.sanctions \in {"BLOCK", "MATCH"} -> "REJECTED"
    [] Verdict(f, ai) = "REJECT" -> "REJECTED"
    [] Verdict(f, ai) = "MANUAL_REVIEW" -> "MANUAL_REVIEW"
    [] ai = Absent /\ (f.aml >= 80 \/ f.fraudDecision = "REJECT") -> "REJECTED"
    [] ai = Absent /\ f.fraudDecision = "REVIEW" -> "MANUAL_REVIEW"
    [] OTHER -> "APPROVED"

Decide(f, sent, registered, ai) ==
  LET review == \E rule \in Triggered(registered, Context(f, sent, ai)) : rule.action = "REVIEW"
  IN  CASE f.sanctions \in {"BLOCK", "MATCH"} -> "REJECTED"
        [] f.sanctions \notin {"BLOCK", "MATCH"}
             /\ (Verdict(f, ai) = "REJECT" \/ f.aml >= 80 \/ f.fraudDecision = "REJECT") ->
             "REJECTED"
        [] OTHER -> IF Verdict(f, ai) = "MANUAL_REVIEW" \/ f.fraudDecision = "REVIEW" \/ review
                    THEN "MANUAL_REVIEW" ELSE "APPROVED"

-----------------------------------------------------------------------------
(* DecisionEngine.evaluate, await by await.                                *)

Step(r, from, to, f) ==
  /\ stage[r] = from
  /\ stage' = [stage EXCEPT ![r] = to]
  /\ found' = [found EXCEPT ![r] = f]
  /\ UNCHANGED <<request, lists, analysts, rules>>

CheckAml(r) ==
  Step(r, "aml", "fraud", [found[r] EXCEPT !.aml = AmlScore(request[r].amount)])

CheckFraud(r) ==
  LET score == FraudScore(request[r].amount, request[r].country)
  IN  Step(r, "fraud", "sanctions",
           [found[r] EXCEPT !.fraud = score, !.fraudDecision = FraudDecision(score),
                            !.first = lists])

Hit(status) == status \in {"BLOCK", "MATCH"}

ScreenFirstOnly(r) ==
  LET i == found[r].list
  IN  \/ /\ i <= lists
         /\ Step(r, "sanctions", "wallet", [found[r] EXCEPT !.sanctions = request[r].lists[i]])
      \/ i > lists /\ Step(r, "sanctions", "wallet", found[r])

(* One list of the loop, or its end: a hit ends it, any other answer is     *)
(* forgotten.  The loop runs over the live registry.                        *)
ScreenSanctions(r) ==
  LET i == found[r].list
  IN  \/ /\ i <= lists /\ Hit(request[r].lists[i])
         /\ Step(r, "sanctions", "wallet", [found[r] EXCEPT !.sanctions = request[r].lists[i]])
      \/ /\ i <= lists /\ ~Hit(request[r].lists[i])
         /\ Step(r, "sanctions", "sanctions", [found[r] EXCEPT !.list = i + 1])
      \/ i > lists /\ Step(r, "sanctions", "wallet", found[r])

(* screenWallet: whether it passed is evidence, only its score counts.      *)
Screened(wallet) == WalletScore(SubSeq(wallet, 1, analysts))

(* Only when the request has an address.                                    *)
ScreenWallet(r) ==
  LET wallet == request[r].wallet
  IN  Step(r, "wallet", "risk",
           [found[r] EXCEPT !.wallet = IF wallet = Absent THEN 0 ELSE Screened(wallet)])

CalculateRisk(r) ==
  LET f == found[r]
  IN  Step(r, "risk", "ai", [f EXCEPT !.risk = Composite(f.wallet, f.fraud, f.aml)])

(* evaluateAiContext.                                                       *)
Advice(risk, features) ==
  LET score == AdaptiveRisk(risk, FraudProbability(features))
  IN  [score |-> score, probability |-> FraudProbability(features),
       recommendation |-> Recommendation(score, features)]

(* Whatever the AI layer throws is caught and its advice left out.          *)
AskAi(r) ==
  Step(r, "ai", "decide",
       [found[r] EXCEPT !.ai =
          IF request[r].aiUp THEN Advice(found[r].risk, request[r].features) ELSE Absent])

Conclude(r) ==
  Step(r, "decide", "done",
       [found[r] EXCEPT !.rules = rules,
          !.decision = Decide(found[r], request[r], rules, found[r].ai)])

(* What is registered while evaluations run: a list, an analytics provider, *)
(* a rule.                                                                  *)
RegisterList ==
  /\ lists < ListCount /\ lists' = lists + 1
  /\ UNCHANGED <<request, analysts, rules, stage, found>>

RegisterAnalyst ==
  /\ analysts < Analysts /\ analysts' = analysts + 1
  /\ UNCHANGED <<request, lists, rules, stage, found>>

RegisterRule ==
  /\ \E rule \in Rules \ rules : rules' = rules \cup {rule}
  /\ UNCHANGED <<request, lists, analysts, stage, found>>

ComplianceNext ==
  \/ RegisterList \/ RegisterAnalyst \/ RegisterRule
  \/ \E r \in Requests :
       \/ CheckAml(r) \/ CheckFraud(r) \/ ScreenSanctions(r) \/ ScreenWallet(r)
       \/ CalculateRisk(r) \/ AskAi(r) \/ Conclude(r)

ComplianceSpec == ComplianceInit /\ [][ComplianceNext]_compliance

-----------------------------------------------------------------------------
(* Who is approved was on none of the lists that were registered when its   *)
(* screening began, wherever in their order the hit was, and broke no       *)
(* velocity limit, whatever the AI recommended.                             *)
ApprovedWasScreened ==
  /\ ComplianceTypeOK
  /\ \A r \in Requests : found[r].decision = "APPROVED" =>
       /\ \A i \in 1..found[r].first : ~Hit(request[r].lists[i])
       /\ WithinVelocity(request[r].amount)

Severity(decision) == CASE decision = "APPROVED" -> 0 [] decision = "MANUAL_REVIEW" -> 1
                        [] decision = "REJECTED" -> 2

(* The AI layer is a second opinion: its decision is never lighter than the *)
(* one without it, unless its score silenced a rule that would have asked   *)
(* for a review.                                                            *)
AiNeverLightens ==
  \A r \in Requests : stage[r] = "done" =>
    LET f == found[r]
        alone == Triggered(f.rules, Context(f, request[r], Absent))
        advised == Triggered(f.rules, Context(f, request[r], f.ai))
    IN  \/ Severity(f.decision)
             >= Severity(Decide(f, request[r], f.rules, Absent))
        \/ \E rule \in alone \ advised : rule.action = "REVIEW"

=============================================================================
