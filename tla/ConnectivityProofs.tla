-------------------------- MODULE ConnectivityProofs --------------------------
(***************************************************************************)
(* Proofs about Connectivity, for any journeys, officers, amounts and      *)
(* limits, about RealProviders, for any remittances, and about Compliance, *)
(* for any evaluations, lists and rules.                                   *)
(*                                                                         *)
(* The journeys interleave at every call, but a call only writes its own   *)
(* journey's leg: what is said of one leg is disturbed by that journey's   *)
(* calls only.  The day's usage is the exception, which all of them share, *)
(* and there the invariant has to speak of the open evaluations too.       *)
(***************************************************************************)
EXTENDS Connectivity, RealProviders, Compliance, WellFoundedInduction, TLAPS

\* A confirmed funding collected the funds, and a quote that is still worth
\* something is of the journey's amount.
FundingIsTrue ==
  \A j \in Journeys : leg[j].funding = "FUNDING_CONFIRMED" => j \in funded

QuoteIsTrue ==
  \A j \in Journeys : leg[j].fx \in {"QUOTED", "LOCKED", "EXECUTED"} => leg[j].quoted = Amount[j] * Rate

\* A type that rejected did not also approve, and no type approves later twice.
OneDecisionPerType ==
  \A j \in Journeys : \A a, b \in approvals[j] : a.type = b.type => a = b

\* What was paid both types had approved.
PaidWasApproved == \A j \in Journeys : payout[j] # None => IsFullyApproved(j)

\* Uncontended, at most one evaluation is open, and the limit holds with it recorded.
OpenEvaluationFits ==
  ~contended =>
    /\ usage <= PerDay
    /\ \A j \in Journeys : leg[j].limit = "allowed" => usage + Amount[j] <= PerDay
    /\ \A j, k \in Journeys : leg[j].limit = "allowed" /\ leg[k].limit = "allowed" => j = k

JourneyInv ==
  /\ TypeOK /\ FundingIsTrue /\ QuoteIsTrue
  /\ OneDecisionPerType /\ PaidWasApproved /\ OpenEvaluationFits

-----------------------------------------------------------------------------
(* The smaller of two, of which the health monitor's counter is bounded. *)
LEMMA MinOfTwo ==
  ASSUME NEW a \in Int, NEW b \in Int
  PROVE  Min({a, b}) = IF a <= b THEN a ELSE b
<1>1. \E x \in {a, b} : \A y \in {a, b} : x <= y
  OBVIOUS
<1>2. /\ Min({a, b}) \in {a, b}
      /\ \A y \in {a, b} : Min({a, b}) <= y
  BY <1>1 DEF Min
<1> QED BY <1>2

(* A call sets one field of one journey's leg. *)
LEMMA SetsField ==
  ASSUME NEW j \in Journeys, NEW field \in {"limit", "funding", "fx", "settlement"}, NEW value,
         leg \in [Journeys -> Legs], Set(j, field, value),
         field = "limit" => value \in {"unchecked", "allowed", "refused", "recorded"},
         field = "funding" => value \in {"none", "FUNDING_CONFIRMED", "FUNDING_FAILED", "threw"},
         field = "fx" => value \in {"none", "QUOTED", "LOCKED", "EXECUTED", "threw"},
         field = "settlement" => value \in {"none", "COMPLETED", "FAILED", "UNKNOWN", "threw"}
  PROVE  /\ leg' \in [Journeys -> Legs]
         /\ \A k \in Journeys \ {j} : leg'[k] = leg[k]
         /\ leg'[j].limit = IF field = "limit" THEN value ELSE leg[j].limit
         /\ leg'[j].funding = IF field = "funding" THEN value ELSE leg[j].funding
         /\ leg'[j].fx = IF field = "fx" THEN value ELSE leg[j].fx
         /\ leg'[j].quoted = leg[j].quoted
<1>1. leg[j] \in Legs
  OBVIOUS
<1>2. CASE field = "limit"
  BY <1>1, <1>2 DEF Legs, Set
<1>3. CASE field = "funding"
  BY <1>1, <1>3 DEF Legs, Set
<1>4. CASE field = "fx"
  BY <1>1, <1>4 DEF Legs, Set
<1>5. CASE field = "settlement"
  BY <1>1, <1>5 DEF Legs, Set
<1> QED BY <1>2, <1>3, <1>4, <1>5

(* What does not touch approvals and payouts leaves what is said of them;
   what does not touch limits and usage, what is said of these. *)
LEMMA DecisionsStay ==
  ASSUME JourneyInv, UNCHANGED <<approvals, payout>>
  PROVE  (OneDecisionPerType /\ PaidWasApproved)'
BY DEF JourneyInv, OneDecisionPerType, PaidWasApproved, IsFullyApproved

LEMMA LimitsStay ==
  ASSUME JourneyInv, UNCHANGED <<usage, contended>>,
         \A j \in Journeys : leg'[j].limit = leg[j].limit
  PROVE  OpenEvaluationFits'
BY DEF JourneyInv, OpenEvaluationFits

LEMMA FundingStays ==
  ASSUME JourneyInv, UNCHANGED funded,
         \A j \in Journeys : leg'[j].funding = leg[j].funding
  PROVE  FundingIsTrue'
BY DEF JourneyInv, FundingIsTrue

LEMMA QuotesStay ==
  ASSUME JourneyInv,
         \A j \in Journeys : leg'[j].fx = leg[j].fx /\ leg'[j].quoted = leg[j].quoted
  PROVE  QuoteIsTrue'
BY DEF JourneyInv, QuoteIsTrue

LEMMA LegIsALeg ==
  ASSUME TypeOK
  PROVE  leg \in [Journeys -> Legs]
BY DEF TypeOK

-----------------------------------------------------------------------------
(* The actions. *)

LEMMA OperatorStep ==
  ASSUME JourneyInv, NEW c \in Connectors, Deactivate(c) \/ CheckHealth(c)
  PROVE  JourneyInv'
<1>1. UNCHANGED <<realMoney, usage, contended, approvals, leg, funded, payout>>
  BY DEF Deactivate, CheckHealth
<1>2. /\ TypeOK /\ connector[c] \in [environment : ConnectorEnvironment, status : ConnectorStatus]
      /\ failures \in [Connectors -> 0..FailuresToDegrade]
      /\ connector \in [Connectors -> [environment : ConnectorEnvironment, status : ConnectorStatus]]
  BY DEF JourneyInv, TypeOK
<1>3. connector' \in [Connectors -> [environment : ConnectorEnvironment, status : ConnectorStatus]]
  <2>1. ASSUME NEW s \in ConnectorStatus
        PROVE  [connector EXCEPT ![c].status = s]
                 \in [Connectors -> [environment : ConnectorEnvironment, status : ConnectorStatus]]
    BY <1>2
  <2>2. "DEGRADED" \in ConnectorStatus /\ "DEACTIVATED" \in ConnectorStatus
    BY DEF ConnectorStatus
  <2> QED BY <1>2, <2>1, <2>2 DEF Deactivate, CheckHealth
<1>4. failures' \in [Connectors -> 0..FailuresToDegrade]
  <2>1. CASE Deactivate(c)
    BY <1>2, <2>1 DEF Deactivate
  <2>2. CASE CheckHealth(c)
    <3>1. failures[c] \in 0..FailuresToDegrade /\ FailuresToDegrade \in Nat
      BY <1>2, ConnectivityAssumption
    <3>2. Min({failures[c] + 1, FailuresToDegrade}) \in 0..FailuresToDegrade
      BY <3>1, MinOfTwo
    <3> QED BY <1>2, <2>2, <3>1, <3>2 DEF CheckHealth
  <2> QED BY <2>1, <2>2
<1>5. TypeOK'
  BY <1>1, <1>2, <1>3, <1>4 DEF TypeOK
<1> QED BY <1>1, <1>5, DecisionsStay, LimitsStay, FundingStays, QuotesStay DEF JourneyInv

LEMMA EvaluateStep ==
  ASSUME JourneyInv, NEW j \in Journeys, Evaluate(j)
  PROVE  JourneyInv'
<1> DEFINE answer == IF WithinLimits(j) THEN "allowed" ELSE "refused"
<1>1. /\ UNCHANGED <<realMoney, connector, failures, usage, approvals, funded, payout>>
      /\ leg[j].limit = "unchecked" /\ Set(j, "limit", answer)
      /\ contended' = (contended \/ (WithinLimits(j) /\ \E k \in Journeys : leg[k].limit = "allowed"))
  BY DEF Evaluate
<1>2. /\ leg' \in [Journeys -> Legs] /\ leg'[j].limit = answer
      /\ \A k \in Journeys \ {j} : leg'[k] = leg[k]
      /\ leg'[j].funding = leg[j].funding /\ leg'[j].fx = leg[j].fx /\ leg'[j].quoted = leg[j].quoted
  BY <1>1, SetsField, LegIsALeg DEF JourneyInv
<1>3. TypeOK'
  BY <1>1, <1>2 DEF JourneyInv, TypeOK
<1>4. FundingIsTrue' /\ QuoteIsTrue'
  BY <1>1, <1>2, FundingStays, QuotesStay
<1>5. OpenEvaluationFits'
  <2> SUFFICES ASSUME ~contended' PROVE OpenEvaluationFits'
    BY DEF OpenEvaluationFits
  <2>1. ~contended /\ OpenEvaluationFits
    BY <1>1 DEF JourneyInv, TypeOK
  <2>2. CASE WithinLimits(j)
    <3>1. \A k \in Journeys : leg[k].limit # "allowed"
      BY <1>1, <2>2
    <3>2. \A k \in Journeys : leg'[k].limit = "allowed" => k = j
      BY <1>2, <3>1
    <3> QED BY <1>1, <2>1, <2>2, <3>2 DEF OpenEvaluationFits, WithinLimits
  <2>3. CASE ~WithinLimits(j)
    <3>1. \A k \in Journeys : leg'[k].limit = "allowed" => leg[k].limit = "allowed"
      BY <1>2, <2>3
    <3> QED BY <1>1, <2>1, <3>1 DEF OpenEvaluationFits
  <2> QED BY <2>2, <2>3
<1> QED BY <1>1, <1>3, <1>4, <1>5, DecisionsStay DEF JourneyInv

LEMMA RecordUsageStep ==
  ASSUME JourneyInv, NEW j \in Journeys, RecordUsage(j)
  PROVE  JourneyInv'
<1>1. /\ UNCHANGED <<realMoney, connector, failures, contended, approvals, funded, payout>>
      /\ leg[j].limit = "allowed" /\ Set(j, "limit", "recorded") /\ usage' = usage + Amount[j]
  BY DEF RecordUsage
<1>2. /\ leg' \in [Journeys -> Legs] /\ leg'[j].limit = "recorded"
      /\ \A k \in Journeys \ {j} : leg'[k] = leg[k]
      /\ leg'[j].funding = leg[j].funding /\ leg'[j].fx = leg[j].fx /\ leg'[j].quoted = leg[j].quoted
  BY <1>1, SetsField, LegIsALeg DEF JourneyInv
<1>3. usage' \in Nat
  BY <1>1, ConnectivityAssumption DEF JourneyInv, TypeOK
<1>4. TypeOK'
  BY <1>1, <1>2, <1>3 DEF JourneyInv, TypeOK
<1>5. FundingIsTrue' /\ QuoteIsTrue'
  BY <1>1, <1>2, FundingStays, QuotesStay
<1>6. OpenEvaluationFits'
  <2> SUFFICES ASSUME ~contended PROVE OpenEvaluationFits'
    BY <1>1 DEF OpenEvaluationFits
  <2>1. usage' <= PerDay
    BY <1>1 DEF JourneyInv, OpenEvaluationFits
  <2>2. \A k \in Journeys : leg'[k].limit # "allowed"
    BY <1>1, <1>2 DEF JourneyInv, OpenEvaluationFits
  <2> QED BY <2>1, <2>2 DEF OpenEvaluationFits
<1> QED BY <1>1, <1>4, <1>5, <1>6, DecisionsStay DEF JourneyInv

LEMMA SubmitApprovalStep ==
  ASSUME JourneyInv, NEW j \in Journeys, NEW a \in Approval, SubmitApproval(j, a)
  PROVE  JourneyInv'
<1>1. /\ UNCHANGED <<realMoney, connector, failures, usage, contended, leg, funded, payout>>
      /\ approvals' = [approvals EXCEPT ![j] = @ \cup {a}]
      /\ ~\E b \in approvals[j] : b.type = a.type
      /\ approvals \in [Journeys -> SUBSET Approval] /\ TypeOK
  BY DEF SubmitApproval, Admissible, JourneyInv, TypeOK
<1>2. /\ approvals' \in [Journeys -> SUBSET Approval] /\ approvals'[j] = approvals[j] \cup {a}
      /\ \A k \in Journeys \ {j} : approvals'[k] = approvals[k]
  BY <1>1
<1>3. TypeOK'
  BY <1>1, <1>2 DEF TypeOK
<1>4. OneDecisionPerType'
  <2>1. ASSUME NEW k \in Journeys, NEW b \in approvals'[k], NEW d \in approvals'[k], b.type = d.type
        PROVE  b = d
    <3>1. CASE k = j
      BY <1>1, <1>2, <2>1, <3>1 DEF JourneyInv, OneDecisionPerType
    <3>2. CASE k # j
      BY <1>2, <2>1, <3>2 DEF JourneyInv, OneDecisionPerType
    <3> QED BY <3>1, <3>2
  <2> QED BY <2>1 DEF OneDecisionPerType
<1>5. PaidWasApproved'
  <2>1. \A k \in Journeys : approvals[k] \subseteq approvals'[k]
    BY <1>2
  <2> QED BY <1>1, <2>1 DEF JourneyInv, PaidWasApproved, IsFullyApproved
<1> QED BY <1>1, <1>3, <1>4, <1>5, LimitsStay, FundingStays, QuotesStay DEF JourneyInv

LEMMA InitiateFundingStep ==
  ASSUME JourneyInv, NEW j \in Journeys, InitiateFunding(j)
  PROVE  JourneyInv'
<1>1. PICK status \in {"FUNDING_CONFIRMED", "FUNDING_FAILED", "threw"} :
        /\ Set(j, "funding", status)
        /\ funded' = IF status = "FUNDING_CONFIRMED" THEN funded \cup {j} ELSE funded
  BY DEF InitiateFunding
<1>2. UNCHANGED <<realMoney, connector, failures, usage, contended, approvals, payout>>
  BY DEF InitiateFunding
<1>3. /\ leg' \in [Journeys -> Legs] /\ leg'[j].funding = status
      /\ \A k \in Journeys \ {j} : leg'[k] = leg[k]
      /\ leg'[j].limit = leg[j].limit /\ leg'[j].fx = leg[j].fx /\ leg'[j].quoted = leg[j].quoted
  BY <1>1, SetsField, LegIsALeg DEF JourneyInv
<1>4. funded' \subseteq Journeys /\ funded \subseteq funded'
  BY <1>1 DEF JourneyInv, TypeOK
<1>5. TypeOK'
  BY <1>2, <1>3, <1>4 DEF JourneyInv, TypeOK
<1>6. FundingIsTrue'
  BY <1>1, <1>3, <1>4 DEF JourneyInv, FundingIsTrue
<1>7. OpenEvaluationFits' /\ QuoteIsTrue'
  BY <1>2, <1>3, LimitsStay, QuotesStay
<1> QED BY <1>2, <1>5, <1>6, <1>7, DecisionsStay DEF JourneyInv

LEMMA ConversionStep ==
  ASSUME JourneyInv, NEW j \in Journeys, Quote(j) \/ Lock(j) \/ Execute(j)
  PROVE  JourneyInv'
<1>1. UNCHANGED <<realMoney, connector, failures, usage, contended, approvals, funded, payout>>
  BY DEF Quote, Lock, Execute
<1>2. leg \in [Journeys -> Legs] /\ Amount[j] * Rate \in Nat
  BY ConnectivityAssumption DEF JourneyInv, TypeOK
<1>3. /\ leg' \in [Journeys -> Legs]
      /\ \A k \in Journeys \ {j} : leg'[k] = leg[k]
      /\ leg'[j].limit = leg[j].limit /\ leg'[j].funding = leg[j].funding
      /\ leg'[j].fx \in {"QUOTED", "LOCKED", "EXECUTED"} => leg'[j].quoted = Amount[j] * Rate
  <2>1. CASE leg' = [leg EXCEPT ![j].fx = "QUOTED", ![j].quoted = Amount[j] * Rate]
    <3>1. leg[j] \in Legs
      BY <1>2
    <3>2. [leg[j] EXCEPT !.fx = "QUOTED", !.quoted = Amount[j] * Rate] \in Legs
      BY <1>2, <3>1 DEF Legs
    <3>3. leg'[j] = [leg[j] EXCEPT !.fx = "QUOTED", !.quoted = Amount[j] * Rate]
      BY <1>2, <2>1
    <3>4. leg' \in [Journeys -> Legs] /\ \A k \in Journeys \ {j} : leg'[k] = leg[k]
      BY <1>2, <2>1, <3>2
    <3>5. leg'[j].limit = leg[j].limit /\ leg'[j].funding = leg[j].funding /\ leg'[j].quoted = Amount[j] * Rate
      BY <3>1, <3>3 DEF Legs
    <3> QED BY <3>4, <3>5
  <2>2. ASSUME NEW status \in {"LOCKED", "EXECUTED", "threw"}, Set(j, "fx", status),
               status # "threw" => leg[j].fx \in {"QUOTED", "LOCKED"}
        PROVE  /\ leg' \in [Journeys -> Legs]
               /\ \A k \in Journeys \ {j} : leg'[k] = leg[k]
               /\ leg'[j].limit = leg[j].limit /\ leg'[j].funding = leg[j].funding
               /\ leg'[j].fx \in {"QUOTED", "LOCKED", "EXECUTED"} => leg'[j].quoted = Amount[j] * Rate
    BY <1>2, <2>2, SetsField DEF JourneyInv, QuoteIsTrue
  <2> QED BY <2>1, <2>2 DEF Quote, Lock, Execute
<1>4. TypeOK'
  BY <1>1, <1>3 DEF JourneyInv, TypeOK
<1>5. QuoteIsTrue'
  BY <1>3 DEF JourneyInv, QuoteIsTrue
<1>6. OpenEvaluationFits' /\ FundingIsTrue'
  BY <1>1, <1>3, LimitsStay, FundingStays
<1> QED BY <1>1, <1>4, <1>5, <1>6, DecisionsStay DEF JourneyInv

LEMMA SettlementStep ==
  ASSUME JourneyInv, NEW j \in Journeys, InitiateSettlement(j) \/ GetSettlementStatus(j)
  PROVE  JourneyInv'
<1>1. UNCHANGED <<realMoney, connector, failures, usage, contended, approvals, funded>>
  BY DEF InitiateSettlement, GetSettlementStatus
<1>2. /\ leg' \in [Journeys -> Legs]
      /\ \A k \in Journeys : leg'[k].limit = leg[k].limit /\ leg'[k].funding = leg[k].funding
                              /\ leg'[k].fx = leg[k].fx /\ leg'[k].quoted = leg[k].quoted
  <2>1. PICK status \in {"COMPLETED", "FAILED", "UNKNOWN", "threw"} : Set(j, "settlement", status)
    BY DEF InitiateSettlement, GetSettlementStatus
  <2> QED BY <2>1, SetsField, LegIsALeg DEF JourneyInv
<1>3. /\ payout' \in [Journeys -> Nat \cup {None}]
      /\ \A k \in Journeys : payout'[k] # payout[k] => k = j /\ IsFullyApproved(j)
  BY ConnectivityAssumption DEF InitiateSettlement, GetSettlementStatus, JourneyInv, TypeOK
<1>4. TypeOK'
  BY <1>1, <1>2, <1>3 DEF JourneyInv, TypeOK
<1>5. OneDecisionPerType' /\ PaidWasApproved'
  BY <1>1, <1>3 DEF JourneyInv, OneDecisionPerType, PaidWasApproved, IsFullyApproved
<1> QED BY <1>1, <1>2, <1>4, <1>5, LimitsStay, FundingStays, QuotesStay DEF JourneyInv

LEMMA JourneyInitInv == Init => JourneyInv
<1> SUFFICES ASSUME Init PROVE JourneyInv
  OBVIOUS
<1>1. ASSUME NEW environment \in Environments
      PROVE  Constructed(environment) \in [environment : ConnectorEnvironment, status : ConnectorStatus]
  BY ConnectivityAssumption DEF Constructed, ConnectorStatus
<1>2. connector \in [Connectors -> [environment : ConnectorEnvironment, status : ConnectorStatus]]
  BY <1>1 DEF Init
<1>3. /\ leg \in [Journeys -> Legs]
      /\ \A j \in Journeys : leg[j].limit = "unchecked" /\ leg[j].funding = "none" /\ leg[j].fx = "none"
  BY DEF Init, Legs
<1>4. TypeOK
  <2>1. failures \in [Connectors -> 0..FailuresToDegrade]
    BY ConnectivityAssumption DEF Init
  <2>2. approvals \in [Journeys -> SUBSET Approval] /\ payout \in [Journeys -> Nat \cup {None}]
    BY DEF Init
  <2>3. realMoney \in BOOLEAN /\ usage \in Nat /\ contended \in BOOLEAN /\ funded \subseteq Journeys
    BY DEF Init
  <2> QED BY <1>2, <1>3, <2>1, <2>2, <2>3 DEF TypeOK
<1>5. FundingIsTrue /\ QuoteIsTrue
  BY <1>3 DEF FundingIsTrue, QuoteIsTrue
<1>6. OneDecisionPerType /\ PaidWasApproved
  BY DEF Init, OneDecisionPerType, PaidWasApproved
<1>7. OpenEvaluationFits
  BY <1>3, ConnectivityAssumption DEF Init, OpenEvaluationFits
<1> QED BY <1>4, <1>5, <1>6, <1>7 DEF JourneyInv

LEMMA JourneyInvStep == JourneyInv /\ [Next]_vars => JourneyInv'
<1> SUFFICES ASSUME JourneyInv, [Next]_vars PROVE JourneyInv'
  OBVIOUS
<1>1. CASE \E c \in Connectors : Deactivate(c) \/ CheckHealth(c)
  BY <1>1, OperatorStep
<1>2. ASSUME NEW j \in Journeys,
             \/ Evaluate(j) \/ RecordUsage(j) \/ \E a \in Approval : SubmitApproval(j, a)
             \/ InitiateFunding(j) \/ Quote(j) \/ Lock(j) \/ Execute(j)
             \/ InitiateSettlement(j) \/ GetSettlementStatus(j)
      PROVE  JourneyInv'
  BY <1>2, EvaluateStep, RecordUsageStep, SubmitApprovalStep, InitiateFundingStep, ConversionStep,
     SettlementStep
<1>3. CASE UNCHANGED vars
  <2>1. TypeOK'
    BY <1>3 DEF JourneyInv, TypeOK, vars
  <2> QED BY <1>3, <2>1, DecisionsStay, LimitsStay, FundingStays, QuotesStay DEF JourneyInv, vars
<1> QED BY <1>1, <1>2, <1>3 DEF Next

LEMMA JourneyInvariance == Spec => []JourneyInv
BY JourneyInitInv, JourneyInvStep, PTL DEF Spec

(* For any journeys, officers and amounts, however the calls of the journeys
   interleave and whatever the sandboxes answer: what the reconciliation
   reports as matched was funded, and was paid as it was quoted. *)
THEOREM MatchedIsPaid == Spec => []MatchedWasPaid
<1>1. JourneyInv => MatchedWasPaid
  BY DEF JourneyInv, FundingIsTrue, QuoteIsTrue, MatchedWasPaid, ReconcileTransaction
<1> QED BY <1>1, JourneyInvariance, PTL

(* A rejection and an approval of one type cannot both be submitted, so what
   was paid, which both types had approved, no one rejects, then or later. *)
THEOREM RejectedIsNeverPaid == Spec => []RejectedNeverPaid
<1>1. JourneyInv => RejectedNeverPaid
  <2> SUFFICES ASSUME JourneyInv, NEW j \in Journeys, IsRejected(j), payout[j] # None PROVE FALSE
    BY DEF RejectedNeverPaid
  <2>1. PICK a \in approvals[j] : a.decision = "REJECTED"
    BY DEF IsRejected
  <2>2. a.type \in {"MAKER", "CHECKER"}
    BY DEF JourneyInv, TypeOK, Approval
  <2>3. PICK b \in approvals[j] : b.type = a.type /\ b.decision = "APPROVED"
    BY <2>2 DEF JourneyInv, PaidWasApproved, IsFullyApproved
  <2> QED BY <2>1, <2>3 DEF JourneyInv, OneDecisionPerType
<1> QED BY <1>1, JourneyInvariance, PTL

(* The daily limit, whatever the amounts, as long as no two evaluations are
   open at a time: what an open evaluation will record still fits. *)
THEOREM DailyLimitIsKept == Spec => []DailyLimitKept
<1>1. JourneyInv => DailyLimitKept
  BY DEF JourneyInv, OpenEvaluationFits, DailyLimitKept
<1> QED BY <1>1, JourneyInvariance, PTL

-----------------------------------------------------------------------------
(* The real providers.  Each call of a remittance is guarded by what was last
   told of the one before, and what was told may be behind what stands at the
   provider, but never ahead of it. *)

\* What is paid out was converted, what was converted was deposited, and what was
\* deposited is of a customer whose check was clear.
ChainHolds(r) ==
  /\ payouts[r] <= 1
  /\ payouts[r] > 0 \/ r \in authorised \/ beneficiary[r] = "valid" => fx[r] = "EXECUTED"
  /\ fx[r] = "EXECUTED" => conversions[r] > 0
  /\ fx[r] # "none" \/ conversions[r] > 0 => funding[r] = "FUNDING_CONFIRMED"
  /\ funding[r] = "FUNDING_CONFIRMED" => account[r] = "processed"
  /\ account[r] = "processed" => r \in referenced
  /\ account[r] # "none" => identity[r] = "CLEAR"
  /\ identity[r] = "CLEAR" => check[r] = "clear"

\* In production nothing was opened before real money was enabled.
SwitchGuards ==
  /\ enabled => everEnabled
  /\ live /\ ~everEnabled => \A r \in Remittances : account[r] = "none"

ChainInv == RealTypeOK /\ SwitchGuards /\ \A r \in Remittances : ChainHolds(r)

LEMMA KycStep ==
  ASSUME ChainInv, NEW r \in Remittances,
         CreateApplicant(r) \/ CreateCheck(r) \/ CheckCompletes(r) \/ GetCheckStatus(r)
  PROVE  ChainInv'
<1>1. /\ UNCHANGED <<live, enabled, everEnabled, account, referenced, funding, session, fx,
                     conversions, beneficiary, authorised, payouts, outcome, told>>
      /\ RealTypeOK
  BY DEF CreateApplicant, CreateCheck, CheckCompletes, GetCheckStatus, ChainInv,
         switch, collection, conversion, settlement
<1>2. /\ check' \in [Remittances -> {"none", "applicant", "running", "clear", "consider"}]
      /\ \A q \in Remittances : check[q] = "clear" => check'[q] = "clear"
  BY <1>1 DEF CreateApplicant, CreateCheck, CheckCompletes, GetCheckStatus, RealTypeOK
<1>3. /\ identity' \in [Remittances -> {"none", "PENDING", "CLEAR", "CONSIDER"}]
      /\ \A q \in Remittances : identity'[q] = "CLEAR" => check'[q] = "clear"
      /\ \A q \in Remittances : identity[q] = "CLEAR" => identity'[q] = "CLEAR"
  <2>1. CASE identity' = identity
    BY <1>1, <1>2, <2>1 DEF ChainInv, ChainHolds, RealTypeOK
  <2>2. CASE GetCheckStatus(r)
    BY <1>1, <2>2 DEF GetCheckStatus, ApplicantStatus, ChainInv, ChainHolds, RealTypeOK
  <2> QED BY <2>1, <2>2 DEF CreateApplicant, CreateCheck, CheckCompletes
<1>4. RealTypeOK'
  BY <1>1, <1>2, <1>3 DEF RealTypeOK
<1>5. \A q \in Remittances : ChainHolds(q)'
  BY <1>1, <1>3 DEF ChainInv, ChainHolds
<1> QED BY <1>1, <1>4, <1>5 DEF ChainInv, SwitchGuards

LEMMA CollectionStep ==
  ASSUME ChainInv, NEW r \in Remittances, OpenAccount(r) \/ Deposit(r) \/ GetFundingStatus(r)
  PROVE  ChainInv'
<1>1. /\ UNCHANGED <<live, enabled, everEnabled, check, identity, session, fx,
                     conversions, beneficiary, authorised, payouts, outcome, told>>
      /\ RealTypeOK
  BY DEF OpenAccount, Deposit, GetFundingStatus, ChainInv, switch, kyc, conversion, settlement
<1>2. CASE OpenAccount(r)
  <2>1. /\ Uncollected(r) /\ ~Suspended
        /\ account' \in {account, [account EXCEPT ![r] = "open"]}
        /\ referenced' \in {referenced, referenced \cup {r}}
        /\ funding' \in {[funding EXCEPT ![r] = s] : s \in {"FUNDING_PENDING", "FUNDING_FAILED"}}
    BY <1>2 DEF OpenAccount
  <2>2. RealTypeOK'
    BY <1>1, <2>1 DEF RealTypeOK
  <2>3. ASSUME NEW q \in Remittances PROVE ChainHolds(q)'
    <3>1. ChainHolds(q)
      BY DEF ChainInv
    <3>2. CASE q = r
      BY <1>1, <2>1, <3>1, <3>2 DEF ChainHolds, RealTypeOK, Uncollected
    <3>3. CASE q # r
      <4>1. /\ account'[q] = account[q] /\ funding'[q] = funding[q]
            /\ q \in referenced' <=> q \in referenced
        BY <1>1, <2>1, <3>3 DEF RealTypeOK
      <4> QED BY <1>1, <3>1, <4>1 DEF ChainHolds
    <3> QED BY <3>2, <3>3
  <2>4. SwitchGuards'
    BY <1>1, <2>1 DEF ChainInv, SwitchGuards, Suspended
  <2> QED BY <2>2, <2>3, <2>4 DEF ChainInv
<1>3. CASE Deposit(r)
  <2>1. /\ UNCHANGED <<referenced, funding>> /\ r \in referenced /\ account[r] = "open"
        /\ account' = [account EXCEPT ![r] = "processed"]
    BY <1>3 DEF Deposit
  <2>2. RealTypeOK'
    BY <1>1, <2>1 DEF RealTypeOK
  <2>3. ASSUME NEW q \in Remittances PROVE ChainHolds(q)'
    BY <1>1, <2>1 DEF ChainInv, ChainHolds, RealTypeOK
  <2>4. SwitchGuards'
    BY <1>1, <2>1 DEF ChainInv, SwitchGuards
  <2> QED BY <2>2, <2>3, <2>4 DEF ChainInv
<1>4. CASE GetFundingStatus(r)
  <2>1. /\ UNCHANGED <<account, referenced>> /\ funding[r] # "FUNDING_CONFIRMED"
        /\ \E state \in {FundingState(r), "FUNDING_FAILED"} : funding' = [funding EXCEPT ![r] = state]
    BY <1>4 DEF GetFundingStatus
  <2>2. RealTypeOK'
    BY <1>1, <2>1 DEF RealTypeOK, FundingState
  <2>3. ASSUME NEW q \in Remittances PROVE ChainHolds(q)'
    BY <1>1, <2>1 DEF ChainInv, ChainHolds, RealTypeOK, FundingState
  <2>4. SwitchGuards'
    BY <1>1, <2>1 DEF ChainInv, SwitchGuards
  <2> QED BY <2>2, <2>3, <2>4 DEF ChainInv
<1> QED BY <1>2, <1>3, <1>4

LEMMA CurrencycloudStep ==
  ASSUME ChainInv,
         SessionExpires \/ CallThrows
           \/ \E r \in Remittances : GetQuote(r) \/ LockQuote(r) \/ CreateConversion(r)
  PROVE  ChainInv'
<1>1. /\ UNCHANGED <<live, enabled, everEnabled, check, identity, account, referenced, funding,
                     beneficiary, authorised, payouts, outcome, told>>
      /\ RealTypeOK /\ session' \in {"none", "valid", "expired"}
  BY DEF SessionExpires, CallThrows, GetQuote, LockQuote, CreateConversion, Authenticate,
         ChainInv, RealTypeOK, switch, kyc, collection, settlement
<1>2. /\ fx' \in [Remittances -> {"none", "QUOTED", "LOCKED", "EXECUTED"}]
      /\ conversions' \in [Remittances -> 0..MaxConversions]
      /\ \A q \in Remittances :
           /\ fx[q] = "EXECUTED" => fx'[q] = "EXECUTED"
           /\ fx'[q] = "EXECUTED" => conversions'[q] > 0
           /\ fx'[q] # "none" \/ conversions'[q] > 0 => funding[q] = "FUNDING_CONFIRMED"
  <2>1. CASE UNCHANGED <<fx, conversions>>
    BY <1>1, <2>1 DEF ChainInv, ChainHolds, RealTypeOK
  <2>2. ASSUME NEW r \in Remittances, GetQuote(r) \/ LockQuote(r)
        PROVE  <1>2
    BY <1>1, <2>2 DEF GetQuote, LockQuote, ChainInv, ChainHolds, RealTypeOK
  <2>3. ASSUME NEW r \in Remittances, CreateConversion(r)
        PROVE  <1>2
    <3>1. /\ fx[r] = "LOCKED" /\ conversions[r] \in 0..MaxConversions /\ conversions[r] < MaxConversions
          /\ conversions' = [conversions EXCEPT ![r] = conversions[r] + 1]
          /\ fx' \in {fx, [fx EXCEPT ![r] = "EXECUTED"]} /\ MaxConversions \in Nat
      BY <1>1, <2>3, RealAssumption DEF CreateConversion, RealTypeOK
    <3>2. conversions' \in [Remittances -> 0..MaxConversions] /\ conversions'[r] > 0
      BY <1>1, <3>1 DEF RealTypeOK
    <3> QED BY <1>1, <3>1, <3>2 DEF ChainInv, ChainHolds, RealTypeOK
  <2> QED BY <2>1, <2>2, <2>3 DEF SessionExpires, CallThrows
<1>3. RealTypeOK'
  BY <1>1, <1>2 DEF RealTypeOK
<1>4. ASSUME NEW q \in Remittances PROVE ChainHolds(q)'
  BY <1>1, <1>2 DEF ChainInv, ChainHolds
<1> QED BY <1>1, <1>3, <1>4 DEF ChainInv, SwitchGuards

LEMMA CashfreeStep ==
  ASSUME ChainInv, NEW r \in Remittances,
         \/ ValidateBeneficiary(r) \/ Authorise(r) \/ RequestTransfer(r)
         \/ TransferEnds(r) \/ GetTransferStatus(r)
  PROVE  ChainInv'
<1>1. /\ UNCHANGED <<live, enabled, everEnabled, check, identity, account, referenced, funding,
                     session, fx, conversions>>
      /\ RealTypeOK
  BY DEF ValidateBeneficiary, Authorise, RequestTransfer, TransferEnds, GetTransferStatus,
         ChainInv, switch, kyc, collection, conversion
<1>2. RealTypeOK' /\ \A q \in Remittances : ChainHolds(q)'
  <2>1. CASE ValidateBeneficiary(r)
    BY <1>1, <2>1 DEF ValidateBeneficiary, RealTypeOK, ChainInv, ChainHolds
  <2>2. CASE Authorise(r)
    BY <1>1, <2>2 DEF Authorise, RealTypeOK, ChainInv, ChainHolds
  <2>3. CASE RequestTransfer(r)
    <3>1. /\ r \in authorised /\ authorised' = authorised \ {r} /\ beneficiary' = beneficiary
          /\ \/ payouts[r] = 0 /\ payouts' = [payouts EXCEPT ![r] = @ + 1]
                /\ outcome' = [outcome EXCEPT ![r] = "open"]
             \/ UNCHANGED <<payouts, outcome>>
          /\ \E answer \in {"PROCESSING", "FAILED"} : told' = [told EXCEPT ![r] = answer]
      BY <2>3 DEF RequestTransfer, Accepted
    <3>2. RealTypeOK'
      BY <1>1, <3>1 DEF RealTypeOK
    <3>3. ASSUME NEW q \in Remittances PROVE ChainHolds(q)'
      <4>1. payouts'[q] \in {payouts[q]} \/ (q = r /\ payouts[q] = 0 /\ payouts'[q] = 1)
        BY <1>1, <3>1 DEF RealTypeOK
      <4> QED BY <1>1, <3>1, <4>1 DEF ChainInv, ChainHolds
    <3> QED BY <3>2, <3>3
  <2>4. CASE TransferEnds(r) \/ GetTransferStatus(r)
    BY <1>1, <2>4 DEF TransferEnds, GetTransferStatus, RealTypeOK, ChainInv, ChainHolds
  <2> QED BY <2>1, <2>2, <2>3, <2>4
<1> QED BY <1>1, <1>2 DEF ChainInv, SwitchGuards

LEMMA RealInitInv == RealInit => ChainInv
<1> SUFFICES ASSUME RealInit PROVE ChainInv
  OBVIOUS
<1>1. RealTypeOK
  BY RealAssumption DEF RealInit, RealTypeOK
<1>2. ASSUME NEW r \in Remittances PROVE ChainHolds(r)
  BY DEF RealInit, ChainHolds
<1> QED BY <1>1, <1>2 DEF RealInit, ChainInv, SwitchGuards

LEMMA RealInvStep == ChainInv /\ [RealNext]_rvars => ChainInv'
<1> SUFFICES ASSUME ChainInv, [RealNext]_rvars PROVE ChainInv'
  OBVIOUS
<1>1. CASE SwitchRealMoney
  BY <1>1 DEF SwitchRealMoney, ChainInv, SwitchGuards, RealTypeOK, ChainHolds,
              kyc, collection, conversion, settlement
<1>2. CASE UNCHANGED rvars
  BY <1>2 DEF rvars, ChainInv, SwitchGuards, RealTypeOK, ChainHolds,
              switch, kyc, collection, conversion, settlement
<1> QED BY <1>1, <1>2, KycStep, CollectionStep, CurrencycloudStep, CashfreeStep DEF RealNext

(* For any remittances and any number of repeated conversions, however the
   calls fail before or after they took effect and wherever the switch is
   turned: a remittance is paid out at most once, from a conversion of a
   deposit of a customer whose check was clear, and nothing moves in
   production before real money was enabled. *)
THEOREM RemittanceIsPaidOnce == RealSpec => []PaidOnceAndFunded
<1>1. ChainInv => PaidOnceAndFunded
  <2> SUFFICES ASSUME ChainInv, NEW r \in Remittances
               PROVE  /\ RealTypeOK /\ payouts[r] <= 1
                      /\ payouts[r] > 0 => account[r] = "processed" /\ check[r] = "clear" /\ conversions[r] > 0
                      /\ live /\ ~everEnabled => account[r] = "none" /\ conversions[r] = 0 /\ payouts[r] = 0
    BY DEF PaidOnceAndFunded, ChainInv
  <2>1. ChainHolds(r) /\ RealTypeOK /\ conversions[r] \in Nat /\ payouts[r] \in Nat
    BY RealAssumption DEF ChainInv, RealTypeOK
  <2> QED BY <2>1 DEF ChainInv, ChainHolds, SwitchGuards
<1> QED BY <1>1, RealInitInv, RealInvStep, PTL DEF RealSpec

-----------------------------------------------------------------------------
(* The compliance decision. *)

LEMMA LeastOfSet ==
  ASSUME NEW S, S \subseteq Nat, S # {}
  PROVE  \E x \in S : \A y \in S : x <= y
<1> DEFINE R == OpToRel(<, Nat)
<1>1. IsWellFoundedOn(R, Nat)
  BY NatLessThanWellFounded
<1>2. PICK x \in S : \A y \in S : ~(<<y, x>> \in R)
  <2> HIDE DEF R
  <2> QED
    BY <1>1, WFMin
<1>3. ASSUME NEW y \in S PROVE x <= y
  <2>1. y < x => <<y, x>> \in R
    BY DEF OpToRel
  <2>2. x \in Nat /\ y \in Nat
    OBVIOUS
  <2> HIDE DEF R
  <2> QED
    BY <1>2, <2>1, <2>2
<1> QED
  BY <1>3

LEMMA SeqElements ==
  ASSUME NEW V, NEW s \in Seq(V)
  PROVE  \A i \in DOMAIN s : s[i] \in V
OBVIOUS

(* The highest of the providers' scores is one of them, and a percent. *)
LEMMA WalletScoreType ==
  ASSUME NEW answers \in Seq(0..100)
  PROVE  WalletScore(answers) \in 0..100
<1>1. CASE answers = <<>>
  BY <1>1 DEF WalletScore
<1>2. CASE answers # <<>>
  <2> DEFINE S == {answers[i] : i \in DOMAIN answers}
             T == {100 - s : s \in S}
  <2>1. S \subseteq 0..100
    <3>1. \A i \in DOMAIN answers : answers[i] \in 0..100
      BY SeqElements
    <3> QED
      BY <3>1
  <2>2. answers[1] \in S /\ 100 - answers[1] \in T
    <3>1. 1 \in DOMAIN answers
      BY <1>2
    <3> QED
      BY <3>1
  <2>3. T \subseteq Nat
    <3> HIDE DEF S
    <3>1. \A s \in S : 100 - s \in Nat
      BY <2>1
    <3> QED
      BY <3>1
  <2> HIDE DEF T
  <2>4. PICK t \in T : \A u \in T : t <= u
    BY <2>2, <2>3, LeastOfSet
  <2> USE DEF T
  <2>5. PICK s \in S : t = 100 - s
    OBVIOUS
  <2>6. ASSUME NEW i \in DOMAIN answers PROVE answers[i] <= s
    <3>1. answers[i] \in S /\ 100 - answers[i] \in T
      OBVIOUS
    <3>2. s \in 0..100 /\ answers[i] \in 0..100 /\ t <= 100 - answers[i]
      BY <2>1, <2>4, <3>1
    <3>3. \A a, b \in 0..100 : 100 - b <= 100 - a => a <= b
      OBVIOUS
    <3> HIDE DEF S, T
    <3> QED
      BY <2>5, <3>2, <3>3
  <2>7. WalletScore(answers) \in S
    BY <1>2, <2>6 DEF WalletScore
  <2> QED
    BY <2>1, <2>7
<1> QED
  BY <1>1, <1>2

LEMMA ScoresType ==
  /\ \A amount \in Nat : AmlScore(amount) \in AmlRiskScore
  /\ \A amount \in Nat : \A country : FraudScore(amount, country) \in FraudRiskScore
  /\ \A score : FraudDecision(score) \in FraudDecisions
BY DEF AmlScore, AmlRiskScore, WithinVelocity, FraudScore, FraudRiskScore, FraudDecision, FraudDecisions

(* No wallet, fraud and AML score together reach the threshold of 70, from *)
(* which calculateRisk decides anything but APPROVE.                       *)
LEMMA CompositeIsLow ==
  ASSUME NEW wallet \in 0..100, NEW fraud \in FraudRiskScore, NEW aml \in AmlRiskScore
  PROVE  Composite(wallet, fraud, aml) \in 0..69
<1>1. fraud \in 0..90 /\ aml \in 0..80
  BY DEF FraudRiskScore, AmlRiskScore
<1>2. Composite(wallet, fraud, aml) = (2 * (150 + 2 * wallet + 2 * fraud + 2 * aml) + 10) \div 20
  BY DEF Composite, Rounded
<1> QED
  BY <1>1, <1>2

LEMMA ProbabilityType ==
  ASSUME NEW features
  PROVE  FraudProbability(features) \in 0..100
<1> DEFINE weight == [volume |-> 20, velocity |-> 30, countries |-> 15, devices |-> 20, age |-> 10]
           chosen == [f \in DOMAIN weight |-> IF f \in features THEN weight[f] ELSE 0]
           sum == 5 + chosen.volume + chosen.velocity + chosen.countries + chosen.devices + chosen.age
<1>1. chosen.volume \in Nat /\ chosen.velocity \in Nat /\ chosen.countries \in Nat /\ chosen.devices \in Nat /\ chosen.age \in Nat
  OBVIOUS
<1>2. sum \in Nat
  <2> HIDE DEF chosen
  <2> QED
    BY <1>1
<1>3. FraudProbability(features) = IF sum > 100 THEN 100 ELSE sum
  BY DEF FraudProbability
<1> HIDE DEF sum
<1> QED
  BY <1>2, <1>3

LEMMA AdviceType ==
  ASSUME NEW risk \in 0..100, NEW features
  PROVE  Advice(risk, features) \in AiDecisionResult
<1> DEFINE p == FraudProbability(features)
           score == AdaptiveRisk(risk, p)
<1>1. p \in 0..100
  BY ProbabilityType
<1> HIDE DEF p
<1>2. score \in 0..100
  BY <1>1 DEF AdaptiveRisk, Rounded
<1> HIDE DEF score
<1>3. Recommendation(score, features) \in {"APPROVE", "REJECT", "MANUAL_REVIEW", "REQUEST_DOCUMENTS",
                                           "ENHANCED_DUE_DILIGENCE", "FREEZE_WALLET"}
  BY DEF Recommendation
<1> QED
  BY <1>1, <1>2, <1>3 DEF Advice, AiDecisionResult, score, p

LEMMA DecideType ==
  ASSUME NEW f, NEW sent, NEW registered, NEW ai
  PROVE  Decide(f, sent, registered, ai) \in Decisions
BY DEF Decide, Decisions

(* What an evaluation has found, stage by stage. *)
FoundFacts(r) ==
  LET f == found[r]
      sent == request[r]
  IN  /\ f.list >= 1 /\ f.first <= lists /\ f.risk < 70
      /\ stage[r] # "aml" => f.aml = AmlScore(sent.amount)
      /\ \A i \in 1..f.list - 1 : i <= lists /\ ~Hit(sent.lists[i])
      /\ stage[r] \in {"aml", "fraud", "sanctions"} => f.sanctions = "CLEAR"
      /\ stage[r] \notin {"aml", "fraud", "sanctions"} => Hit(f.sanctions) \/ f.list > f.first
      /\ stage[r] = "done" => f.decision = Decide(f, sent, f.rules, f.ai)

ComplianceInv == ComplianceTypeOK /\ \A r \in Requests : FoundFacts(r)

\* A step of the evaluation r that leaves it f at a stage.
Leaves(r, f, to) ==
  /\ r \in Requests /\ f \in Finding /\ to \in Stages /\ (to = "done") = (f.decision \in Decisions)
  /\ stage' = [stage EXCEPT ![r] = to] /\ found' = [found EXCEPT ![r] = f]
  /\ request' = request /\ lists' = lists /\ analysts' = analysts /\ rules' = rules

(* What is left to show of a step: the facts of its own evaluation. *)
LEMMA StepKeepsFacts ==
  ASSUME ComplianceInv, NEW r, NEW f, NEW to, Leaves(r, f, to),
         LET sent == request[r]
         IN  /\ f.list >= 1 /\ f.first <= lists /\ f.risk < 70
             /\ to # "aml" => f.aml = AmlScore(sent.amount)
             /\ \A i \in 1..f.list - 1 : i <= lists /\ ~Hit(sent.lists[i])
             /\ to \in {"aml", "fraud", "sanctions"} => f.sanctions = "CLEAR"
             /\ to \notin {"aml", "fraud", "sanctions"} => Hit(f.sanctions) \/ f.list > f.first
             /\ to = "done" => f.decision = Decide(f, sent, f.rules, f.ai)
  PROVE  ComplianceInv'
<1> HIDE DEF Finding, Stages, Hit, Decide, AmlScore
<1>1. /\ stage' \in [Requests -> Stages] /\ found' \in [Requests -> Finding]
      /\ stage'[r] = to /\ found'[r] = f
      /\ \A s \in Requests : s # r => stage'[s] = stage[s] /\ found'[s] = found[s]
  BY DEF Leaves, ComplianceInv, ComplianceTypeOK
<1>2. ComplianceTypeOK'
  BY <1>1 DEF Leaves, ComplianceInv, ComplianceTypeOK
<1>3. ASSUME NEW s \in Requests PROVE FoundFacts(s)'
  <2>1. CASE s = r
    BY <1>1, <2>1 DEF FoundFacts, Leaves
  <2>2. CASE s # r
    <3>1. FoundFacts(s)
      BY DEF ComplianceInv
    <3> QED
      BY <1>1, <2>2, <3>1 DEF FoundFacts, Leaves
  <2> QED
    BY <2>1, <2>2
<1> QED
  BY <1>2, <1>3 DEF ComplianceInv

(* What every step may use of its evaluation. *)
LEMMA EvaluationType ==
  ASSUME ComplianceInv, NEW r \in Requests
  PROVE  /\ found[r] \in Finding /\ FoundFacts(r) /\ IsRequest(request[r])
         /\ stage[r] # "done" => found[r].decision \notin Decisions
         /\ lists \in 0..ListCount /\ analysts \in 0..Analysts /\ rules \subseteq Rules
BY ComplianceAssumption DEF ComplianceInv, ComplianceTypeOK

LEMMA CheckAmlStep ==
  ASSUME ComplianceInv, NEW r \in Requests, CheckAml(r)
  PROVE  ComplianceInv'
<1> DEFINE x == found[r]
           f == [x EXCEPT !.aml = AmlScore(request[r].amount)]
<1>1. stage[r] = "aml" /\ stage' = [stage EXCEPT ![r] = "fraud"] /\ found' = [found EXCEPT ![r] = f]
      /\ UNCHANGED <<request, lists, analysts, rules>>
  BY DEF CheckAml, Step
<1>2. x \in Finding /\ FoundFacts(r) /\ x.decision \notin Decisions
  BY <1>1, EvaluationType
<1>3. AmlScore(request[r].amount) \in AmlRiskScore
  BY EvaluationType, ScoresType DEF IsRequest
<1>4. /\ f \in Finding /\ f.aml = AmlScore(request[r].amount)
      /\ f.list = x.list /\ f.first = x.first /\ f.risk = x.risk /\ f.sanctions = x.sanctions
      /\ f.decision = x.decision
  BY <1>2, <1>3 DEF Finding
<1> HIDE DEF f
<1>5. Leaves(r, f, "fraud")
  BY <1>1, <1>2, <1>4 DEF Leaves, Stages
<1> QED
  BY <1>1, <1>2, <1>4, <1>5, StepKeepsFacts DEF FoundFacts

LEMMA CheckFraudStep ==
  ASSUME ComplianceInv, NEW r \in Requests, CheckFraud(r)
  PROVE  ComplianceInv'
<1> DEFINE x == found[r]
           score == FraudScore(request[r].amount, request[r].country)
           f == [x EXCEPT !.fraud = score, !.fraudDecision = FraudDecision(score), !.first = lists]
<1>1. stage[r] = "fraud" /\ stage' = [stage EXCEPT ![r] = "sanctions"] /\ found' = [found EXCEPT ![r] = f]
      /\ UNCHANGED <<request, lists, analysts, rules>>
  BY DEF CheckFraud, Step
<1>2. x \in Finding /\ FoundFacts(r) /\ x.decision \notin Decisions /\ lists \in Nat
  BY <1>1, EvaluationType
<1>3. score \in FraudRiskScore /\ FraudDecision(score) \in FraudDecisions
  BY EvaluationType, ScoresType DEF IsRequest
<1> HIDE DEF score
<1>4. /\ f \in Finding /\ f.aml = x.aml
      /\ f.list = x.list /\ f.first = lists /\ f.risk = x.risk /\ f.sanctions = x.sanctions
      /\ f.decision = x.decision
  BY <1>2, <1>3 DEF Finding
<1> HIDE DEF f
<1>5. Leaves(r, f, "sanctions")
  BY <1>1, <1>2, <1>4 DEF Leaves, Stages
<1> QED
  BY <1>1, <1>2, <1>4, <1>5, StepKeepsFacts DEF FoundFacts

LEMMA ScreenSanctionsStep ==
  ASSUME ComplianceInv, NEW r \in Requests, ScreenSanctions(r)
  PROVE  ComplianceInv'
<1> DEFINE x == found[r]
           i == x.list
           answer == request[r].lists[i]
<1>0. stage[r] = "sanctions" /\ UNCHANGED <<request, lists, analysts, rules>>
  BY DEF ScreenSanctions, Step
<1>1. /\ x \in Finding /\ FoundFacts(r) /\ x.decision \notin Decisions /\ lists \in Nat
      /\ i \in Nat /\ i >= 1 /\ x.first \in Nat
  BY <1>0, EvaluationType DEF Finding, FoundFacts
<1>2. CASE /\ i <= lists /\ Hit(answer)
           /\ stage' = [stage EXCEPT ![r] = "wallet"]
           /\ found' = [found EXCEPT ![r] = [x EXCEPT !.sanctions = answer]]
  <2> DEFINE f == [x EXCEPT !.sanctions = answer]
  <2>1. answer \in SanctionsStatus
    BY <1>2 DEF Hit, SanctionsStatus
  <2> HIDE DEF answer
  <2>2. /\ f \in Finding /\ f.aml = x.aml /\ f.list = x.list /\ f.first = x.first /\ f.risk = x.risk
        /\ f.sanctions = answer /\ f.decision = x.decision
    BY <1>1, <2>1 DEF Finding
  <2>3. found' = [found EXCEPT ![r] = f]
    BY <1>2
  <2> HIDE DEF f
  <2>4. Leaves(r, f, "wallet")
    <3>1. stage' = [stage EXCEPT ![r] = "wallet"] /\ f.decision \notin Decisions
      BY <1>1, <1>2, <2>2
    <3> HIDE DEF Finding, Decisions
    <3> QED
      BY <1>0, <2>2, <2>3, <3>1 DEF Leaves, Stages
  <2> QED
    BY <1>0, <1>1, <1>2, <2>2, <2>4, StepKeepsFacts DEF FoundFacts
<1>3. CASE /\ i <= lists /\ ~Hit(answer)
           /\ stage' = [stage EXCEPT ![r] = "sanctions"]
           /\ found' = [found EXCEPT ![r] = [x EXCEPT !.list = i + 1]]
  <2> DEFINE f == [x EXCEPT !.list = i + 1]
  <2>1. i + 1 \in Nat
    BY <1>1
  <2>2. /\ f \in Finding /\ f.aml = x.aml /\ f.list = i + 1 /\ f.first = x.first /\ f.risk = x.risk
        /\ f.sanctions = x.sanctions /\ f.decision = x.decision
    BY <1>1, <2>1 DEF Finding
  <2>3. found' = [found EXCEPT ![r] = f]
    BY <1>3
  <2> HIDE DEF f
  <2>4. Leaves(r, f, "sanctions")
    <3>1. stage' = [stage EXCEPT ![r] = "sanctions"] /\ f.decision \notin Decisions
      BY <1>1, <1>3, <2>2
    <3> HIDE DEF Finding, Decisions
    <3> QED
      BY <1>0, <2>2, <2>3, <3>1 DEF Leaves, Stages
  <2>5. \A j \in 1..f.list - 1 : j <= lists /\ ~Hit(request[r].lists[j])
    <3>1. \A j \in 1..f.list - 1 : j \in 1..i - 1 \/ j = i
      BY <1>1, <2>2
    <3> QED
      BY <1>1, <1>3, <3>1 DEF FoundFacts
  <2> HIDE DEF i
  <2> QED
    BY <1>0, <1>1, <2>1, <2>2, <2>4, <2>5, StepKeepsFacts DEF FoundFacts, i
<1>4. CASE i > lists /\ stage' = [stage EXCEPT ![r] = "wallet"] /\ found' = [found EXCEPT ![r] = x]
  <2>1. Leaves(r, x, "wallet")
    BY <1>0, <1>1, <1>4 DEF Leaves, Stages
  <2> QED
    BY <1>0, <1>1, <1>4, <2>1, StepKeepsFacts DEF FoundFacts
<1> QED
  BY <1>2, <1>3, <1>4 DEF ScreenSanctions, Step

LEMMA ScreenWalletStep ==
  ASSUME ComplianceInv, NEW r \in Requests, ScreenWallet(r)
  PROVE  ComplianceInv'
<1> DEFINE x == found[r]
           wallet == request[r].wallet
           score == IF wallet = Absent THEN 0 ELSE Screened(wallet)
           f == [x EXCEPT !.wallet = score]
<1>1. stage[r] = "wallet" /\ stage' = [stage EXCEPT ![r] = "risk"] /\ found' = [found EXCEPT ![r] = f]
      /\ UNCHANGED <<request, lists, analysts, rules>>
  BY DEF ScreenWallet, Step
<1>2. x \in Finding /\ FoundFacts(r) /\ x.decision \notin Decisions
  BY <1>1, EvaluationType
<1>3. score \in 0..100
  <2>1. CASE wallet = Absent
    BY <2>1
  <2>2. CASE wallet # Absent
    <3>1. wallet \in Seq(0..100) /\ analysts \in Nat /\ analysts <= Len(wallet)
      BY <2>2, EvaluationType, ComplianceAssumption DEF IsRequest
    <3>2. SubSeq(wallet, 1, analysts) \in Seq(0..100)
      <4> DEFINE V == 0..100
      <4>1. wallet \in Seq(V)
        BY <3>1
      <4> HIDE DEF V, wallet
      <4>2. SubSeq(wallet, 1, analysts) \in Seq(V)
        BY <3>1, <4>1
      <4> QED
        BY <4>2 DEF V
    <3>3. WalletScore(SubSeq(wallet, 1, analysts)) \in 0..100
      BY <3>2, WalletScoreType
    <3> QED
      BY <2>2, <3>3 DEF Screened
  <2> QED
    BY <2>1, <2>2
<1> HIDE DEF score
<1>4. /\ f \in Finding /\ f.aml = x.aml
      /\ f.list = x.list /\ f.first = x.first /\ f.risk = x.risk /\ f.sanctions = x.sanctions
      /\ f.decision = x.decision
  BY <1>2, <1>3 DEF Finding
<1> HIDE DEF f
<1>5. Leaves(r, f, "risk")
  BY <1>1, <1>2, <1>4 DEF Leaves, Stages
<1> QED
  BY <1>1, <1>2, <1>4, <1>5, StepKeepsFacts DEF FoundFacts

LEMMA CalculateRiskStep ==
  ASSUME ComplianceInv, NEW r \in Requests, CalculateRisk(r)
  PROVE  ComplianceInv'
<1> DEFINE x == found[r]
           score == Composite(x.wallet, x.fraud, x.aml)
           f == [x EXCEPT !.risk = score]
<1>1. stage[r] = "risk" /\ stage' = [stage EXCEPT ![r] = "ai"] /\ found' = [found EXCEPT ![r] = f]
      /\ UNCHANGED <<request, lists, analysts, rules>>
  BY DEF CalculateRisk, Step
<1>2. x \in Finding /\ FoundFacts(r) /\ x.decision \notin Decisions
  BY <1>1, EvaluationType
<1>3. score \in 0..69
  BY <1>2, CompositeIsLow DEF Finding
<1>4. score \in 0..100 /\ score < 70
  <2> HIDE DEF score
  <2> QED
    BY <1>3
<1> HIDE DEF score
<1>5. /\ f \in Finding /\ f.aml = x.aml
      /\ f.list = x.list /\ f.first = x.first /\ f.risk = score /\ f.sanctions = x.sanctions
      /\ f.decision = x.decision
  BY <1>2, <1>4 DEF Finding
<1> HIDE DEF f
<1>6. Leaves(r, f, "ai")
  BY <1>1, <1>2, <1>5 DEF Leaves, Stages
<1> QED
  BY <1>1, <1>2, <1>4, <1>5, <1>6, StepKeepsFacts DEF FoundFacts

LEMMA AskAiStep ==
  ASSUME ComplianceInv, NEW r \in Requests, AskAi(r)
  PROVE  ComplianceInv'
<1> DEFINE x == found[r]
           ai == IF request[r].aiUp THEN Advice(x.risk, request[r].features) ELSE Absent
           f == [x EXCEPT !.ai = ai]
<1>1. stage[r] = "ai" /\ stage' = [stage EXCEPT ![r] = "decide"] /\ found' = [found EXCEPT ![r] = f]
      /\ UNCHANGED <<request, lists, analysts, rules>>
  BY DEF AskAi, Step
<1>2. x \in Finding /\ FoundFacts(r) /\ x.decision \notin Decisions
  BY <1>1, EvaluationType
<1>3. ai \in AiDecisionResult \cup {Absent}
  BY <1>2, AdviceType DEF Finding
<1> HIDE DEF ai
<1>4. /\ f \in Finding /\ f.aml = x.aml
      /\ f.list = x.list /\ f.first = x.first /\ f.risk = x.risk /\ f.sanctions = x.sanctions
      /\ f.decision = x.decision
  BY <1>2, <1>3 DEF Finding
<1> HIDE DEF f
<1>5. Leaves(r, f, "decide")
  BY <1>1, <1>2, <1>4 DEF Leaves, Stages
<1> QED
  BY <1>1, <1>2, <1>4, <1>5, StepKeepsFacts DEF FoundFacts

(* Of what was found, a decision reads only the scores and the screening. *)
LEMMA DecideReads ==
  ASSUME NEW f, NEW g, NEW sent, NEW registered, NEW ai,
         f.sanctions = g.sanctions, f.aml = g.aml, f.fraud = g.fraud,
         f.fraudDecision = g.fraudDecision, f.risk = g.risk
  PROVE  Decide(f, sent, registered, ai) = Decide(g, sent, registered, ai)
<1>1. Context(f, sent, ai) = Context(g, sent, ai) /\ Verdict(f, ai) = Verdict(g, ai)
  BY DEF Context, Verdict
<1> QED
  BY <1>1 DEF Decide

LEMMA ConcludeStep ==
  ASSUME ComplianceInv, NEW r \in Requests, Conclude(r)
  PROVE  ComplianceInv'
<1> DEFINE x == found[r]
           decision == Decide(x, request[r], rules, x.ai)
           f == [x EXCEPT !.rules = rules, !.decision = decision]
<1>1. stage[r] = "decide" /\ stage' = [stage EXCEPT ![r] = "done"] /\ found' = [found EXCEPT ![r] = f]
      /\ UNCHANGED <<request, lists, analysts, rules>>
  BY DEF Conclude, Step
<1>2. x \in Finding /\ FoundFacts(r) /\ rules \subseteq Rules
  BY <1>1, EvaluationType
<1>3. decision \in Decisions
  BY DecideType
<1> HIDE DEF decision
<1>4. /\ f \in Finding /\ f.aml = x.aml /\ f.fraud = x.fraud /\ f.fraudDecision = x.fraudDecision
      /\ f.list = x.list /\ f.first = x.first /\ f.risk = x.risk /\ f.sanctions = x.sanctions
      /\ f.decision = decision /\ f.rules = rules /\ f.ai = x.ai
  BY <1>2, <1>3 DEF Finding
<1> HIDE DEF f
<1>5. Leaves(r, f, "done")
  BY <1>1, <1>3, <1>4 DEF Leaves, Stages
<1>6. decision = Decide(f, request[r], f.rules, f.ai)
  BY <1>4, DecideReads DEF decision
<1> QED
  BY <1>1, <1>2, <1>4, <1>5, <1>6, StepKeepsFacts DEF FoundFacts

LEMMA ComplianceInvInit == ComplianceInit => ComplianceInv
<1> SUFFICES ASSUME ComplianceInit PROVE ComplianceInv
  OBVIOUS
<1>1. Nothing \in Finding
  BY DEF Nothing, Finding, AmlRiskScore, FraudRiskScore, FraudDecisions, SanctionsStatus
<1>2. \A r \in Requests : found[r] = Nothing /\ stage[r] = "aml"
  BY DEF ComplianceInit
<1>3. ComplianceTypeOK
  <2>1. \A r \in Requests : (stage[r] = "done") = (found[r].decision \in Decisions)
    BY <1>2, ComplianceAssumption DEF Nothing
  <2> HIDE DEF Finding, Nothing
  <2> QED
    BY <1>1, <2>1, ComplianceAssumption DEF ComplianceTypeOK, ComplianceInit, Stages
<1>4. ASSUME NEW r \in Requests PROVE FoundFacts(r)
  BY <1>2 DEF FoundFacts, Nothing, ComplianceInit
<1> QED
  BY <1>3, <1>4 DEF ComplianceInv

LEMMA RegisterStep ==
  ASSUME ComplianceInv, RegisterList \/ RegisterAnalyst \/ RegisterRule
  PROVE  ComplianceInv'
<1>1. /\ UNCHANGED <<request, stage, found>>
      /\ lists' \in 0..ListCount /\ analysts' \in 0..Analysts /\ rules' \subseteq Rules /\ lists <= lists'
  BY ComplianceAssumption DEF RegisterList, RegisterAnalyst, RegisterRule, ComplianceInv, ComplianceTypeOK
<1>2. ComplianceTypeOK'
  BY <1>1 DEF ComplianceInv, ComplianceTypeOK
<1>3. ASSUME NEW r \in Requests PROVE FoundFacts(r)'
  <2>1. FoundFacts(r) /\ found[r].first \in Nat /\ found[r].list \in Nat /\ lists \in Nat /\ lists' \in Nat
    BY <1>1, EvaluationType, ComplianceAssumption DEF Finding
  <2> QED
    BY <1>1, <2>1 DEF FoundFacts
<1> QED
  BY <1>2, <1>3 DEF ComplianceInv

LEMMA ComplianceInvStep == ComplianceInv /\ [ComplianceNext]_compliance => ComplianceInv'
<1> SUFFICES ASSUME ComplianceInv, [ComplianceNext]_compliance PROVE ComplianceInv'
  OBVIOUS
<1>1. CASE ComplianceNext
  BY <1>1, RegisterStep, CheckAmlStep, CheckFraudStep, ScreenSanctionsStep, ScreenWalletStep,
     CalculateRiskStep, AskAiStep, ConcludeStep DEF ComplianceNext
<1>2. CASE UNCHANGED compliance
  BY <1>2 DEF compliance, ComplianceInv, ComplianceTypeOK, FoundFacts
<1> QED
  BY <1>1, <1>2

LEMMA ComplianceInvHolds == ComplianceSpec => []ComplianceInv
BY ComplianceInvInit, ComplianceInvStep, PTL DEF ComplianceSpec

(* For any number of evaluations, watchlists, analytics providers and rules,  *)
(* registered whenever: who is approved was on none of the lists registered   *)
(* when its screening began and within the velocity limit                     *)
(* (DecisionEngine.evaluate, SanctionsEngine.evaluate).                       *)
THEOREM ApprovedIsScreened == ComplianceSpec => []ApprovedWasScreened
<1>1. ASSUME ComplianceInv PROVE ApprovedWasScreened
  <2>1. ComplianceTypeOK
    BY <1>1 DEF ComplianceInv
  <2>2. ASSUME NEW r \in Requests, found[r].decision = "APPROVED"
        PROVE  /\ \A i \in 1..found[r].first : ~Hit(request[r].lists[i])
               /\ WithinVelocity(request[r].amount)
    <3> DEFINE f == found[r]
    <3>1. stage[r] = "done" /\ f \in Finding /\ FoundFacts(r) /\ request[r].amount \in Nat
      BY <1>1, <2>2, EvaluationType DEF Decisions, IsRequest
    <3>2. Decide(f, request[r], f.rules, f.ai) = "APPROVED"
      BY <2>2, <3>1 DEF FoundFacts
    <3>3. ~Hit(f.sanctions) /\ ~(f.aml >= 80)
      BY <3>2 DEF Decide, Hit
    <3>4. f.list > f.first /\ f.list \in Nat /\ f.first \in Nat
      BY <3>1, <3>3 DEF FoundFacts, Finding
    <3>5. \A i \in 1..f.first : i \in 1..f.list - 1
      BY <3>4
    <3>6. \A i \in 1..f.list - 1 : ~Hit(request[r].lists[i])
      BY <3>1 DEF FoundFacts
    <3>7. f.aml = AmlScore(request[r].amount)
      BY <3>1 DEF FoundFacts
    <3>8. WithinVelocity(request[r].amount)
      BY <3>1, <3>3, <3>7 DEF AmlScore, WithinVelocity
    <3> QED
      BY <3>5, <3>6, <3>8
  <2> QED
    BY <2>1, <2>2 DEF ApprovedWasScreened
<1> QED
  BY <1>1, ComplianceInvHolds, PTL

(* The AI's verdict adds to a composite one that always approves, so only a *)
(* rule that its score silenced can make a decision lighter.                *)
LEMMA AdviceAddsSeverity ==
  ASSUME NEW f, NEW sent, NEW registered, NEW ai, f.risk < 70, f.risk \in Nat
  PROVE  \/ Severity(Decide(f, sent, registered, ai)) >= Severity(Decide(f, sent, registered, Absent))
         \/ \E rule \in Triggered(registered, Context(f, sent, Absent))
                          \ Triggered(registered, Context(f, sent, ai)) : rule.action = "REVIEW"
<1> DEFINE alone == Triggered(registered, Context(f, sent, Absent))
           advised == Triggered(registered, Context(f, sent, ai))
           mine == Decide(f, sent, registered, ai)
           theirs == Decide(f, sent, registered, Absent)
<1>1. RiskDecision(f.risk) = "APPROVE"
  BY DEF RiskDecision
<1>2. Verdict(f, Absent) = "APPROVE"
  BY <1>1 DEF Verdict
<1>3. /\ Severity("APPROVED") = 0 /\ Severity("MANUAL_REVIEW") = 1 /\ Severity("REJECTED") = 2
  BY DEF Severity
<1>4. mine \in Decisions /\ theirs \in Decisions
  BY DecideType
<1>5. CASE f.sanctions \in {"BLOCK", "MATCH"} \/ f.aml >= 80 \/ f.fraudDecision = "REJECT"
  <2>1. mine = "REJECTED" /\ theirs = "REJECTED"
    BY <1>5 DEF Decide
  <2> QED
    BY <1>3, <2>1
<1>6. CASE ~(f.sanctions \in {"BLOCK", "MATCH"} \/ f.aml >= 80 \/ f.fraudDecision = "REJECT")
  <2> HIDE DEF alone, advised
  <2>1. theirs = IF f.fraudDecision = "REVIEW" \/ \E rule \in alone : rule.action = "REVIEW"
                 THEN "MANUAL_REVIEW" ELSE "APPROVED"
    BY <1>2, <1>6 DEF Decide, alone
  <2>2. f.fraudDecision = "REVIEW" \/ (\E rule \in advised : rule.action = "REVIEW") =>
          mine \in {"MANUAL_REVIEW", "REJECTED"}
    BY <1>6 DEF Decide, advised
  <2> HIDE DEF mine, theirs
  <2>3. theirs = "APPROVED" => Severity(mine) >= Severity(theirs)
    BY <1>3, <1>4 DEF Decisions
  <2>4. f.fraudDecision = "REVIEW" \/ (\E rule \in advised : rule.action = "REVIEW") =>
          Severity(mine) >= Severity(theirs)
    BY <1>3, <2>1, <2>2
  <2>5. ~(\E rule \in advised : rule.action = "REVIEW") /\ (\E rule \in alone : rule.action = "REVIEW") =>
          \E rule \in alone \ advised : rule.action = "REVIEW"
    OBVIOUS
  <2>6. \/ Severity(mine) >= Severity(theirs)
        \/ \E rule \in alone \ advised : rule.action = "REVIEW"
    BY <2>1, <2>3, <2>4, <2>5
  <2> QED
    BY <2>6 DEF mine, theirs, alone, advised
<1> QED
  BY <1>5, <1>6

(* For any rules, features and scores: the AI layer's decision is never lighter *)
(* than the one without it, unless its score silenced a rule that would have    *)
(* asked for a review (DecisionEngine.evaluate, AiDecisionService).             *)
THEOREM AiOnlyAdds == ComplianceSpec => []AiNeverLightens
<1>1. ASSUME ComplianceInv PROVE AiNeverLightens
  <2> SUFFICES ASSUME NEW r \in Requests, stage[r] = "done"
               PROVE  LET f == found[r]
                          alone == Triggered(f.rules, Context(f, request[r], Absent))
                          advised == Triggered(f.rules, Context(f, request[r], f.ai))
                      IN  \/ Severity(f.decision) >= Severity(Decide(f, request[r], f.rules, Absent))
                          \/ \E rule \in alone \ advised : rule.action = "REVIEW"
    BY DEF AiNeverLightens
  <2> DEFINE f == found[r]
  <2>1. f.decision = Decide(f, request[r], f.rules, f.ai) /\ f.risk < 70
    BY <1>1, EvaluationType DEF FoundFacts
  <2>2. f.risk \in Nat
    BY <1>1, EvaluationType DEF Finding
  <2> QED
    BY <2>1, <2>2, AdviceAddsSeverity
<1> QED
  BY <1>1, ComplianceInvHolds, PTL
=============================================================================
