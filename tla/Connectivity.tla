----------------------------- MODULE Connectivity -----------------------------
(***************************************************************************)
(* Financial connectivity: the UK and the India connector, the sandbox FX  *)
(* provider, FinancialApprovalEngine, TransactionLimitsEngine, the         *)
(* connector registry and health monitor, and ReconciliationEngineV2.      *)
(*                                                                         *)
(* None of them calls another.  A journey is the caller of all, in the     *)
(* order of tests/connectivity and tests/e2e/real-remittance: it stops at  *)
(* a call that threw, goes on after any other answer, and settles once the *)
(* transaction is fully approved.  Journeys interleave at every call.  The *)
(* failure that is injected into a sandbox is any whenever it is called.   *)
(***************************************************************************)
EXTENDS Integers, FiniteSetsExt

CONSTANTS
  Journeys,           \* transactions
  Officers,           \* identities that approve
  Amount,             \* the source amount of each journey
  Environments,       \* environments the connectors are constructed for
  PerTransaction,     \* the corridor's maxPerTransaction
  PerDay,             \* the corridor's maxPerDay
  Rate,               \* the sandbox rate
  Executed,           \* the destination amount of every sandbox execution
  FailuresToDegrade,  \* failed health checks in a row (5 in the code)
  None

ConnectorEnvironment == {"SANDBOX", "CERTIFICATION", "PRODUCTION"}

ASSUME ConnectivityAssumption ==
  /\ Environments \subseteq ConnectorEnvironment
  /\ Amount \in [Journeys -> Nat] /\ None \notin Nat
  /\ {PerTransaction, PerDay, Rate, Executed} \subseteq Nat
  /\ FailuresToDegrade \in Nat \ {0}

VARIABLES
  realMoney,   \* REAL_MONEY_ENABLED is 'true'
  connector,   \* each connector: [environment, status]
  failures,    \* each connector's failed health checks in a row
  usage,       \* the day's recorded usage of the corridor
  contended,   \* a limit was evaluated while another evaluation was not yet recorded
  approvals,   \* what was submitted for each journey
  leg,         \* each journey: [limit, funding, quoted, fx, settlement]
  funded,      \* journeys whose funds were collected
  payout       \* what each journey's beneficiary was paid, or None

vars == <<realMoney, connector, failures, usage, contended, approvals, leg, funded, payout>>

Connectors == {"uk", "india"}
ConnectorStatus == {"REGISTERED", "ACTIVE", "SUSPENDED", "DEGRADED", "DEACTIVATED"}
Approval == [type : {"MAKER", "CHECKER"}, approver : Officers, decision : {"APPROVED", "REJECTED"}]
Legs == [limit : {"unchecked", "allowed", "refused", "recorded"},
         funding : {"none", "FUNDING_CONFIRMED", "FUNDING_FAILED", "threw"},
         quoted : Nat \cup {None},
         fx : {"none", "QUOTED", "LOCKED", "EXECUTED", "threw"},
         settlement : {"none", "COMPLETED", "FAILED", "UNKNOWN", "threw"}]

TypeOK ==
  /\ realMoney \in BOOLEAN
  /\ connector \in [Connectors -> [environment : ConnectorEnvironment, status : ConnectorStatus]]
  /\ failures \in [Connectors -> 0..FailuresToDegrade]
  /\ usage \in Nat /\ contended \in BOOLEAN
  /\ approvals \in [Journeys -> SUBSET Approval]
  /\ leg \in [Journeys -> Legs] /\ funded \subseteq Journeys
  /\ payout \in [Journeys -> Nat \cup {None}]

\* A production connector is constructed suspended unless real money is enabled.
Constructed(environment) ==
  [environment |-> environment,
   status |-> IF environment = "PRODUCTION" /\ ~realMoney THEN "SUSPENDED" ELSE "ACTIVE"]

Init ==
  /\ realMoney \in BOOLEAN
  /\ \E environment \in Environments : connector = [c \in Connectors |-> Constructed(environment)]
  /\ failures = [c \in Connectors |-> 0]
  /\ usage = 0 /\ contended = FALSE /\ approvals = [j \in Journeys |-> {}]
  /\ leg = [j \in Journeys |-> [limit |-> "unchecked", funding |-> "none", quoted |-> None,
                                fx |-> "none", settlement |-> "none"]]
  /\ funded = {} /\ payout = [j \in Journeys |-> None]

Set(j, field, value) == leg' = [leg EXCEPT ![j] = [@ EXCEPT ![field] = value]]

-----------------------------------------------------------------------------
(* Operators: the connectors, their registry and their health *)

\* The registry refuses a production connector without real money.
Registrable(c) == connector[c].environment = "PRODUCTION" => realMoney

Deactivate(c) ==
  /\ Registrable(c)
  /\ connector' = [connector EXCEPT ![c].status = "DEACTIVATED"]
  /\ UNCHANGED <<realMoney, failures, usage, contended, approvals, leg, funded, payout>>

Available(c) == connector[c].status = "ACTIVE"

\* Whatever its status was, a connector that keeps failing becomes DEGRADED.
CheckHealth(c) ==
  /\ failures' = [failures EXCEPT ![c] =
                    IF Available(c) THEN 0 ELSE Min({@ + 1, FailuresToDegrade})]
  /\ connector' = IF failures'[c] = FailuresToDegrade
                  THEN [connector EXCEPT ![c].status = "DEGRADED"] ELSE connector
  /\ UNCHANGED <<realMoney, usage, contended, approvals, leg, funded, payout>>

\* Only a suspended connector refuses; a degraded or deactivated one does not.
GuardProduction(c) ==
  ~(connector[c].environment = "PRODUCTION" /\ connector[c].status = "SUSPENDED")

-----------------------------------------------------------------------------
(* TransactionLimitsEngine and FinancialApprovalEngine *)

\* The amount itself left out of the comparison.
WithinUsedDay(j) == Amount[j] <= PerTransaction /\ usage <= PerDay

WithinLimits(j) == Amount[j] <= PerTransaction /\ usage + Amount[j] <= PerDay

Evaluate(j) ==
  /\ leg[j].limit = "unchecked"
  /\ Set(j, "limit", IF WithinLimits(j) THEN "allowed" ELSE "refused")
  /\ contended' = (contended \/ (WithinLimits(j) /\ \E k \in Journeys : leg[k].limit = "allowed"))
  /\ UNCHANGED <<realMoney, connector, failures, usage, approvals, funded, payout>>

\* A call of its own, which nothing ties to the evaluation.
RecordUsage(j) ==
  /\ leg[j].limit = "allowed"
  /\ usage' = usage + Amount[j]
  /\ Set(j, "limit", "recorded")
  /\ UNCHANGED <<realMoney, connector, failures, contended, approvals, funded, payout>>

\* Duplicates of an approval type let in.
AdmissibleAgain(j, a) ==
  a.type = "CHECKER" => \A b \in approvals[j] : b.type = "MAKER" => b.approver # a.approver

\* The maker's identity is looked up when a checker submits, never the other way.
Admissible(j, a) ==
  /\ a.type = "CHECKER" => \A b \in approvals[j] : b.type = "MAKER" => b.approver # a.approver
  /\ ~\E b \in approvals[j] : b.type = a.type

SubmitApproval(j, a) ==
  /\ leg[j].fx = "EXECUTED" /\ Admissible(j, a)
  /\ approvals' = [approvals EXCEPT ![j] = @ \cup {a}]
  /\ UNCHANGED <<realMoney, connector, failures, usage, contended, leg, funded, payout>>

IsFullyApproved(j) ==
  \A type \in {"MAKER", "CHECKER"} :
    \E a \in approvals[j] : a.type = type /\ a.decision = "APPROVED"

IsRejected(j) == \E a \in approvals[j] : a.decision = "REJECTED"

-----------------------------------------------------------------------------
(* UkSettlementConnector, SandboxFXProvider, IndiaSettlementConnector *)

Proceeds(j) ==
  leg[j].limit \in {"allowed", "recorded"} /\ "threw" \notin {leg[j].funding, leg[j].fx}

InitiateFunding(j) ==
  /\ Proceeds(j) /\ leg[j].funding = "none"
  /\ \E status \in {"FUNDING_CONFIRMED", "FUNDING_FAILED", "threw"} :
         /\ status = "threw" <=> ~GuardProduction("uk")
         /\ Set(j, "funding", status)
         /\ funded' = IF status = "FUNDING_CONFIRMED" THEN funded \cup {j} ELSE funded
  /\ UNCHANGED <<realMoney, connector, failures, usage, contended, approvals, payout>>

Quote(j) ==
  /\ Proceeds(j) /\ leg[j].funding # "none" /\ leg[j].fx = "none"
  /\ \/ leg' = [leg EXCEPT ![j].fx = "QUOTED", ![j].quoted = Amount[j] * Rate]
     \/ Set(j, "fx", "threw")
  /\ UNCHANGED <<realMoney, connector, failures, usage, contended, approvals, funded, payout>>

Lock(j) ==
  /\ Proceeds(j) /\ leg[j].fx = "QUOTED"
  /\ \E status \in {"LOCKED", "threw"} : Set(j, "fx", status)
  /\ UNCHANGED <<realMoney, connector, failures, usage, contended, approvals, funded, payout>>

Execute(j) ==
  /\ Proceeds(j) /\ leg[j].fx = "LOCKED"
  /\ Set(j, "fx", "EXECUTED")
  /\ UNCHANGED <<realMoney, connector, failures, usage, contended, approvals, funded, payout>>

\* The payout is of the executed amount, which the sandbox fixes for every quote.
\* An UNKNOWN settlement was carried out: asked again, it is COMPLETED.
InitiateSettlement(j) ==
  /\ Proceeds(j) /\ leg[j].settlement = "none" /\ leg[j].fx = "EXECUTED" /\ IsFullyApproved(j)
  /\ \E status \in {"COMPLETED", "FAILED", "UNKNOWN", "threw"} :
         /\ ~GuardProduction("india") => status = "threw"
         /\ Set(j, "settlement", status)
         /\ payout' = IF status \in {"UNKNOWN", "COMPLETED"}
                      THEN [payout EXCEPT ![j] = Executed] ELSE payout
  /\ UNCHANGED <<realMoney, connector, failures, usage, contended, approvals, funded>>

GetSettlementStatus(j) ==
  /\ leg[j].settlement = "UNKNOWN"
  /\ Set(j, "settlement", "COMPLETED")
  /\ UNCHANGED <<realMoney, connector, failures, usage, contended, approvals, funded, payout>>

-----------------------------------------------------------------------------
(* ReconciliationEngineV2 *)

\* A settlement taken as complete unless it is known to be unknown.
ReconcileUnlessUnknown(j) ==
  IF leg[j].funding # "FUNDING_CONFIRMED" THEN "MISMATCH_FUNDING"
  ELSE IF leg[j].fx # "EXECUTED" \/ leg[j].quoted # Executed THEN "MISMATCH_FX"
  ELSE IF leg[j].settlement = "UNKNOWN" THEN "QUARANTINED" ELSE "MATCHED"

ReconcileTransaction(j) ==
  IF leg[j].funding # "FUNDING_CONFIRMED" THEN "MISMATCH_FUNDING"
  ELSE IF leg[j].fx # "EXECUTED" \/ leg[j].quoted # Executed THEN "MISMATCH_FX"
  ELSE IF leg[j].settlement = "UNKNOWN" THEN "QUARANTINED"
  ELSE IF leg[j].settlement # "COMPLETED" THEN "MISSING_SETTLEMENT"
  ELSE IF payout[j] # leg[j].quoted THEN "MISMATCH_SETTLEMENT" ELSE "MATCHED"

Next ==
  \/ \E c \in Connectors : Deactivate(c) \/ CheckHealth(c)
  \/ \E j \in Journeys :
       \/ Evaluate(j) \/ RecordUsage(j)
       \/ \E a \in Approval : SubmitApproval(j, a)
       \/ InitiateFunding(j) \/ Quote(j) \/ Lock(j) \/ Execute(j)
       \/ InitiateSettlement(j) \/ GetSettlementStatus(j)

Spec == Init /\ [][Next]_vars

-----------------------------------------------------------------------------
\* A transaction that would be reported as matched, whenever it is reconciled, was
\* funded, and its beneficiary was paid what the customer was quoted: an unknown,
\* failed or missing leg never matches.
MatchedWasPaid ==
  /\ TypeOK
  /\ \A j \in Journeys :
       ReconcileTransaction(j) = "MATCHED" => j \in funded /\ payout[j] = Amount[j] * Rate

\* What an officer rejected, before or after the settlement, was never paid.
RejectedNeverPaid == \A j \in Journeys : IsRejected(j) => payout[j] = None

\* Evaluating and recording are two calls. Journeys that never have two evaluations
\* open at a time keep the daily limit together, whatever else they interleave.
DailyLimitKept == ~contended => usage <= PerDay
=============================================================================
