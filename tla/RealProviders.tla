---------------------------- MODULE RealProviders ----------------------------
(***************************************************************************)
(* The connectors of packages/real-providers: OnfidoKycProvider,           *)
(* ModulrFundingConnector, CurrencycloudFXProvider and                     *)
(* CashfreeSettlementConnector.  What stands behind them is external: a    *)
(* check or a payout resolves in its own time, and any call may fail       *)
(* before or after it took effect.                                         *)
(*                                                                         *)
(* None of them keeps a state but Currencycloud's session.  A remittance   *)
(* is the caller of all: it is verified, funded, converted and paid out,   *)
(* in the order of tests/e2e/real-remittance, and repeats a call that      *)
(* failed or threw.  REAL_MONEY_ENABLED is read from the environment of    *)
(* the process at each call, and may change between two.                   *)
(***************************************************************************)
EXTENDS Integers

CONSTANTS
  Remittances,     \* rail transactions
  MaxConversions   \* bound on the conversions of one of them

ASSUME RealAssumption == MaxConversions \in Nat \ {0}

VARIABLES
  live,        \* the connectors were constructed for PRODUCTION
  enabled,     \* REAL_MONEY_ENABLED is 'true'
  everEnabled, \* it was, at some time
  check,       \* Onfido's check of each customer
  identity,    \* what was last told of it
  account,     \* the virtual account at Modulr
  referenced,  \* remittances that were told its reference
  funding,     \* what was last told of its funding
  session,     \* Currencycloud's session of the token that is kept
  fx,          \* where the conversion is
  conversions, \* how many were created at Currencycloud
  beneficiary, \* what was last told of the beneficiary
  authorised,  \* payouts between the token of Cashfree and their request
  payouts,     \* how many Cashfree accepted
  outcome,     \* what became of the accepted one
  told         \* what was last told of the payout

kyc == <<check, identity>>
collection == <<account, referenced, funding>>
conversion == <<session, fx, conversions>>
settlement == <<beneficiary, authorised, payouts, outcome, told>>
switch == <<live, enabled, everEnabled>>
rvars == <<switch, kyc, collection, conversion, settlement>>

RealTypeOK ==
  /\ {live, enabled, everEnabled} \subseteq BOOLEAN
  /\ check \in [Remittances -> {"none", "applicant", "running", "clear", "consider"}]
  /\ identity \in [Remittances -> {"none", "PENDING", "CLEAR", "CONSIDER"}]
  /\ account \in [Remittances -> {"none", "open", "processed"}]
  /\ {referenced, authorised} \subseteq SUBSET Remittances
  /\ funding \in [Remittances -> {"none", "FUNDING_PENDING", "FUNDING_CONFIRMED", "FUNDING_FAILED"}]
  /\ session \in {"none", "valid", "expired"}
  /\ fx \in [Remittances -> {"none", "QUOTED", "LOCKED", "EXECUTED"}]
  /\ conversions \in [Remittances -> 0..MaxConversions]
  /\ beneficiary \in [Remittances -> {"unknown", "valid", "invalid"}]
  /\ payouts \in [Remittances -> Nat]
  /\ outcome \in [Remittances -> {"none", "open", "paid", "returned"}]
  /\ told \in [Remittances -> {"none", "PROCESSING", "COMPLETED", "FAILED"}]

RealInit ==
  /\ live \in BOOLEAN /\ enabled \in BOOLEAN /\ everEnabled = enabled
  /\ check = [r \in Remittances |-> "none"] /\ identity = [r \in Remittances |-> "none"]
  /\ account = [r \in Remittances |-> "none"] /\ referenced = {}
  /\ funding = [r \in Remittances |-> "none"]
  /\ session = "none" /\ fx = [r \in Remittances |-> "none"]
  /\ conversions = [r \in Remittances |-> 0]
  /\ beneficiary = [r \in Remittances |-> "unknown"] /\ authorised = {}
  /\ payouts = [r \in Remittances |-> 0] /\ outcome = [r \in Remittances |-> "none"]
  /\ told = [r \in Remittances |-> "none"]

SwitchRealMoney ==
  /\ enabled' = ~enabled /\ everEnabled' = TRUE
  /\ UNCHANGED <<live, kyc, collection, conversion, settlement>>

Suspended == live /\ ~enabled

-----------------------------------------------------------------------------
(* Onfido.  A call that throws leaves what the caller knows as it was.     *)

CreateApplicant(r) ==
  /\ check[r] = "none" /\ check' = [check EXCEPT ![r] = "applicant"]
  /\ UNCHANGED <<switch, identity, collection, conversion, settlement>>

(* After the capture in the browser, which a token of the SDK opens.       *)
CreateCheck(r) ==
  /\ check[r] = "applicant" /\ check' = [check EXCEPT ![r] = "running"]
  /\ UNCHANGED <<switch, identity, collection, conversion, settlement>>

CheckCompletes(r) ==
  /\ check[r] = "running"
  /\ \E result \in {"clear", "consider"} : check' = [check EXCEPT ![r] = result]
  /\ UNCHANGED <<switch, identity, collection, conversion, settlement>>

ApplicantStatus == [running |-> "PENDING", clear |-> "CLEAR", consider |-> "CONSIDER"]

GetCheckStatus(r) ==
  /\ check[r] \in DOMAIN ApplicantStatus
  /\ identity' = [identity EXCEPT ![r] = ApplicantStatus[check[r]]]
  /\ UNCHANGED <<switch, check, collection, conversion, settlement>>

-----------------------------------------------------------------------------
(* Modulr.                                                                 *)

Uncollected(r) == identity[r] = "CLEAR" /\ funding[r] \in {"none", "FUNDING_FAILED"}
                    /\ r \notin referenced

(* A virtual account is opened; the answer FUNDING_FAILED may hide it.     *)
OpenAccount(r) ==
  /\ Uncollected(r) /\ ~Suspended
  /\ \/ /\ account' = [account EXCEPT ![r] = "open"]
        /\ referenced' = referenced \cup {r} /\ funding' = [funding EXCEPT ![r] = "FUNDING_PENDING"]
     \/ /\ account' \in {account, [account EXCEPT ![r] = "open"]}
        /\ funding' = [funding EXCEPT ![r] = "FUNDING_FAILED"] /\ UNCHANGED referenced
  /\ UNCHANGED <<switch, kyc, conversion, settlement>>

(* The customer pays in: only into an account there is a reference of.     *)
Deposit(r) ==
  /\ r \in referenced /\ account[r] = "open"
  /\ account' = [account EXCEPT ![r] = "processed"]
  /\ UNCHANGED <<switch, kyc, referenced, funding, conversion, settlement>>

FundingState(r) == IF account[r] = "processed" THEN "FUNDING_CONFIRMED" ELSE "FUNDING_PENDING"

(* An error of the poll is reported as a failure of the funding, which the *)
(* next poll takes back.                                                   *)
GetFundingStatus(r) ==
  /\ r \in referenced /\ funding[r] # "FUNDING_CONFIRMED"
  /\ \E state \in {FundingState(r), "FUNDING_FAILED"} : funding' = [funding EXCEPT ![r] = state]
  /\ UNCHANGED <<switch, kyc, account, referenced, conversion, settlement>>

-----------------------------------------------------------------------------
(* Currencycloud: the token is kept for ever, also when its session ended. *)

SessionExpires ==
  /\ session = "valid" /\ session' = "expired"
  /\ UNCHANGED <<switch, kyc, collection, fx, conversions, settlement>>

Authenticate == session' = IF session = "none" THEN "valid" ELSE session

(* The token was had, and the call that follows throws.                    *)
CallThrows ==
  /\ \E r \in Remittances : funding[r] = "FUNDING_CONFIRMED" /\ fx[r] \in {"none", "LOCKED"}
  /\ Authenticate
  /\ UNCHANGED <<switch, kyc, collection, fx, conversions, settlement>>

GetQuote(r) ==
  /\ funding[r] = "FUNDING_CONFIRMED" /\ fx[r] = "none"
  /\ Authenticate /\ session' = "valid"
  /\ fx' = [fx EXCEPT ![r] = "QUOTED"]
  /\ UNCHANGED <<switch, kyc, collection, conversions, settlement>>

(* Nothing is locked at the provider, and no call is made.                 *)
LockQuote(r) ==
  /\ fx[r] = "QUOTED" /\ fx' = [fx EXCEPT ![r] = "LOCKED"]
  /\ UNCHANGED <<switch, kyc, collection, session, conversions, settlement>>

(* A conversion is created, of a fixed amount, and its answer may be lost. *)
CreateConversion(r) ==
  /\ fx[r] = "LOCKED" /\ conversions[r] < MaxConversions
  /\ Authenticate /\ session' = "valid"
  /\ conversions' = [conversions EXCEPT ![r] = @ + 1]
  /\ fx' \in {fx, [fx EXCEPT ![r] = "EXECUTED"]}
  /\ UNCHANGED <<switch, kyc, collection, settlement>>

-----------------------------------------------------------------------------
(* Cashfree.  A token is asked for with every call.                        *)

(* What cannot be validated is not valid.                                  *)
ValidateBeneficiary(r) ==
  /\ fx[r] = "EXECUTED" /\ beneficiary[r] # "valid"
  /\ \E answer \in {"valid", "invalid"} : beneficiary' = [beneficiary EXCEPT ![r] = answer]
  /\ UNCHANGED <<switch, kyc, collection, conversion, authorised, payouts, outcome, told>>

(* The environment is looked at before the token is awaited.               *)
Authorise(r) ==
  /\ beneficiary[r] = "valid" /\ told[r] \in {"none", "FAILED"} /\ r \notin authorised
  /\ ~Suspended
  /\ authorised' = authorised \cup {r}
  /\ UNCHANGED <<switch, kyc, collection, conversion, beneficiary, payouts, outcome, told>>

(* A transferId of its own for every request.                              *)
AcceptedAgain(r) == TRUE

(* The transferId is the rail transaction's: a second one is refused.      *)
Accepted(r) == payouts[r] = 0

(* Whatever throws from here on is FAILED, the lost answer as the refusal. *)
RequestTransfer(r) ==
  /\ r \in authorised /\ authorised' = authorised \ {r}
  /\ \/ /\ Accepted(r)
        /\ payouts' = [payouts EXCEPT ![r] = @ + 1] /\ outcome' = [outcome EXCEPT ![r] = "open"]
        /\ \E answer \in {"PROCESSING", "FAILED"} : told' = [told EXCEPT ![r] = answer]
     \/ told' = [told EXCEPT ![r] = "FAILED"] /\ UNCHANGED <<payouts, outcome>>
  /\ UNCHANGED <<switch, kyc, collection, conversion, beneficiary>>

TransferEnds(r) ==
  /\ outcome[r] = "open"
  /\ \E end \in {"paid", "returned"} : outcome' = [outcome EXCEPT ![r] = end]
  /\ UNCHANGED <<switch, kyc, collection, conversion, beneficiary, authorised, payouts, told>>

(* The status of every reference is COMPLETED; nothing is asked.           *)
GetTransferStatus(r) ==
  /\ told[r] = "PROCESSING" /\ told' = [told EXCEPT ![r] = "COMPLETED"]
  /\ UNCHANGED <<switch, kyc, collection, conversion, beneficiary, authorised, payouts, outcome>>

RealNext ==
  \/ SwitchRealMoney \/ SessionExpires \/ CallThrows
  \/ \E r \in Remittances :
       \/ CreateApplicant(r) \/ CreateCheck(r) \/ CheckCompletes(r) \/ GetCheckStatus(r)
       \/ OpenAccount(r) \/ Deposit(r) \/ GetFundingStatus(r)
       \/ GetQuote(r) \/ LockQuote(r) \/ CreateConversion(r)
       \/ ValidateBeneficiary(r) \/ Authorise(r) \/ RequestTransfer(r)
       \/ TransferEnds(r) \/ GetTransferStatus(r)

RealSpec == RealInit /\ [][RealNext]_rvars

-----------------------------------------------------------------------------
(* However calls fail and are repeated, and wherever the switch is turned: *)
(* a remittance is paid out at most once, and only from a deposit of a     *)
(* customer whose check was clear; and in production nothing moves at any  *)
(* provider, Currencycloud's that knows no switch included, while real     *)
(* money was never enabled.                                                *)
PaidOnceAndFunded ==
  /\ RealTypeOK
  /\ \A r \in Remittances :
       /\ payouts[r] <= 1
       /\ payouts[r] > 0 => account[r] = "processed" /\ check[r] = "clear" /\ conversions[r] > 0
       /\ live /\ ~everEnabled => account[r] = "none" /\ conversions[r] = 0 /\ payouts[r] = 0
=============================================================================
