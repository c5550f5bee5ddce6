----------------------------- MODULE PaymentFlow -----------------------------
(***************************************************************************)
(* PaymentOrchestrator.initiatePayment over WalletService, LedgerService,  *)
(* RoutingEngine and the in-memory repositories.  Each call is a process;  *)
(* one action is the code between two awaits, and calls interleave at the  *)
(* awaits.  Wallets, holds and ledger entries are shared.                  *)
(*                                                                         *)
(* Amounts are whole units of Decimal's fixed point, of either sign: the   *)
(* controller passes on what the request's body holds.  The blockchain     *)
(* behind BlockchainSettlementAdapter is modelled by what a broadcast can  *)
(* lead to: nothing, a transaction in flight, one that landed or one that  *)
(* was dropped.                                                            *)
(***************************************************************************)
EXTENDS Integers, FiniteSets, Totals

CONSTANTS
  Payments,    \* the calls of initiatePayment
  Wallets,     \* wallet identifiers that requests name
  Existing,    \* those of them the repository holds
  Funding,     \* the available balance each wallet starts with
  Amounts,     \* the amounts requested
  Routes,      \* provider names that findOptimalRoute may return
  Registered,  \* the keys of the settlementProviders map
  Instant,     \* registered providers whose send answers 'success'
  NoRoute      \* no provider has been selected

ASSUME PaymentsAssumption == IsFiniteSet(Payments)
ASSUME WalletsAssumption == Existing \subseteq Wallets /\ Funding \in [Wallets -> Nat]
ASSUME AmountsAssumption == Amounts \subseteq Int
ASSUME RoutesAssumption == NoRoute \notin Routes

VARIABLES
  request,     \* the sender wallet and the amount of each payment
  stage,       \* what each call does next, or how it ended
  available,   \* balanceAvailable of each wallet
  locked,      \* balanceLocked of each wallet
  hold,        \* the hold of each payment
  entry,       \* status of the ledger entry of each payment
  provider,    \* the provider of the route chosen for each payment
  receipt,     \* status of the SettlementResult of each payment
  chain,       \* what became of the payment outside the system
  emitted      \* the domain events each call has emitted

vars == <<request, stage, available, locked, hold, entry, provider, receipt,
          chain, emitted>>

Requests == [wallet : Wallets, amount : Amounts]

Running == {"new", "check", "hold", "move", "book", "route", "dispatch",
            "send", "finalize", "credit"}
Ended == {"completed", "failed"}

EventNames == {"TransactionCreated", "CompliancePassed", "LiquidityReserved",
               "RouteSelected", "SettlementStarted", "SettlementConfirmed",
               "LedgerCommitted", "WalletCredited", "PaymentFailed"}

TypeOK ==
  /\ request \in [Payments -> Requests]
  /\ stage \in [Payments -> Running \cup Ended]
  /\ available \in [Wallets -> Nat]
  /\ locked \in [Wallets -> Nat]
  /\ hold \in [Payments -> {"none", "open", "released"}]
  /\ entry \in [Payments -> {"none", "provisional", "committed"}]
  /\ provider \in [Payments -> Routes \cup {NoRoute}]
  /\ receipt \in [Payments -> {"none", "success", "pending", "failed"}]
  /\ chain \in [Payments -> {"none", "in_flight", "landed", "dropped"}]
  /\ emitted \in [Payments -> SUBSET EventNames]

Wallet(p) == request[p].wallet

Amount == [p \in Payments |-> request[p].amount]

-----------------------------------------------------------------------------
Init ==
  /\ request \in [Payments -> Requests]
  /\ stage = [p \in Payments |-> "new"]
  /\ available = Funding
  /\ locked = [w \in Wallets |-> 0]
  /\ hold = [p \in Payments |-> "none"]
  /\ entry = [p \in Payments |-> "none"]
  /\ provider = [p \in Payments |-> NoRoute]
  /\ receipt = [p \in Payments |-> "none"]
  /\ chain = [p \in Payments |-> "none"]
  /\ emitted = [p \in Payments |-> {}]

\* The call goes on from one await to the next and emits events on the way.
Advance(p, from, to, events) ==
  /\ stage[p] = from
  /\ stage' = [stage EXCEPT ![p] = to]
  /\ emitted' = [emitted EXCEPT ![p] = @ \cup events]

\* The catch block: it reports the failure and rethrows.  Nothing the call did
\* before is undone.
Fail(p, from, events) == Advance(p, from, "failed", events \cup {"PaymentFailed"})

\* initiatePayment up to the first await.
Initiate(p) ==
  /\ Advance(p, "new", "check", {"TransactionCreated", "CompliancePassed"})
  /\ UNCHANGED <<request, available, locked, hold, entry, provider, receipt, chain>>

\* WalletService.checkSufficientBalance; getById returns the live wallet object,
\* so the comparison sees the balance of this moment.
Sufficient(p) == Wallet(p) \in Existing /\ available[Wallet(p)] >= Amount[p]

CheckBalance(p) ==
  /\ \/ Sufficient(p) /\ Advance(p, "check", "hold", {})
     \/ ~Sufficient(p) /\ Fail(p, "check", {})
  /\ UNCHANGED <<request, available, locked, hold, entry, provider, receipt, chain>>

\* InMemoryWalletRepository.createHold records the hold and nothing else.
CreateHold(p) ==
  /\ Advance(p, "hold", "move", {})
  /\ hold' = [hold EXCEPT ![p] = "open"]
  /\ UNCHANGED <<request, available, locked, entry, provider, receipt, chain>>

\* InMemoryWalletRepository.updateBalances, which compares again.  A negative
\* amount moves back to available what other payments locked, if there is enough.
Uncompared(w, a) == TRUE
ComparesAvailable(w, a) == available[w] - a >= 0
Covers(w, a) == available[w] - a >= 0 /\ locked[w] + a >= 0

UpdateBalances(p) ==
  LET w == Wallet(p)
      a == Amount[p]
  IN  \/ /\ Covers(w, a)
         /\ Advance(p, "move", "book", {})
         /\ available' = [available EXCEPT ![w] = @ - a]
         /\ locked' = [locked EXCEPT ![w] = @ + a]
         /\ UNCHANGED <<request, hold, entry, provider, receipt, chain>>
      \/ /\ ~Covers(w, a)
         /\ Fail(p, "move", {})
         /\ UNCHANGED <<request, available, locked, hold, entry, provider,
                        receipt, chain>>

NotNegative(p) == Amount[p] >= 0
IsPositive(p) == Amount[p] > 0

\* reserveFunds has returned; LedgerService.createProvisionalEntries refuses an
\* amount that is not positive, after the funds were reserved.
CreateProvisionalEntries(p) ==
  /\ \/ /\ IsPositive(p)
        /\ Advance(p, "book", "route", {"LiquidityReserved"})
        /\ entry' = [entry EXCEPT ![p] = "provisional"]
     \/ /\ ~IsPositive(p)
        /\ Fail(p, "book", {"LiquidityReserved"})
        /\ UNCHANGED entry
  /\ UNCHANGED <<request, available, locked, hold, provider, receipt, chain>>

\* RoutingEngine.findOptimalRoute: which routes are candidates, and at what
\* cost, depends on corridors, fees and pools outside this model; without a
\* candidate it throws.
FindOptimalRoute(p) ==
  /\ \/ /\ Advance(p, "route", "dispatch", {})
        /\ \E r \in Routes : provider' = [provider EXCEPT ![p] = r]
     \/ /\ Fail(p, "route", {})
        /\ UNCHANGED provider
  /\ UNCHANGED <<request, available, locked, hold, entry, receipt, chain>>

\* Without the error for a provider that is not registered.
DispatchOrWait(p) ==
  /\ provider[p] \in Registered
  /\ Advance(p, "dispatch", "send", {"RouteSelected", "SettlementStarted"})
  /\ UNCHANGED <<request, available, locked, hold, entry, provider, receipt, chain>>

\* The provider is looked up by the name in the route, and send is called.
Dispatch(p) ==
  /\ \/ /\ provider[p] \in Registered
        /\ Advance(p, "dispatch", "send", {"RouteSelected", "SettlementStarted"})
     \/ /\ provider[p] \notin Registered
        /\ Fail(p, "dispatch", {"RouteSelected"})
  /\ UNCHANGED <<request, available, locked, hold, entry, provider, receipt, chain>>

\* MockSettlementProvider and InternalRailProvider settle at once.
\* BlockchainSettlementAdapter answers 'pending' for a broadcast, and 'failed'
\* for any exception: before the broadcast, or after the node took it.
Answers(p) ==
  IF provider[p] \in Instant
  THEN {[status |-> "success", left |-> "landed"]}
  ELSE {[status |-> "pending", left |-> "in_flight"],
        [status |-> "failed",  left |-> "none"],
        [status |-> "failed",  left |-> "in_flight"]}

NeverRefused(answer) == FALSE
Refused(answer) == answer.status = "failed"

\* The rollback that the catch block announces, made as soon as send has failed.
SettleGivingBack(p) ==
  /\ \E answer \in Answers(p) :
       /\ receipt' = [receipt EXCEPT ![p] = answer.status]
       /\ chain' = [chain EXCEPT ![p] = answer.left]
       /\ \/ /\ ~Refused(answer) /\ Advance(p, "send", "finalize", {"SettlementConfirmed"})
             /\ UNCHANGED <<available, locked>>
          \/ /\ Refused(answer) /\ Fail(p, "send", {})
             /\ available' = [available EXCEPT ![Wallet(p)] = @ + Amount[p]]
             /\ locked' = [locked EXCEPT ![Wallet(p)] = @ - Amount[p]]
  /\ UNCHANGED <<request, hold, entry, provider>>

Settle(p) ==
  /\ \E answer \in Answers(p) :
       /\ receipt' = [receipt EXCEPT ![p] = answer.status]
       /\ chain' = [chain EXCEPT ![p] = answer.left]
       /\ \/ ~Refused(answer) /\ Advance(p, "send", "finalize", {"SettlementConfirmed"})
          \/ Refused(answer) /\ Fail(p, "send", {})
  /\ UNCHANGED <<request, available, locked, hold, entry, provider>>

\* LedgerService.finalizeEntries is a stub and changes no entry;
\* WalletService.commitFunds releases the hold and moves no balance.
FinalizeEntries(p) == UNCHANGED entry

CommitFundsByReturning(p) ==
  /\ hold' = [hold EXCEPT ![p] = "released"]
  /\ available' = [available EXCEPT ![Wallet(p)] = @ + Amount[p]]
  /\ locked' = [locked EXCEPT ![Wallet(p)] = @ - Amount[p]]

CommitFunds(p) ==
  /\ hold' = [hold EXCEPT ![p] = "released"]
  /\ UNCHANGED <<available, locked>>

Commit(p) ==
  /\ Advance(p, "finalize", "credit", {"LedgerCommitted"})
  /\ FinalizeEntries(p)
  /\ CommitFunds(p)
  /\ UNCHANGED <<request, provider, receipt, chain>>

Complete(p) ==
  /\ Advance(p, "credit", "completed", {"WalletCredited"})
  /\ UNCHANGED <<request, available, locked, hold, entry, provider, receipt, chain>>

\* The chain confirms or drops a transaction that was broadcast.
ChainResolves(p) ==
  /\ chain[p] = "in_flight"
  /\ \E outcome \in {"landed", "dropped"} : chain' = [chain EXCEPT ![p] = outcome]
  /\ UNCHANGED <<request, stage, available, locked, hold, entry, provider,
                 receipt, emitted>>

Step(p) ==
  \/ Initiate(p)
  \/ CheckBalance(p)
  \/ CreateHold(p)
  \/ UpdateBalances(p)
  \/ CreateProvisionalEntries(p)
  \/ FindOptimalRoute(p)
  \/ Dispatch(p)
  \/ Settle(p)
  \/ Commit(p)
  \/ Complete(p)

Next == \E p \in Payments : Step(p) \/ ChainResolves(p)

Spec == Init /\ [][Next]_vars

\* The event loop runs every continuation that is ready, and a provider's
\* promise settles: the mock by its timer, the adapter by its RPC calls.
FairSpec == Spec /\ \A p \in Payments : WF_vars(Step(p))

-----------------------------------------------------------------------------
\* The payment's update of the balances took effect: it has just run, or the
\* LiquidityReserved event says so.
Reserved(p) == stage[p] = "book" \/ "LiquidityReserved" \in emitted[p]

\* The payment was handed to a settlement provider.
SentOut(p) == "SettlementStarted" \in emitted[p]

\* What the update of a payment takes from the available balance, and what that
\* of a request with a negative amount puts back into it.
Taken == [p \in Payments |-> IF Amount[p] > 0 THEN Amount[p] ELSE 0]
PutBack == [p \in Payments |-> IF Amount[p] < 0 THEN -Amount[p] ELSE 0]

ReservedOn(w) == {p \in Payments : Wallet(p) = w /\ Reserved(p)}
SentFrom(w) == {p \in Payments : Wallet(p) = w /\ SentOut(p)}
OnChain(w) == {p \in Payments : Wallet(p) = w /\ chain[p] # "none"}

\* Every unit that left a wallet's available balance is in its locked balance
\* and belongs to a payment whose events say that it reserved funds, less what
\* negative amounts put back, whatever payments interleave between the balance
\* check, the hold and the update.
WalletAccounting ==
  \A w \in Wallets :
    /\ locked[w] + Total(PutBack, ReservedOn(w)) = Total(Taken, ReservedOn(w))
    /\ available[w] = Funding[w] - locked[w]

\* What providers were asked to send from a wallet exceeds what the wallet held
\* by no more than requests with a negative amount put back, and so not at all
\* without one: the check that reserveFunds makes before its awaits may be
\* stale, the one in updateBalances is not.
PayoutsCovered ==
  \A w \in Wallets :
    Total(Taken, SentFrom(w)) <= Funding[w] + Total(PutBack, ReservedOn(w))

\* A provider is asked to send a payment only after its funds were reserved
\* under a hold that is still open and its ledger entry was written.
SentOnlyWhenSecured ==
  \A p \in Payments :
    stage[p] = "send" =>
      /\ Reserved(p)
      /\ hold[p] = "open"
      /\ entry[p] = "provisional"
      /\ Wallet(p) \in Existing
      /\ Amount[p] > 0

\* What providers are asked to send is covered, in sum by the wallet and what
\* was put back into it, and one by one by a hold and an entry of its own.
SendsAreSecured == PayoutsCovered /\ SentOnlyWhenSecured

\* A payment reported to its caller as completed was accepted by its provider,
\* and is never also reported as failed; the hold of a payment is released
\* exactly when its LedgerCommitted event is emitted.
OutcomeIsConsistent ==
  \A p \in Payments :
    /\ stage[p] = "completed" =>
         /\ receipt[p] \in {"success", "pending"}
         /\ chain[p] # "none"
         /\ "PaymentFailed" \notin emitted[p]
    /\ hold[p] = "released" <=> "LedgerCommitted" \in emitted[p]
    /\ "LedgerCommitted" \in emitted[p] => "SettlementConfirmed" \in emitted[p]

\* Whatever the caller was told, what the chain has been given is still locked
\* or was put back by a negative amount: a payment reported as failed may land
\* later, and one reported as completed may be dropped.
ChainIsCovered ==
  \A w \in Wallets :
    Total(Taken, OnChain(w)) <= locked[w] + Total(PutBack, ReservedOn(w))

\* Every call of initiatePayment returns or throws.
EveryPaymentEnds == \A p \in Payments : <>(stage[p] \in Ended)

\* The promise to the owner of the wallet, with the funds taken at the update.
Promise == INSTANCE WalletPromise WITH
  free  <- available,
  taken <- locked,
  claim <- [p \in Payments |->
              IF SentOut(p) THEN "sent"
              ELSE IF Reserved(p) THEN IF Amount[p] < 0 THEN "put_back" ELSE "taken"
              ELSE IF stage[p] = "failed" THEN "given_up"
              ELSE "none"]

\* The staged, interleaved reservation behaves like one that checks and takes
\* the funds in a single step.
KeepsPromise == Promise!Spec

=============================================================================
