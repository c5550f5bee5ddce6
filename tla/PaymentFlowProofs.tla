-------------------------- MODULE PaymentFlowProofs --------------------------
(***************************************************************************)
(* Proofs about PaymentFlow for any finite set of calls, any wallets and   *)
(* any amounts.  The inductive invariant is Inv: the types, the accounting *)
(* of the wallets, and Progress, which says what each stage of a call      *)
(* implies about everything else the call has touched.                     *)
(***************************************************************************)
EXTENDS PaymentFlow, TLAPS

\* The stages between two effects of a call.
BeforeUpdate == {"new", "check", "hold", "move"}
AfterBooking == {"route", "dispatch", "send", "finalize", "credit", "completed"}
AfterSending == {"send", "finalize", "credit", "completed"}
AfterAnswer  == {"finalize", "credit", "completed"}
AfterCommit  == {"credit", "completed"}

ReservationProgress(p) ==
  /\ stage[p] \in BeforeUpdate \cup {"book"} => "LiquidityReserved" \notin emitted[p]
  /\ stage[p] \in AfterBooking => "LiquidityReserved" \in emitted[p]
  /\ stage[p] \in AfterBooking => entry[p] = "provisional" /\ Amount[p] > 0
  /\ stage[p] \in (Running \cup AfterBooking) \ {"new", "check"} => Wallet(p) \in Existing

SettlementProgress(p) ==
  /\ stage[p] \in AfterSending => SentOut(p)
  /\ SentOut(p) => stage[p] \in AfterSending \cup {"failed"}
  /\ SentOut(p) => "LiquidityReserved" \in emitted[p]
  /\ chain[p] # "none" => SentOut(p)
  /\ stage[p] \in AfterAnswer =>
       receipt[p] \in {"success", "pending"} /\ chain[p] # "none"
                                             /\ "SettlementConfirmed" \in emitted[p]

HoldProgress(p) ==
  /\ stage[p] \in Running \ {"new", "check", "hold", "credit"} => hold[p] = "open"
  /\ hold[p] = "released" <=> "LedgerCommitted" \in emitted[p]
  /\ hold[p] = "released" <=> stage[p] \in AfterCommit

Progress ==
  \A p \in Payments :
    /\ ReservationProgress(p)
    /\ SettlementProgress(p)
    /\ HoldProgress(p)
    /\ "PaymentFailed" \in emitted[p] <=> stage[p] = "failed"

Inv == TypeOK /\ WalletAccounting /\ Progress

-----------------------------------------------------------------------------
(* The amounts of the requests are integers; what an update takes and what it
   puts back are natural numbers, and their difference is the amount. *)
LEMMA AmountType ==
  ASSUME TypeOK
  PROVE  /\ Amount \in [Payments -> Int]
         /\ Taken \in [Payments -> Nat] /\ PutBack \in [Payments -> Nat]
         /\ \A p \in Payments : Amount[p] = Taken[p] - PutBack[p]
         /\ \A p \in Payments : Wallet(p) \in Wallets
<1>1. Amount \in [Payments -> Int] /\ \A p \in Payments : Wallet(p) \in Wallets
  BY AmountsAssumption DEF TypeOK, Requests, Amount, Wallet
<1>2. ASSUME NEW p \in Payments
      PROVE  /\ Taken[p] = IF Amount[p] > 0 THEN Amount[p] ELSE 0
             /\ PutBack[p] = IF Amount[p] < 0 THEN -Amount[p] ELSE 0
  BY DEF Taken, PutBack
<1>3. ASSUME NEW p \in Payments
      PROVE  Taken[p] \in Nat /\ PutBack[p] \in Nat /\ Amount[p] = Taken[p] - PutBack[p]
  BY <1>1, <1>2
<1>4. Taken \in [Payments -> Nat] /\ PutBack \in [Payments -> Nat]
  BY <1>3 DEF Taken, PutBack
<1> QED
  BY <1>1, <1>3, <1>4

(* A step that leaves the requests alone leaves the amounts alone. *)
LEMMA AmountSame ==
  ASSUME UNCHANGED request
  PROVE  /\ Amount' = Amount /\ Taken' = Taken /\ PutBack' = PutBack
         /\ \A p \in Payments : Wallet(p)' = Wallet(p)
BY DEF Amount, Wallet, Taken, PutBack

(* No step changes a request. *)
LEMMA RequestConstant ==
  ASSUME [Next]_vars
  PROVE  UNCHANGED request
BY DEF Next, Step, vars, Initiate, CheckBalance, CreateHold, UpdateBalances,
       CreateProvisionalEntries, FindOptimalRoute, Dispatch, Settle, Commit,
       Complete, ChainResolves

-----------------------------------------------------------------------------
(* The initial states satisfy the invariant. *)
LEMMA InitInv == Init => Inv
<1> SUFFICES ASSUME Init PROVE Inv
  OBVIOUS
<1> USE DEF Init
<1>1. TypeOK
  BY WalletsAssumption DEF TypeOK, Running
<1>2. Progress
  BY DEF Progress, ReservationProgress, SettlementProgress, HoldProgress, SentOut,
         Running, BeforeUpdate, AfterBooking, AfterSending, AfterAnswer, AfterCommit
<1>3. WalletAccounting
  <2>1. \A w \in Wallets : ReservedOn(w) = {}
    BY DEF ReservedOn, Reserved
  <2>2. Funding \in [Wallets -> Nat]
    BY WalletsAssumption
  <2>3. Total(Taken, {}) = 0 /\ Total(PutBack, {}) = 0
    BY TotalEmpty
  <2>4. ASSUME NEW w \in Wallets
        PROVE  /\ locked[w] + Total(PutBack, ReservedOn(w)) = Total(Taken, ReservedOn(w))
               /\ available[w] = Funding[w] - locked[w]
    <3>1. Total(Taken, ReservedOn(w)) = 0 /\ Total(PutBack, ReservedOn(w)) = 0
      BY <2>1, <2>3
    <3>2. locked[w] = 0 /\ available[w] = Funding[w] /\ Funding[w] \in Nat
      BY <2>2
    <3> QED
      BY <3>1, <3>2
  <2> QED
    BY <2>4 DEF WalletAccounting
<1> QED
  BY <1>1, <1>2, <1>3 DEF Inv

(* Every step preserves the types. *)
LEMMA TypeStep ==
  ASSUME TypeOK, [Next]_vars
  PROVE  TypeOK'
<1> USE DEF TypeOK, Advance, Fail, Running, Ended, EventNames
<1>1. ASSUME NEW p \in Payments, Initiate(p) PROVE TypeOK'
  BY <1>1 DEF Initiate
<1>2. ASSUME NEW p \in Payments, CheckBalance(p) PROVE TypeOK'
  BY <1>2 DEF CheckBalance
<1>3. ASSUME NEW p \in Payments, CreateHold(p) PROVE TypeOK'
  BY <1>3 DEF CreateHold
<1>4. ASSUME NEW p \in Payments, UpdateBalances(p) PROVE TypeOK'
  <2>1. Amount[p] \in Int /\ Wallet(p) \in Wallets
    BY AmountType
  <2>2. CASE Covers(Wallet(p), Amount[p])
    <3>1. available[Wallet(p)] - Amount[p] \in Nat /\ locked[Wallet(p)] + Amount[p] \in Nat
      BY <2>1, <2>2 DEF Covers
    <3>3. available' \in [Wallets -> Nat] /\ locked' \in [Wallets -> Nat]
      BY <1>4, <2>1, <2>2, <3>1 DEF UpdateBalances
    <3> QED
      BY <1>4, <2>2, <3>3 DEF UpdateBalances
  <2>3. CASE ~Covers(Wallet(p), Amount[p])
    BY <1>4, <2>3 DEF UpdateBalances
  <2> QED
    BY <2>2, <2>3
<1>5. ASSUME NEW p \in Payments, CreateProvisionalEntries(p) PROVE TypeOK'
  BY <1>5 DEF CreateProvisionalEntries
<1>6. ASSUME NEW p \in Payments, FindOptimalRoute(p) PROVE TypeOK'
  BY <1>6 DEF FindOptimalRoute
<1>7. ASSUME NEW p \in Payments, Dispatch(p) PROVE TypeOK'
  BY <1>7 DEF Dispatch
<1>8. ASSUME NEW p \in Payments, Settle(p) PROVE TypeOK'
  BY <1>8 DEF Settle, Answers
<1>9. ASSUME NEW p \in Payments, Commit(p) PROVE TypeOK'
  BY <1>9 DEF Commit, FinalizeEntries, CommitFunds
<1>10. ASSUME NEW p \in Payments, Complete(p) PROVE TypeOK'
  BY <1>10 DEF Complete
<1>11. ASSUME NEW p \in Payments, ChainResolves(p) PROVE TypeOK'
  BY <1>11 DEF ChainResolves
<1>12. CASE UNCHANGED vars
  BY <1>12 DEF vars
<1> QED
  BY <1>1, <1>2, <1>3, <1>4, <1>5, <1>6, <1>7, <1>8, <1>9, <1>10, <1>11, <1>12
     DEF Next, Step

(* Every step preserves what the stages imply. *)
LEMMA ProgressStep ==
  ASSUME TypeOK, Progress, [Next]_vars
  PROVE  Progress'
<1> USE DEF Progress, ReservationProgress, SettlementProgress, HoldProgress, SentOut,
            Running, Ended, BeforeUpdate, AfterBooking, AfterSending, AfterAnswer,
            AfterCommit, TypeOK, Advance, Fail
<1>0. UNCHANGED request
  BY RequestConstant
<1>a. Amount' = Amount /\ \A p \in Payments : Wallet(p)' = Wallet(p)
  BY <1>0, AmountSame
<1>1. ASSUME NEW p \in Payments, Initiate(p) PROVE Progress'
  BY <1>1, <1>a DEF Initiate
<1>2. ASSUME NEW p \in Payments, CheckBalance(p) PROVE Progress'
  BY <1>2, <1>a DEF CheckBalance, Sufficient
<1>3. ASSUME NEW p \in Payments, CreateHold(p) PROVE Progress'
  BY <1>3, <1>a DEF CreateHold
<1>4. ASSUME NEW p \in Payments, UpdateBalances(p) PROVE Progress'
  BY <1>4, <1>a DEF UpdateBalances
<1>5. ASSUME NEW p \in Payments, CreateProvisionalEntries(p) PROVE Progress'
  BY <1>5, <1>a DEF CreateProvisionalEntries, IsPositive
<1>6. ASSUME NEW p \in Payments, FindOptimalRoute(p) PROVE Progress'
  BY <1>6, <1>a DEF FindOptimalRoute
<1>7. ASSUME NEW p \in Payments, Dispatch(p) PROVE Progress'
  BY <1>7, <1>a DEF Dispatch
<1>8. ASSUME NEW p \in Payments, Settle(p) PROVE Progress'
  BY <1>8, <1>a DEF Settle, Answers, Refused
<1>9. ASSUME NEW p \in Payments, Commit(p) PROVE Progress'
  BY <1>9, <1>a DEF Commit, FinalizeEntries, CommitFunds
<1>10. ASSUME NEW p \in Payments, Complete(p) PROVE Progress'
  BY <1>10, <1>a DEF Complete
<1>11. ASSUME NEW p \in Payments, ChainResolves(p) PROVE Progress'
  BY <1>11, <1>a DEF ChainResolves
<1>12. CASE UNCHANGED vars
  BY <1>12, <1>a DEF vars
<1> QED
  BY <1>1, <1>2, <1>3, <1>4, <1>5, <1>6, <1>7, <1>8, <1>9, <1>10, <1>11, <1>12
     DEF Next, Step

(* A step that reserves nothing and moves no balance keeps the accounts. *)
LEMMA AccountingSame ==
  ASSUME WalletAccounting, UNCHANGED <<request, available, locked>>,
         \A p \in Payments : Reserved(p)' <=> Reserved(p)
  PROVE  WalletAccounting'
<1>1. /\ Taken' = Taken /\ PutBack' = PutBack
      /\ \A p \in Payments : Wallet(p)' = Wallet(p)
  BY AmountSame
<1>2. \A w \in Wallets : ReservedOn(w)' = ReservedOn(w)
  BY <1>1 DEF ReservedOn
<1> QED
  BY <1>1, <1>2 DEF WalletAccounting

(* A payment whose update takes effect is one more reserved on its wallet, and
   the accounts of every wallet still agree. *)
LEMMA AccountingTake ==
  ASSUME TypeOK, WalletAccounting, Progress, NEW p \in Payments,
         UpdateBalances(p), Covers(Wallet(p), Amount[p])
  PROVE  WalletAccounting'
<1> DEFINE w0 == Wallet(p)
<1>1. /\ Taken' = Taken /\ PutBack' = PutBack
      /\ \A q \in Payments : Wallet(q)' = Wallet(q)
  BY AmountSame DEF UpdateBalances
<1>2. /\ Taken \in [Payments -> Nat] /\ PutBack \in [Payments -> Nat] /\ w0 \in Wallets
      /\ Amount[p] = Taken[p] - PutBack[p]
  BY AmountType
<1>3. stage[p] = "move" /\ stage' = [stage EXCEPT ![p] = "book"] /\ emitted' = emitted
  BY DEF UpdateBalances, Advance, TypeOK
<1>4. /\ available' = [available EXCEPT ![w0] = @ - Amount[p]]
      /\ locked' = [locked EXCEPT ![w0] = @ + Amount[p]]
  BY DEF UpdateBalances
<1>5. \A q \in Payments : Reserved(q)' <=> Reserved(q) \/ q = p
  BY <1>3 DEF Reserved, TypeOK
<1>6. ~Reserved(p)
  BY <1>3 DEF Reserved, Progress, ReservationProgress, BeforeUpdate
<1>7. p \notin ReservedOn(w0)
  BY <1>6 DEF ReservedOn
<1>8. \A w \in Wallets \ {w0} : ReservedOn(w)' = ReservedOn(w)
  BY <1>1, <1>5 DEF ReservedOn
<1>f. IsFiniteSet(ReservedOn(w0))
  BY PaymentsAssumption, FS_Subset DEF ReservedOn
<1>9. Total(Taken, ReservedOn(w0) \cup {p}) = Total(Taken, ReservedOn(w0)) + Taken[p]
  <2>1. \A q \in ReservedOn(w0) \cup {p} : Taken[q] \in Nat
    BY <1>2 DEF ReservedOn
  <2> QED
    BY <1>7, <1>f, <2>1, TotalAdd
<1>b. Total(PutBack, ReservedOn(w0) \cup {p}) = Total(PutBack, ReservedOn(w0)) + PutBack[p]
  <2>1. \A q \in ReservedOn(w0) \cup {p} : PutBack[q] \in Nat
    BY <1>2 DEF ReservedOn
  <2> QED
    BY <1>7, <1>f, <2>1, TotalAdd
<1>n. Total(PutBack, ReservedOn(w0)) \in Nat /\ Total(Taken, ReservedOn(w0)) \in Nat
  <2>1. \A q \in ReservedOn(w0) : PutBack[q] \in Nat /\ Taken[q] \in Nat
    BY <1>2 DEF ReservedOn
  <2> QED
    BY <1>f, <2>1, TotalType
<1> SUFFICES ASSUME NEW w \in Wallets
             PROVE  /\ locked'[w] + Total(PutBack, ReservedOn(w)') = Total(Taken, ReservedOn(w)')
                    /\ available'[w] = Funding[w] - locked'[w]
  BY <1>1 DEF WalletAccounting
<1>10. /\ locked[w] + Total(PutBack, ReservedOn(w)) = Total(Taken, ReservedOn(w))
       /\ available[w] = Funding[w] - locked[w]
       /\ locked[w] \in Nat /\ available[w] \in Nat /\ Funding[w] \in Nat
       /\ Taken[p] \in Nat /\ PutBack[p] \in Nat
  BY <1>2, WalletsAssumption DEF WalletAccounting, TypeOK
<1>11. CASE w = w0
  <2>1. locked'[w] = locked[w] + Amount[p] /\ available'[w] = available[w] - Amount[p]
    BY <1>2, <1>4, <1>11 DEF TypeOK
  <2>2. locked'[w] + Total(PutBack, ReservedOn(w)') = Total(Taken, ReservedOn(w)')
    <3>1. ReservedOn(w)' = ReservedOn(w0) \cup {p}
      BY <1>1, <1>5, <1>11 DEF ReservedOn
    <3>2. /\ Total(Taken, ReservedOn(w)') = Total(Taken, ReservedOn(w0)) + Taken[p]
          /\ Total(PutBack, ReservedOn(w)') = Total(PutBack, ReservedOn(w0)) + PutBack[p]
      BY <3>1, <1>9, <1>b
    <3>3. locked[w] + Total(PutBack, ReservedOn(w0)) = Total(Taken, ReservedOn(w0))
      BY <1>10, <1>11
    <3> DEFINE tn == Total(Taken, ReservedOn(w0))
               bn == Total(PutBack, ReservedOn(w0))
    <3>4. tn \in Nat /\ bn \in Nat
      BY <1>n
    <3> HIDE DEF tn, bn
    <3>5. locked[w] + Amount[p] + (bn + PutBack[p]) = tn + Taken[p]
      BY <1>2, <1>10, <3>3, <3>4 DEF tn, bn
    <3> QED
      BY <2>1, <3>2, <3>5 DEF tn, bn
  <2>3. available'[w] = Funding[w] - locked'[w]
    <3>1. Amount[p] \in Int
      BY <1>2, <1>10
    <3> QED
      BY <1>10, <2>1, <3>1
  <2> QED
    BY <2>2, <2>3
<1>12. CASE w # w0
  BY <1>4, <1>8, <1>10, <1>12 DEF TypeOK
<1> QED
  BY <1>11, <1>12

(* Every step preserves the accounts of the wallets. *)
LEMMA AccountingStep ==
  ASSUME TypeOK, WalletAccounting, Progress, [Next]_vars
  PROVE  WalletAccounting'
<1> USE DEF Advance, Fail
<1>p. \A p \in Payments :
        /\ stage[p] \in BeforeUpdate \cup {"book"} => "LiquidityReserved" \notin emitted[p]
        /\ stage[p] \in AfterBooking => "LiquidityReserved" \in emitted[p]
  BY DEF Progress, ReservationProgress
<1> USE DEF BeforeUpdate, AfterBooking
<1>1. ASSUME NEW p \in Payments, Initiate(p) PROVE WalletAccounting'
  BY <1>1, AccountingSame DEF Initiate, Reserved, TypeOK
<1>2. ASSUME NEW p \in Payments, CheckBalance(p) PROVE WalletAccounting'
  BY <1>2, AccountingSame DEF CheckBalance, Reserved, TypeOK
<1>3. ASSUME NEW p \in Payments, CreateHold(p) PROVE WalletAccounting'
  BY <1>3, AccountingSame DEF CreateHold, Reserved, TypeOK
<1>4. ASSUME NEW p \in Payments, UpdateBalances(p) PROVE WalletAccounting'
  <2>1. CASE Covers(Wallet(p), Amount[p])
    BY <1>4, <2>1, AccountingTake
  <2>2. CASE ~Covers(Wallet(p), Amount[p])
    BY <1>4, <2>2, AccountingSame DEF UpdateBalances, Reserved, TypeOK
  <2> QED
    BY <2>1, <2>2
<1>5. ASSUME NEW p \in Payments, CreateProvisionalEntries(p) PROVE WalletAccounting'
  BY <1>5, AccountingSame DEF CreateProvisionalEntries, Reserved, TypeOK
<1>6. ASSUME NEW p \in Payments, FindOptimalRoute(p) PROVE WalletAccounting'
  BY <1>6, AccountingSame DEF FindOptimalRoute, Reserved, TypeOK
<1>7. ASSUME NEW p \in Payments, Dispatch(p) PROVE WalletAccounting'
  BY <1>7, AccountingSame DEF Dispatch, Reserved, TypeOK
<1>8. ASSUME NEW p \in Payments, Settle(p) PROVE WalletAccounting'
  BY <1>8, AccountingSame DEF Settle, Reserved, TypeOK
<1>9. ASSUME NEW p \in Payments, Commit(p) PROVE WalletAccounting'
  BY <1>9, AccountingSame DEF Commit, CommitFunds, Reserved, TypeOK
<1>10. ASSUME NEW p \in Payments, Complete(p) PROVE WalletAccounting'
  BY <1>10, AccountingSame DEF Complete, Reserved, TypeOK
<1>11. ASSUME NEW p \in Payments, ChainResolves(p) PROVE WalletAccounting'
  BY <1>11, AccountingSame DEF ChainResolves, Reserved, TypeOK
<1>12. CASE UNCHANGED vars
  BY <1>12, AccountingSame DEF vars, Reserved
<1> QED
  BY <1>1, <1>2, <1>3, <1>4, <1>5, <1>6, <1>7, <1>8, <1>9, <1>10, <1>11, <1>12
     DEF Next, Step

-----------------------------------------------------------------------------
(* The invariant holds in every state: it holds initially and every step of
   every call, and of the chain, preserves it. *)
THEOREM Invariance == Spec => []Inv
<1>1. Init => Inv
  BY InitInv
<1>2. Inv /\ [Next]_vars => Inv'
  BY TypeStep, ProgressStep, AccountingStep DEF Inv
<1> QED
  BY <1>1, <1>2, PTL DEF Spec

(* Type correctness: in particular no balance ever becomes negative. *)
THEOREM TypeCorrect == Spec => []TypeOK
<1>1. Inv => TypeOK
  BY DEF Inv
<1> QED
  BY <1>1, Invariance, PTL

(* However many payments compete for a wallet, what is locked in it is the sum
   of the amounts reserved there and the rest is still available. *)
THEOREM AccountingHolds == Spec => []WalletAccounting
<1>1. Inv => WalletAccounting
  BY DEF Inv
<1> QED
  BY <1>1, Invariance, PTL

(* What some of the payments reserved on a wallet took is still locked there or
   was put back. *)
LEMMA SomeReserved ==
  ASSUME Inv, NEW w \in Wallets, NEW S \in SUBSET ReservedOn(w)
  PROVE  /\ Total(Taken, S) <= locked[w] + Total(PutBack, ReservedOn(w))
         /\ Total(Taken, S) \in Nat /\ Total(PutBack, ReservedOn(w)) \in Nat
<1>1. IsFiniteSet(ReservedOn(w))
  BY PaymentsAssumption, FS_Subset DEF ReservedOn
<1>2. \A p \in ReservedOn(w) : Taken[p] \in Nat /\ PutBack[p] \in Nat
  BY AmountType DEF Inv, ReservedOn
<1>3. Total(Taken, S) <= Total(Taken, ReservedOn(w))
  BY <1>1, <1>2, TotalSubset
<1>4. IsFiniteSet(S) /\ \A p \in S : Taken[p] \in Nat
  BY <1>1, <1>2, FS_Subset
<1>5. Total(Taken, S) \in Nat /\ Total(PutBack, ReservedOn(w)) \in Nat
  BY <1>1, <1>2, <1>4, TotalType
<1>6. locked[w] + Total(PutBack, ReservedOn(w)) = Total(Taken, ReservedOn(w))
  BY DEF Inv, WalletAccounting
<1> QED
  BY <1>3, <1>5, <1>6

(* What providers are asked to send from a wallet is covered by its funding and
   what was put back: the payments sent out are among those that reserved. *)
THEOREM PayoutsAreCovered == Spec => []PayoutsCovered
<1>1. Inv => PayoutsCovered
  <2> SUFFICES ASSUME Inv, NEW w \in Wallets
               PROVE  Total(Taken, SentFrom(w)) <= Funding[w] + Total(PutBack, ReservedOn(w))
    BY DEF PayoutsCovered
  <2>1. SentFrom(w) \in SUBSET ReservedOn(w)
    BY DEF Inv, Progress, SettlementProgress, SentFrom, ReservedOn, Reserved
  <2>2. /\ Total(Taken, SentFrom(w)) <= locked[w] + Total(PutBack, ReservedOn(w))
        /\ Total(Taken, SentFrom(w)) \in Nat /\ Total(PutBack, ReservedOn(w)) \in Nat
    BY <2>1, SomeReserved
  <2>3. /\ available[w] = Funding[w] - locked[w]
        /\ locked[w] \in Nat /\ available[w] \in Nat /\ Funding[w] \in Nat
    BY WalletsAssumption DEF Inv, WalletAccounting, TypeOK
  <2> QED
    BY <2>2, <2>3
<1> QED
  BY <1>1, Invariance, PTL

(* What the chain has been given, whatever became of it and whatever the caller
   was told, is still locked or was put back by a negative amount. *)
THEOREM ChainStaysCovered == Spec => []ChainIsCovered
<1>1. Inv => ChainIsCovered
  <2> SUFFICES ASSUME Inv, NEW w \in Wallets
               PROVE  Total(Taken, OnChain(w)) <= locked[w] + Total(PutBack, ReservedOn(w))
    BY DEF ChainIsCovered
  <2>1. OnChain(w) \in SUBSET ReservedOn(w)
    BY DEF Inv, Progress, SettlementProgress, OnChain, ReservedOn, Reserved
  <2> QED
    BY <2>1, SomeReserved
<1> QED
  BY <1>1, Invariance, PTL

(* A provider is asked to send only under an open hold and a written entry. *)
THEOREM SentIsSecured == Spec => []SentOnlyWhenSecured
<1>1. Inv => SentOnlyWhenSecured
  BY DEF Inv, Progress, ReservationProgress, HoldProgress, SentOnlyWhenSecured, Reserved,
         Running, AfterBooking
<1> QED
  BY <1>1, Invariance, PTL

(* What providers are asked to send is covered and secured. *)
THEOREM SendsStaySecured == Spec => []SendsAreSecured
<1>1. PayoutsCovered /\ SentOnlyWhenSecured => SendsAreSecured
  BY DEF SendsAreSecured
<1> QED
  BY <1>1, PayoutsAreCovered, SentIsSecured, PTL

(* The final events, the provider's answer and the hold agree. *)
THEOREM OutcomesAreConsistent == Spec => []OutcomeIsConsistent
<1>1. Inv => OutcomeIsConsistent
  BY DEF Inv, Progress, SettlementProgress, HoldProgress, OutcomeIsConsistent,
         AfterAnswer, AfterCommit
<1> QED
  BY <1>1, Invariance, PTL

-----------------------------------------------------------------------------
\* The refinement mapping of Promise, by name.
claimed == [p \in Payments |->
              IF SentOut(p) THEN "sent"
              ELSE IF Reserved(p) THEN IF Amount[p] < 0 THEN "put_back" ELSE "taken"
              ELSE IF stage[p] = "failed" THEN "given_up"
              ELSE "none"]

(* The initial states are initial states of the promise. *)
LEMMA PromiseInit == Init => Promise!Init
<1> SUFFICES ASSUME Init PROVE Promise!Init
  OBVIOUS
<1>1. request \in [Payments -> [wallet : Wallets, amount : Int]]
  BY AmountsAssumption DEF Init, Requests
<1>2. available \in [Wallets -> Nat] /\ locked = [w \in Wallets |-> 0]
  BY WalletsAssumption DEF Init
<1>3. claimed = [p \in Payments |-> "none"]
  BY DEF Init, claimed, SentOut, Reserved
<1> QED
  BY <1>1, <1>2, <1>3 DEF Promise!Init, claimed

(* The update of the balances is the promise's Take, or its GiveBack. *)
LEMMA PromiseTake ==
  ASSUME Inv, NEW p \in Payments, UpdateBalances(p), Covers(Wallet(p), Amount[p])
  PROVE  Promise!Take(p) \/ Promise!GiveBack(p)
<1> DEFINE to == IF Amount[p] < 0 THEN "put_back" ELSE "taken"
<1>1. /\ stage[p] = "move" /\ stage' = [stage EXCEPT ![p] = "book"] /\ emitted' = emitted
      /\ stage \in [Payments -> Running \cup Ended] /\ emitted \in [Payments -> SUBSET EventNames]
  BY DEF UpdateBalances, Advance, TypeOK, Inv
<1>2. ~SentOut(p) /\ ~Reserved(p)
  BY <1>1 DEF Inv, Progress, ReservationProgress, SettlementProgress, Reserved,
              BeforeUpdate, AfterSending
<1>a. Amount' = Amount
  BY AmountSame DEF UpdateBalances
<1>3. claimed' = [claimed EXCEPT ![p] = to] /\ claimed[p] = "none"
  <2>1. /\ Reserved(p)' /\ ~SentOut(p)' /\ stage[p] # "failed"
        /\ \A q \in Payments \ {p} : /\ Reserved(q)' <=> Reserved(q)
                                     /\ SentOut(q)' <=> SentOut(q)
                                     /\ stage'[q] = stage[q]
    BY <1>1, <1>2 DEF Reserved, SentOut
  <2> QED
    BY <1>2, <1>a, <2>1 DEF claimed
<1>4. /\ available' = [available EXCEPT ![Wallet(p)] = @ - Amount[p]]
      /\ locked' = [locked EXCEPT ![Wallet(p)] = @ + Amount[p]]
      /\ request' = request
  BY DEF UpdateBalances
<1>5. Amount[p] \in Int /\ available[Wallet(p)] \in Nat /\ locked[Wallet(p)] \in Nat
  BY AmountType DEF Inv, TypeOK
<1>6. available[Wallet(p)] >= Amount[p] /\ locked[Wallet(p)] >= -Amount[p]
  BY <1>5 DEF Covers
<1>7. CASE Amount[p] < 0
  <2>1. claimed' = [claimed EXCEPT ![p] = "put_back"]
    BY <1>3, <1>7
  <2>2. Promise!GiveBack(p)
    BY <1>3, <1>4, <1>6, <1>7, <2>1
       DEF Promise!GiveBack, Promise!Move, claimed, Wallet, Amount
  <2> QED
    BY <2>2
<1>8. CASE ~(Amount[p] < 0)
  <2>1. claimed' = [claimed EXCEPT ![p] = "taken"] /\ Amount[p] >= 0
    BY <1>3, <1>5, <1>8
  <2>2. Promise!Take(p)
    BY <1>3, <1>4, <1>6, <2>1 DEF Promise!Take, Promise!Move, claimed, Wallet, Amount
  <2> QED
    BY <2>2
<1> QED
  BY <1>7, <1>8

(* Handing the payment to a registered provider is the promise's Send. *)
LEMMA PromiseSend ==
  ASSUME Inv, NEW p \in Payments, Dispatch(p), provider[p] \in Registered
  PROVE  Promise!Send(p)
<1>1. /\ stage[p] = "dispatch" /\ stage' = [stage EXCEPT ![p] = "send"]
      /\ emitted' = [emitted EXCEPT ![p] = @ \cup {"RouteSelected", "SettlementStarted"}]
      /\ stage \in [Payments -> Running \cup Ended] /\ emitted \in [Payments -> SUBSET EventNames]
  BY DEF Dispatch, Advance, TypeOK, Inv
<1>2. ~SentOut(p) /\ Reserved(p)
  BY <1>1 DEF Inv, Progress, ReservationProgress, SettlementProgress, Reserved,
              AfterBooking, AfterSending
<1>a. Amount' = Amount /\ ~(Amount[p] < 0)
  <2>1. Amount[p] > 0 /\ Amount[p] \in Int
    BY <1>1, AmountType DEF Inv, Progress, ReservationProgress, AfterBooking
  <2> QED
    BY <2>1, AmountSame DEF Dispatch
<1>3. claimed' = [claimed EXCEPT ![p] = "sent"] /\ claimed[p] = "taken"
  <2>1. /\ SentOut(p)'
        /\ \A q \in Payments \ {p} : /\ Reserved(q)' <=> Reserved(q)
                                     /\ SentOut(q)' <=> SentOut(q)
                                     /\ stage'[q] = stage[q]
    BY <1>1, <1>2 DEF Reserved, SentOut
  <2> QED
    BY <1>2, <1>a, <2>1 DEF claimed
<1>4. UNCHANGED <<request, available, locked>>
  BY DEF Dispatch
<1> QED
  BY <1>3, <1>4 DEF Promise!Send, claimed

(* A call that fails before it took funds is the promise's GiveUp. *)
LEMMA PromiseGiveUp ==
  ASSUME Inv, NEW p \in Payments, stage[p] \in {"check", "move"},
         Fail(p, stage[p], {}), UNCHANGED <<request, available, locked>>
  PROVE  Promise!GiveUp(p)
<1>1. /\ stage' = [stage EXCEPT ![p] = "failed"]
      /\ emitted' = [emitted EXCEPT ![p] = @ \cup {"PaymentFailed"}]
      /\ stage \in [Payments -> Running \cup Ended] /\ emitted \in [Payments -> SUBSET EventNames]
  BY DEF Fail, Advance, TypeOK, Inv
<1>2. ~SentOut(p) /\ ~Reserved(p)
  BY DEF Inv, Progress, ReservationProgress, SettlementProgress, Reserved,
         BeforeUpdate, AfterSending
<1>a. Amount' = Amount
  BY AmountSame
<1>3. claimed' = [claimed EXCEPT ![p] = "given_up"] /\ claimed[p] = "none"
  <2>1. /\ ~Reserved(p)' /\ ~SentOut(p)' /\ stage'[p] = "failed" /\ stage[p] # "failed"
        /\ \A q \in Payments \ {p} : /\ Reserved(q)' <=> Reserved(q)
                                     /\ SentOut(q)' <=> SentOut(q)
                                     /\ stage'[q] = stage[q]
    BY <1>1, <1>2 DEF Reserved, SentOut
  <2> QED
    BY <1>2, <1>a, <2>1 DEF claimed
<1> QED
  BY <1>3 DEF Promise!GiveUp, claimed

(* Steps between the effects the promise speaks of are stutters of it. *)
LEMMA PromiseStutter ==
  ASSUME UNCHANGED <<request, available, locked>>,
         \A p \in Payments :
           /\ Reserved(p)' <=> Reserved(p)
           /\ SentOut(p)' <=> SentOut(p)
           /\ Reserved(p) \/ stage'[p] = stage[p] \/ "failed" \notin {stage[p], stage'[p]}
           /\ SentOut(p) => Reserved(p)
  PROVE  UNCHANGED Promise!vars
<1>1. claimed' = claimed
  BY AmountSame DEF claimed
<1> QED
  BY <1>1 DEF Promise!vars, claimed

(* Every step of the system is a step of the promise or leaves it as it is. *)
LEMMA PromiseStep == Inv /\ [Next]_vars => [Promise!Next]_(Promise!vars)
<1> SUFFICES ASSUME Inv, [Next]_vars PROVE [Promise!Next]_(Promise!vars)
  OBVIOUS
<1> USE DEF Advance, Fail
<1>t. /\ stage \in [Payments -> Running \cup Ended]
      /\ emitted \in [Payments -> SUBSET EventNames]
  BY DEF Inv, TypeOK
<1>p. \A p \in Payments :
        /\ stage[p] \in BeforeUpdate \cup {"book"} => "LiquidityReserved" \notin emitted[p]
        /\ stage[p] \in AfterBooking => "LiquidityReserved" \in emitted[p]
        /\ SentOut(p) => Reserved(p)
  BY DEF Inv, Progress, ReservationProgress, SettlementProgress, Reserved
<1> USE DEF BeforeUpdate, AfterBooking
<1>1. ASSUME NEW p \in Payments, Initiate(p) PROVE UNCHANGED Promise!vars
  BY <1>1, <1>t, <1>p, PromiseStutter DEF Initiate, Reserved, SentOut
<1>2. ASSUME NEW p \in Payments, CheckBalance(p) PROVE [Promise!Next]_(Promise!vars)
  <2>1. CASE Sufficient(p)
    BY <1>2, <2>1, <1>t, <1>p, PromiseStutter DEF CheckBalance, Reserved, SentOut
  <2>2. CASE ~Sufficient(p)
    <3>1. Promise!GiveUp(p)
      BY <1>2, <2>2, PromiseGiveUp DEF CheckBalance
    <3> QED
      BY <3>1 DEF Promise!Next
  <2> QED
    BY <2>1, <2>2
<1>3. ASSUME NEW p \in Payments, CreateHold(p) PROVE UNCHANGED Promise!vars
  BY <1>3, <1>t, <1>p, PromiseStutter DEF CreateHold, Reserved, SentOut
<1>4. ASSUME NEW p \in Payments, UpdateBalances(p) PROVE [Promise!Next]_(Promise!vars)
  <2>1. CASE Covers(Wallet(p), Amount[p])
    BY <1>4, <2>1, PromiseTake DEF Promise!Next
  <2>2. CASE ~Covers(Wallet(p), Amount[p])
    <3>1. Promise!GiveUp(p)
      BY <1>4, <2>2, PromiseGiveUp DEF UpdateBalances
    <3> QED
      BY <3>1 DEF Promise!Next
  <2> QED
    BY <2>1, <2>2
<1>5. ASSUME NEW p \in Payments, CreateProvisionalEntries(p) PROVE UNCHANGED Promise!vars
  BY <1>5, <1>t, <1>p, PromiseStutter DEF CreateProvisionalEntries, Reserved, SentOut
<1>6. ASSUME NEW p \in Payments, FindOptimalRoute(p) PROVE UNCHANGED Promise!vars
  BY <1>6, <1>t, <1>p, PromiseStutter DEF FindOptimalRoute, Reserved, SentOut
<1>7. ASSUME NEW p \in Payments, Dispatch(p) PROVE [Promise!Next]_(Promise!vars)
  <2>1. CASE provider[p] \in Registered
    BY <1>7, <2>1, PromiseSend DEF Promise!Next
  <2>2. CASE provider[p] \notin Registered
    BY <1>7, <2>2, <1>t, <1>p, PromiseStutter DEF Dispatch, Reserved, SentOut
  <2> QED
    BY <2>1, <2>2
<1>8. ASSUME NEW p \in Payments, Settle(p) PROVE UNCHANGED Promise!vars
  BY <1>8, <1>t, <1>p, PromiseStutter DEF Settle, Reserved, SentOut, Inv, Progress,
     SettlementProgress, AfterSending
<1>9. ASSUME NEW p \in Payments, Commit(p) PROVE UNCHANGED Promise!vars
  BY <1>9, <1>t, <1>p, PromiseStutter DEF Commit, CommitFunds, Reserved, SentOut
<1>10. ASSUME NEW p \in Payments, Complete(p) PROVE UNCHANGED Promise!vars
  BY <1>10, <1>t, <1>p, PromiseStutter DEF Complete, Reserved, SentOut
<1>11. ASSUME NEW p \in Payments, ChainResolves(p) PROVE UNCHANGED Promise!vars
  BY <1>11, <1>t, <1>p, PromiseStutter DEF ChainResolves, Reserved, SentOut
<1>12. CASE UNCHANGED vars
  BY <1>12, <1>t, <1>p, PromiseStutter DEF vars, Reserved, SentOut
<1> QED
  BY <1>1, <1>2, <1>3, <1>4, <1>5, <1>6, <1>7, <1>8, <1>9, <1>10, <1>11, <1>12
     DEF Next, Step

(* The interleaved reservation implements the one that checks and takes the
   funds in a single step. *)
THEOREM Refinement == Spec => KeepsPromise
<1> QED
  BY PromiseInit, PromiseStep, Invariance, PTL DEF Spec, KeepsPromise, Promise!Spec

=============================================================================
