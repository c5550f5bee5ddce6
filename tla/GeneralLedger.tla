---------------------------- MODULE GeneralLedger ----------------------------
(***************************************************************************)
(* The general ledger: PostingEngine over ChartOfAccounts, PeriodManager   *)
(* and the append-only Ledger, with the trial balance that                 *)
(* TrialBalanceGenerator derives from it.                                  *)
(*                                                                         *)
(* validateAndPost awaits the JournalValidated event between validating an *)
(* entry and appending it, so a call is two steps.  In between, periods    *)
(* close and other calls run, some with the same entry object, whose       *)
(* status they share.  InMemoryEventBus.publish never rejects.             *)
(***************************************************************************)
EXTENDS Integers, FiniteSets, Sequences, Totals

CONSTANTS
  Calls,      \* the calls of validateAndPost
  Entries,    \* the journal entries that callers draft
  NoEntry,
  Lines,      \* the postings of each entry
  Time,       \* the timestamp of each entry
  Accounts,   \* the accounts that may be registered, with fixed data:
  Type, Currency,
  Times,      \* the days there are
  MaxPeriods  \* bound: periods that are created

AccountTypes == {"ASSET", "LIABILITY", "EQUITY", "REVENUE", "EXPENSE", "SUSPENSE"}
Posting == [account : Accounts, direction : {"DEBIT", "CREDIT"}, amount : Nat,
            currency : {Currency[a] : a \in Accounts}]

ASSUME CallsAssumption == IsFiniteSet(Calls)
ASSUME AccountsAssumption ==
  IsFiniteSet(Accounts) /\ Type \in [Accounts -> AccountTypes]
ASSUME EntriesAssumption ==
  /\ NoEntry \notin Entries
  /\ Lines \in [Entries -> Seq(Posting)] /\ Time \in [Entries -> Times]
ASSUME TimesAssumption == Times \subseteq Int /\ MaxPeriods \in Nat

VARIABLES
  accounts,    \* the registered accounts
  periods,     \* the periods, in the order of their creation
  status,      \* status of each drafted entry
  stage,       \* how far each call is
  target,      \* the entry each call posts
  journals,    \* the ledger
  ledgerSequence, postingSequence   \* its counters

chart == <<accounts, periods>>
ledger == <<journals, ledgerSequence, postingSequence>>
vars == <<accounts, periods, status, stage, target, journals, ledgerSequence, postingSequence>>

TypeOK ==
  /\ accounts \subseteq Accounts
  /\ periods \in Seq([first : Times, last : Times, status : {"OPEN", "CLOSED"}])
  /\ status \in [Entries -> {"DRAFT", "VALIDATED", "REJECTED"}]
  /\ stage \in [Calls -> {"new", "validated", "posted", "rejected"}]
  /\ target \in [Calls -> Entries \cup {NoEntry}]
  /\ journals \in Seq([entry : Entries, ledgerSequence : Nat, firstPosting : Nat])
  /\ ledgerSequence \in Nat
  /\ postingSequence \in Nat

Init ==
  /\ accounts = {}
  /\ periods = <<>>
  /\ status = [e \in Entries |-> "DRAFT"]
  /\ stage = [c \in Calls |-> "new"]
  /\ target = [c \in Calls |-> NoEntry]
  /\ journals = <<>>
  /\ ledgerSequence = 0
  /\ postingSequence = 0

-----------------------------------------------------------------------------
\* registerAccount stores the account before it looks for the parent, so an
\* unknown parent makes the call throw and leaves the account registered.
RegisterAccount(a) ==
  /\ a \notin accounts
  /\ accounts' = accounts \cup {a}
  /\ UNCHANGED <<periods, status, stage, target, ledger>>

CreatePeriod(first, last) ==
  /\ Len(periods) < MaxPeriods
  /\ periods' = Append(periods, [first |-> first, last |-> last, status |-> "OPEN"])
  /\ UNCHANGED <<accounts, status, stage, target, ledger>>

ClosePeriod(i) ==
  /\ periods[i].status = "OPEN"
  /\ periods' = [periods EXCEPT ![i].status = "CLOSED"]
  /\ UNCHANGED <<accounts, status, stage, target, ledger>>

Contains(i, t) == periods[i].first <= t /\ t <= periods[i].last

\* The first period that contains the day decides; a day in no period is open.
IsLastMatch(i, t) == Contains(i, t) /\ \A j \in (i + 1) .. Len(periods) : ~Contains(j, t)
IsFirstMatch(i, t) == Contains(i, t) /\ \A j \in 1 .. i - 1 : ~Contains(j, t)

IsPeriodClosed(t) ==
  \E i \in DOMAIN periods : IsFirstMatch(i, t) /\ periods[i].status = "CLOSED"

-----------------------------------------------------------------------------
Amounts(e) == [i \in DOMAIN Lines[e] |-> Lines[e][i].amount]
On(e, direction) == {i \in DOMAIN Lines[e] : Lines[e][i].direction = direction}

Unchecked(e) == TRUE
IsBalanced(e) == Total(Amounts(e), On(e, "DEBIT")) = Total(Amounts(e), On(e, "CREDIT"))

\* Accounts are frozen objects that AccountBuilder builds as ACTIVE.
KnowsAccounts(e) ==
  \A i \in DOMAIN Lines[e] :
    LET line == Lines[e][i]
    IN  line.account \in accounts /\ line.currency = Currency[line.account]

IsValidWhenever(e) == KnowsAccounts(e) /\ IsBalanced(e)
IsValid(e) == ~IsPeriodClosed(Time[e]) /\ KnowsAccounts(e) /\ IsBalanced(e)

\* validateAndPost up to its await.
Validate(c, e) ==
  /\ stage[c] = "new"
  /\ target' = [target EXCEPT ![c] = e]
  /\ \/ /\ IsValid(e)
        /\ status' = [status EXCEPT ![e] = "VALIDATED"]
        /\ stage' = [stage EXCEPT ![c] = "validated"]
     \/ /\ ~IsValid(e)
        /\ status' = [status EXCEPT ![e] = "REJECTED"]
        /\ stage' = [stage EXCEPT ![c] = "rejected"]
  /\ UNCHANGED <<chart, ledger>>

Journal(e) ==
  [entry |-> e, ledgerSequence |-> ledgerSequence + 1, firstPosting |-> postingSequence + 1]

\* A ledger that keeps the caller's entry instead of a copy.
AppendJournalInPlace(c, e) ==
  /\ status[e] = "VALIDATED"
  /\ ledgerSequence' = ledgerSequence + 1
  /\ journals' = Append(journals, Journal(e))
  /\ postingSequence' = postingSequence + Len(Lines[e])
  /\ stage' = [stage EXCEPT ![c] = "posted"]
  /\ status' = [status EXCEPT ![e] = "POSTED"]

\* A ledger that appends without asking whether the entry is still VALIDATED.
AppendJournalUnasked(c, e) ==
  /\ ledgerSequence' = ledgerSequence + 1
  /\ journals' = Append(journals, Journal(e))
  /\ postingSequence' = postingSequence + Len(Lines[e])
  /\ stage' = [stage EXCEPT ![c] = IF status[e] = "VALIDATED" THEN "posted" ELSE "rejected"]
  /\ UNCHANGED status

\* The ledger takes a copy of the entry; the draft stays VALIDATED.  A call with
\* the same entry that was rejected in between makes this one throw.
AppendJournal(c, e) ==
  \/ /\ status[e] = "VALIDATED"
     /\ ledgerSequence' = ledgerSequence + 1
     /\ journals' = Append(journals, Journal(e))
     /\ postingSequence' = postingSequence + Len(Lines[e])
     /\ stage' = [stage EXCEPT ![c] = "posted"]
     /\ UNCHANGED status
  \/ /\ status[e] # "VALIDATED"
     /\ status' = [status EXCEPT ![e] = "REJECTED"]
     /\ stage' = [stage EXCEPT ![c] = "rejected"]
     /\ UNCHANGED ledger

Post(c) ==
  /\ stage[c] = "validated"
  /\ AppendJournal(c, target[c])
  /\ UNCHANGED <<chart, target>>

Next ==
  \/ \E a \in Accounts : RegisterAccount(a)
  \/ \E first, last \in Times : CreatePeriod(first, last)
  \/ \E i \in DOMAIN periods : ClosePeriod(i)
  \/ \E c \in Calls : Post(c) \/ \E e \in Entries : Validate(c, e)

Spec == Init /\ [][Next]_vars

-----------------------------------------------------------------------------
\* The journals of a window of days, their postings, and what BalanceProjector
\* and TrialBalanceGenerator compute from them.
Between(first, last) ==
  {i \in DOMAIN journals : first <= Time[journals[i].entry] /\ Time[journals[i].entry] <= last}

Postings(window) ==
  UNION {{<<i, k>> : k \in DOMAIN Lines[journals[i].entry]} : i \in window}

Line(x) == Lines[journals[x[1]].entry][x[2]]

Movement(window, a, direction) ==
  Total([x \in Postings(window) |-> Line(x).amount],
        {x \in Postings(window) : Line(x).account = a /\ Line(x).direction = direction})

GrowsOnDebit(a) == Type[a] \in {"ASSET", "EXPENSE"}

Balance(window, a) ==
  IF GrowsOnDebit(a)
  THEN Movement(window, a, "DEBIT") - Movement(window, a, "CREDIT")
  ELSE Movement(window, a, "CREDIT") - Movement(window, a, "DEBIT")

Positive(n) == IF n > 0 THEN n ELSE 0

DebitBalance(window, a) ==
  Positive(IF GrowsOnDebit(a) THEN Balance(window, a) ELSE -Balance(window, a))

CreditBalance(window, a) ==
  Positive(IF GrowsOnDebit(a) THEN -Balance(window, a) ELSE Balance(window, a))

IsTrialBalanced(window) ==
  Total([a \in accounts |-> DebitBalance(window, a)], accounts) =
    Total([a \in accounts |-> CreditBalance(window, a)], accounts)

\* Every trial balance of every window of days balances, whatever is posted,
\* refused and registered before and after.
TrialBalances ==
  \A first, last \in Times : IsTrialBalanced(Between(first, last))

\* Ledger and posting sequences have no gaps and no duplicates, also when calls
\* fail between their validation and their append.
NumbersAreGapFree ==
  /\ ledgerSequence = Len(journals)
  /\ \A i \in DOMAIN journals :
       /\ journals[i].ledgerSequence = i
       /\ journals[i].firstPosting + Len(Lines[journals[i].entry]) =
            IF i = Len(journals) THEN postingSequence + 1 ELSE journals[i + 1].firstPosting

\* A call that throws leaves no journal behind, and one that returns leaves one.
EachCallPostsOnce ==
  \A e \in Entries :
    Cardinality({i \in DOMAIN journals : journals[i].entry = e}) =
      Cardinality({c \in Calls : stage[c] = "posted" /\ target[c] = e})

\* The ledger is what the calls that returned posted, one journal each, numbered
\* in the order of their appends.
PostingsAreOrderly == NumbersAreGapFree /\ EachCallPostsOnce

\* A closed day is never opened again, not even by a new period that contains it.
ClosedStaysClosed ==
  [][\A t \in Times : IsPeriodClosed(t) => IsPeriodClosed(t)']_vars

InFlight(t) == {c \in Calls : stage[c] = "validated" /\ Time[target[c]] = t}
PostedOn(t) == {i \in DOMAIN journals : Time[journals[i].entry] = t}

\* The books of a closed day are final but for the calls that were already
\* validated: no other call joins them, and only they can still post to it.
ClosedBooksSettle ==
  [][\A t \in Times :
       IsPeriodClosed(t) =>
         /\ InFlight(t)' \subseteq InFlight(t)
         /\ InFlight(t) = {} => PostedOn(t)' = PostedOn(t)]_vars

=============================================================================
