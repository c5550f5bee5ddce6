----------------------------- MODULE BooksProofs -----------------------------
(***************************************************************************)
(* Proofs about GeneralLedger, for any finite set of calls and any         *)
(* entries, accounts and days, and about Clearing, for any finite set of   *)
(* parties, obligations and cycles, which share no state.                  *)
(*                                                                         *)
(* The trial balance adds the units of the postings in two ways, by        *)
(* account and by entry.  Netting lays the amounts of the debtors and of   *)
(* the creditors end to end over the same units, and a payment is what two *)
(* spans share: so every unit is paid once.                                *)
(***************************************************************************)
EXTENDS GeneralLedger, Clearing, TLAPS

Period == [first : Times, last : Times, status : {"OPEN", "CLOSED"}]
JournalRecord == [entry : Entries, ledgerSequence : Nat, firstPosting : Nat]

\* A call that has started has an entry.
HasEntry == \A c \in Calls : stage[c] # "new" => target[c] \in Entries

\* An entry that is VALIDATED, or was posted, balances over registered accounts.
Sound(e) ==
  /\ IsBalanced(e)
  /\ \A i \in DOMAIN Lines[e] : Lines[e][i].account \in accounts

BooksAreSound ==
  /\ \A e \in Entries : status[e] = "VALIDATED" => Sound(e)
  /\ \A i \in DOMAIN journals : Sound(journals[i].entry)

Inv == TypeOK /\ HasEntry /\ NumbersAreGapFree /\ EachCallPostsOnce /\ BooksAreSound

-----------------------------------------------------------------------------
(* What Append does to the length and the elements of a sequence. *)
LEMMA AppendFacts ==
  ASSUME NEW S, NEW s \in Seq(S), NEW x \in S
  PROVE  /\ Append(s, x) \in Seq(S)
         /\ Len(Append(s, x)) = Len(s) + 1
         /\ Len(s) \in Nat
         /\ DOMAIN s = 1 .. Len(s)
         /\ DOMAIN Append(s, x) = 1 .. Len(s) + 1
         /\ \A i \in 1 .. Len(s) : Append(s, x)[i] = s[i]
         /\ Append(s, x)[Len(s) + 1] = x
OBVIOUS

(* An entry is a sequence of postings, and has a day. *)
LEMMA EntryFacts ==
  ASSUME NEW e \in Entries
  PROVE  Lines[e] \in Seq(Posting) /\ Len(Lines[e]) \in Nat /\ Time[e] \in Times
BY EntriesAssumption

(* A journal's numbers end where the next journal's begin. *)
LEMMA NextNumber ==
  ASSUME NEW e \in Entries, postingSequence \in Nat,
         postingSequence' = postingSequence + Len(Lines[e])
  PROVE  Journal(e).firstPosting + Len(Lines[Journal(e).entry]) = postingSequence' + 1
<1> DEFINE lines == Len(Lines[e])
<1>1. Journal(e).entry = e /\ Journal(e).firstPosting = postingSequence + 1
  BY DEF Journal
<1>2. lines \in Nat /\ postingSequence' = postingSequence + lines
  BY EntryFacts
<1>3. Len(Lines[Journal(e).entry]) = lines
  BY <1>1
<1> HIDE DEF lines
<1>4. (postingSequence + 1) + lines = postingSequence' + 1
  BY <1>2
<1> QED
  BY <1>1, <1>3, <1>4

(* The initial states satisfy the invariant. *)
LEMMA InitInv == Init => Inv
<1> SUFFICES ASSUME Init PROVE Inv
  OBVIOUS
<1> USE DEF Init
<1>1. TypeOK
  BY DEF TypeOK
<1>2. HasEntry /\ NumbersAreGapFree /\ BooksAreSound
  BY DEF HasEntry, NumbersAreGapFree, BooksAreSound
<1>3. EachCallPostsOnce
  <2> SUFFICES ASSUME NEW e \in Entries
               PROVE  Cardinality({i \in DOMAIN journals : journals[i].entry = e}) =
                        Cardinality({c \in Calls : stage[c] = "posted" /\ target[c] = e})
    BY DEF EachCallPostsOnce
  <2>1. {i \in DOMAIN journals : journals[i].entry = e} = {}
    OBVIOUS
  <2>2. {c \in Calls : stage[c] = "posted" /\ target[c] = e} = {}
    OBVIOUS
  <2> QED
    BY <2>1, <2>2
<1> QED
  BY <1>1, <1>2, <1>3 DEF Inv

-----------------------------------------------------------------------------
(* Registering accounts and creating or closing periods leaves calls and ledger alone. *)
LEMMA ChartInv ==
  ASSUME Inv, UNCHANGED <<status, stage, target, ledger>>,
         accounts \subseteq accounts', accounts' \subseteq Accounts,
         periods' \in Seq(Period)
  PROVE  Inv'
<1>1. TypeOK'
  BY DEF Inv, TypeOK, ledger, Period
<1>2. HasEntry' /\ NumbersAreGapFree' /\ EachCallPostsOnce'
  BY DEF Inv, HasEntry, NumbersAreGapFree, EachCallPostsOnce, ledger
<1>3. \A e : Sound(e) => Sound(e)'
  BY DEF Sound, IsBalanced, Amounts, On
<1>4. BooksAreSound'
  BY <1>3 DEF Inv, BooksAreSound, ledger
<1> QED
  BY <1>1, <1>2, <1>4 DEF Inv

(* A validated entry is sound. *)
LEMMA ValidateInv ==
  ASSUME Inv, NEW c \in Calls, NEW e \in Entries, Validate(c, e)
  PROVE  Inv'
<1> USE DEF Validate, chart, ledger
<1>1. TypeOK'
  BY DEF Inv, TypeOK
<1>2. HasEntry'
  BY DEF Inv, TypeOK, HasEntry
<1>3. NumbersAreGapFree'
  BY DEF Inv, NumbersAreGapFree
<1>4. EachCallPostsOnce'
  <2> SUFFICES ASSUME NEW d \in Entries
               PROVE  Cardinality({i \in DOMAIN journals' : journals'[i].entry = d}) =
                        Cardinality({b \in Calls : stage'[b] = "posted" /\ target'[b] = d})
    BY DEF EachCallPostsOnce
  <2>1. {b \in Calls : stage'[b] = "posted" /\ target'[b] = d} =
          {b \in Calls : stage[b] = "posted" /\ target[b] = d}
    BY DEF Inv, TypeOK
  <2> QED
    BY <2>1 DEF Inv, EachCallPostsOnce
<1>5. BooksAreSound'
  <2>1. \A d : Sound(d) => Sound(d)'
    BY DEF Sound, IsBalanced, Amounts, On
  <2>2. IsValid(e) => Sound(e)
    BY DEF IsValid, KnowsAccounts, Sound
  <2>3. \A d \in Entries : status'[d] = "VALIDATED" => Sound(d)
    BY <2>2 DEF Inv, TypeOK, BooksAreSound
  <2> QED
    BY <2>1, <2>3 DEF Inv, BooksAreSound
<1> QED
  BY <1>1, <1>2, <1>3, <1>4, <1>5 DEF Inv

(* A call that finds its entry rejected leaves the ledger alone. *)
LEMMA RejectInv ==
  ASSUME Inv, NEW c \in Calls, stage[c] = "validated",
         status' = [status EXCEPT ![target[c]] = "REJECTED"],
         stage' = [stage EXCEPT ![c] = "rejected"],
         UNCHANGED ledger, UNCHANGED <<chart, target>>
  PROVE  Inv'
<1> USE DEF chart, ledger
<1>1. TypeOK'
  BY DEF Inv, TypeOK
<1>2. HasEntry' /\ NumbersAreGapFree'
  BY DEF Inv, TypeOK, HasEntry, NumbersAreGapFree
<1>3. EachCallPostsOnce'
  <2> SUFFICES ASSUME NEW d \in Entries
               PROVE  Cardinality({i \in DOMAIN journals' : journals'[i].entry = d}) =
                        Cardinality({b \in Calls : stage'[b] = "posted" /\ target'[b] = d})
    BY DEF EachCallPostsOnce
  <2>1. {b \in Calls : stage'[b] = "posted" /\ target'[b] = d} =
          {b \in Calls : stage[b] = "posted" /\ target[b] = d}
    BY DEF Inv, TypeOK
  <2> QED
    BY <2>1 DEF Inv, EachCallPostsOnce
<1>4. BooksAreSound'
  <2>1. \A d : Sound(d) => Sound(d)'
    BY DEF Sound, IsBalanced, Amounts, On
  <2>2. \A d \in Entries : status'[d] = "VALIDATED" => status[d] = "VALIDATED"
    BY DEF Inv, TypeOK
  <2> QED
    BY <2>1, <2>2 DEF Inv, BooksAreSound
<1> QED
  BY <1>1, <1>2, <1>3, <1>4 DEF Inv

(* A call that appends its entry draws the next numbers. *)
LEMMA AppendInv ==
  ASSUME Inv, NEW c \in Calls, stage[c] = "validated", status[target[c]] = "VALIDATED",
         ledgerSequence' = ledgerSequence + 1,
         journals' = Append(journals, Journal(target[c])),
         postingSequence' = postingSequence + Len(Lines[target[c]]),
         stage' = [stage EXCEPT ![c] = "posted"],
         UNCHANGED status, UNCHANGED <<chart, target>>
  PROVE  Inv'
<1> DEFINE e == target[c]
           n == Len(journals)
<1>1. e \in Entries
  BY DEF Inv, HasEntry
<1>2. Journal(e) \in JournalRecord /\ Journal(e).entry = e
  BY <1>1 DEF Inv, TypeOK, Journal, JournalRecord
<1>3. journals \in Seq(JournalRecord)
  BY DEF Inv, TypeOK, JournalRecord
<1>4. /\ journals' \in Seq(JournalRecord)
      /\ Len(journals') = n + 1
      /\ n \in Nat
      /\ DOMAIN journals = 1 .. n
      /\ DOMAIN journals' = 1 .. n + 1
      /\ \A i \in 1 .. n : journals'[i] = journals[i]
      /\ journals'[n + 1] = Journal(e)
  BY <1>2, <1>3, AppendFacts
<1>5. TypeOK'
  BY <1>1, <1>4, EntryFacts DEF Inv, TypeOK, chart, JournalRecord
<1>6. HasEntry'
  BY DEF Inv, TypeOK, HasEntry, chart
<1>7. NumbersAreGapFree'
  <2>1. ledgerSequence = n /\ postingSequence \in Nat
    BY DEF Inv, NumbersAreGapFree, TypeOK
  <2>2. Journal(e).ledgerSequence = n + 1 /\ Journal(e).firstPosting = postingSequence + 1
    BY <2>1 DEF Journal
  <2>3. ASSUME NEW i \in DOMAIN journals'
        PROVE  /\ journals'[i].ledgerSequence = i
               /\ journals'[i].firstPosting + Len(Lines[journals'[i].entry]) =
                    IF i = Len(journals') THEN postingSequence' + 1
                    ELSE journals'[i + 1].firstPosting
    <3>1. CASE i = n + 1
      <4>1. journals'[i] = Journal(e) /\ i = Len(journals') /\ Journal(e).entry = e
        BY <3>1, <1>2, <1>4
      <4>2. Journal(e).firstPosting + Len(Lines[Journal(e).entry]) = postingSequence' + 1
        BY <1>1, <2>1, NextNumber
      <4> QED
        BY <3>1, <2>2, <4>1, <4>2
    <3>2. CASE i = n
      <4>1. n \in DOMAIN journals /\ n # n + 1
        BY <3>2, <1>4
      <4>2. /\ journals[n].ledgerSequence = n
            /\ journals[n].firstPosting + Len(Lines[journals[n].entry]) = postingSequence + 1
        BY <4>1 DEF Inv, NumbersAreGapFree
      <4>3. journals'[n] = journals[n]
        BY <1>4, <4>1
      <4> QED
        BY <3>2, <1>4, <2>2, <4>1, <4>2, <4>3
    <3>3. CASE i \in 1 .. n - 1
      <4>1. i \in 1 .. n /\ i + 1 \in 1 .. n /\ i # n /\ i # n + 1
        BY <3>3, <1>4
      <4> QED
        BY <4>1, <1>4 DEF Inv, NumbersAreGapFree
    <3> QED
      BY <3>1, <3>2, <3>3, <1>4
  <2> QED
    BY <1>4, <2>1, <2>3 DEF NumbersAreGapFree
<1>8. EachCallPostsOnce'
  <2> SUFFICES ASSUME NEW d \in Entries
               PROVE  Cardinality({i \in DOMAIN journals' : journals'[i].entry = d}) =
                        Cardinality({b \in Calls : stage'[b] = "posted" /\ target'[b] = d})
    BY DEF EachCallPostsOnce
  <2> DEFINE J == {i \in DOMAIN journals : journals[i].entry = d}
             C == {b \in Calls : stage[b] = "posted" /\ target[b] = d}
             J1 == {i \in DOMAIN journals' : journals'[i].entry = d}
             C1 == {b \in Calls : stage'[b] = "posted" /\ target'[b] = d}
  <2>1. Cardinality(J) = Cardinality(C)
    BY DEF Inv, EachCallPostsOnce
  <2>2. IsFiniteSet(J) /\ IsFiniteSet(C)
    <3>1. IsFiniteSet(1 .. n)
      BY <1>4, FS_Interval
    <3>2. J \in SUBSET (1 .. n) /\ C \in SUBSET Calls
      BY <1>4
    <3> QED
      BY <3>1, <3>2, FS_Subset, CallsAssumption
  <2>3. CASE d = e
    <3>1. J1 = J \cup {n + 1} /\ n + 1 \notin J
      BY <1>2, <1>4, <2>3
    <3>2. C1 = C \cup {c} /\ c \notin C
      BY <2>3 DEF Inv, TypeOK, chart
    <3>3. Cardinality(J1) = Cardinality(J) + 1
      BY <2>2, <3>1, FS_AddElement
    <3>4. Cardinality(C1) = Cardinality(C) + 1
      BY <2>2, <3>2, FS_AddElement
    <3> QED
      BY <2>1, <3>3, <3>4
  <2>4. CASE d # e
    <3>1. J1 = J
      BY <1>2, <1>4, <2>4
    <3>2. C1 = C
      BY <2>4 DEF Inv, TypeOK, chart
    <3> QED
      BY <2>1, <3>1, <3>2
  <2> QED
    BY <2>3, <2>4
<1>9. BooksAreSound'
  <2>1. \A d : Sound(d) => Sound(d)'
    BY DEF Sound, IsBalanced, Amounts, On, chart
  <2>2. Sound(e)
    BY <1>1 DEF Inv, BooksAreSound
  <2>3. \A i \in DOMAIN journals' : Sound(journals'[i].entry)
    BY <1>2, <1>4, <2>2 DEF Inv, BooksAreSound
  <2> QED
    BY <2>1, <2>3 DEF Inv, BooksAreSound
<1> QED
  BY <1>5, <1>6, <1>7, <1>8, <1>9 DEF Inv

-----------------------------------------------------------------------------
(* Closing a period changes the status of that period and nothing else of any. *)
LEMMA ClosingFacts ==
  ASSUME periods \in Seq(Period), NEW i \in DOMAIN periods, ClosePeriod(i)
  PROVE  /\ periods' \in Seq(Period)
         /\ DOMAIN periods' = DOMAIN periods
         /\ \A j \in DOMAIN periods :
              /\ periods'[j].first = periods[j].first
              /\ periods'[j].last = periods[j].last
              /\ periods[j].status = "CLOSED" => periods'[j].status = "CLOSED"
<1>1. DOMAIN periods = 1 .. Len(periods) /\ \A j \in DOMAIN periods : periods[j] \in Period
  OBVIOUS
<1>2. periods' = [periods EXCEPT ![i].status = "CLOSED"]
  BY DEF ClosePeriod
<1>3. DOMAIN periods' = DOMAIN periods
  BY <1>2
<1>4. \A j \in DOMAIN periods : j # i => periods'[j] = periods[j]
  BY <1>2
<1>5. periods'[i] = [periods[i] EXCEPT !.status = "CLOSED"] /\ periods[i] \in Period
  BY <1>1, <1>2
<1>6. /\ periods'[i] \in Period
      /\ periods'[i].first = periods[i].first
      /\ periods'[i].last = periods[i].last
      /\ periods'[i].status = "CLOSED"
  BY <1>5 DEF Period
<1>7. periods' \in Seq(Period)
  BY <1>1, <1>2, <1>4, <1>6
<1> QED
  BY <1>3, <1>4, <1>6, <1>7

(* Every step preserves the invariant. *)
LEMMA NextInv == Inv /\ [Next]_vars => Inv'
<1> SUFFICES ASSUME Inv, [Next]_vars PROVE Inv'
  OBVIOUS
<1> USE DEF ledger
<1>0. periods \in Seq(Period) /\ accounts \subseteq Accounts
  BY DEF Inv, TypeOK, Period
<1>1. ASSUME NEW a \in Accounts, RegisterAccount(a) PROVE Inv'
  BY <1>0, <1>1, ChartInv DEF RegisterAccount
<1>2. ASSUME NEW first \in Times, NEW last \in Times, CreatePeriod(first, last) PROVE Inv'
  <2>1. [first |-> first, last |-> last, status |-> "OPEN"] \in Period
    BY DEF Period
  <2>2. periods' \in Seq(Period)
    BY <1>0, <1>2, <2>1, AppendFacts DEF CreatePeriod
  <2> QED
    BY <1>0, <1>2, <2>2, ChartInv DEF CreatePeriod
<1>3. ASSUME NEW i \in DOMAIN periods, ClosePeriod(i) PROVE Inv'
  <2>1. periods' \in Seq(Period)
    BY <1>0, <1>3, ClosingFacts
  <2> QED
    BY <1>0, <1>3, <2>1, ChartInv DEF ClosePeriod
<1>4. ASSUME NEW c \in Calls, Post(c) PROVE Inv'
  <2>1. CASE status[target[c]] = "VALIDATED"
    BY <1>4, <2>1, AppendInv DEF Post, AppendJournal
  <2>2. CASE status[target[c]] # "VALIDATED"
    BY <1>4, <2>2, RejectInv DEF Post, AppendJournal
  <2> QED
    BY <2>1, <2>2
<1>5. ASSUME NEW c \in Calls, NEW e \in Entries, Validate(c, e) PROVE Inv'
  BY <1>5, ValidateInv
<1>6. CASE UNCHANGED vars
  <2>1. periods' \in Seq(Period) /\ accounts' = accounts
    BY <1>0, <1>6 DEF vars
  <2> QED
    BY <1>0, <1>6, <2>1, ChartInv DEF vars
<1> QED
  BY <1>1, <1>2, <1>3, <1>4, <1>5, <1>6 DEF Next

(* Inv is an invariant of the general ledger. *)
THEOREM Invariance == Spec => []Inv
<1> QED
  BY InitInv, NextInv, PTL DEF Spec

(* Every reachable state of the general ledger is well typed. *)
THEOREM TypeCorrect == Spec => []TypeOK
<1>1. Inv => TypeOK
  BY DEF Inv
<1> QED
  BY <1>1, Invariance, PTL

(* Ledger and posting sequences have no gaps and no duplicates. *)
THEOREM NumberingIsGapFree == Spec => []NumbersAreGapFree
<1>1. Inv => NumbersAreGapFree
  BY DEF Inv
<1> QED
  BY <1>1, Invariance, PTL

(* A call that throws leaves no journal behind, and one that returns leaves one. *)
THEOREM CallsPostOnce == Spec => []EachCallPostsOnce
<1>1. Inv => EachCallPostsOnce
  BY DEF Inv
<1> QED
  BY <1>1, Invariance, PTL

(* One journal for each call that returned, numbered in order. *)
THEOREM PostingsStayOrderly == Spec => []PostingsAreOrderly
<1>1. NumbersAreGapFree /\ EachCallPostsOnce => PostingsAreOrderly
  BY DEF PostingsAreOrderly
<1> QED
  BY <1>1, NumberingIsGapFree, CallsPostOnce, PTL

(* Every journal in the ledger balances, over registered accounts. *)
THEOREM JournalsBalance == Spec => []BooksAreSound
<1>1. Inv => BooksAreSound
  BY DEF Inv
<1> QED
  BY <1>1, Invariance, PTL

-----------------------------------------------------------------------------
(* A day that is closed is closed after every step. *)
LEMMA ClosedStays ==
  ASSUME Inv, [Next]_vars, NEW t \in Times, IsPeriodClosed(t)
  PROVE  IsPeriodClosed(t)'
<1> DEFINE Keeps(j) == /\ periods'[j].first = periods[j].first
                       /\ periods'[j].last = periods[j].last
                       /\ periods[j].status = "CLOSED" => periods'[j].status = "CLOSED"
<1>1. periods \in Seq(Period) /\ DOMAIN periods = 1 .. Len(periods) /\ Len(periods) \in Nat
  BY DEF Inv, TypeOK, Period
<1>2. DOMAIN periods \subseteq DOMAIN periods' /\ \A j \in DOMAIN periods : Keeps(j)
  <2>1. CASE \E first, last \in Times : CreatePeriod(first, last)
    <3>1. PICK first \in Times, last \in Times : CreatePeriod(first, last)
      BY <2>1
    <3>2. [first |-> first, last |-> last, status |-> "OPEN"] \in Period
      BY DEF Period
    <3>3. /\ DOMAIN periods' = 1 .. Len(periods) + 1
          /\ \A j \in 1 .. Len(periods) : periods'[j] = periods[j]
      BY <1>1, <3>1, <3>2, AppendFacts DEF CreatePeriod
    <3> QED
      BY <1>1, <3>3
  <2>2. CASE \E i \in DOMAIN periods : ClosePeriod(i)
    BY <1>1, <2>2, ClosingFacts
  <2>3. CASE UNCHANGED periods
    BY <2>3
  <2> QED
    BY <2>1, <2>2, <2>3
       DEF Next, vars, RegisterAccount, Post, Validate, chart
<1>3. PICK i \in DOMAIN periods : IsFirstMatch(i, t) /\ periods[i].status = "CLOSED"
  BY DEF IsPeriodClosed
<1>4. i \in DOMAIN periods' /\ periods'[i].status = "CLOSED"
  BY <1>2, <1>3
<1>5. IsFirstMatch(i, t)'
  <2>1. \A j \in 1 .. i : Contains(j, t)' <=> Contains(j, t)
    BY <1>1, <1>2 DEF Contains
  <2>2. i \in 1 .. i /\ \A j \in 1 .. i - 1 : j \in 1 .. i
    BY <1>1
  <2> QED
    BY <1>3, <2>1, <2>2 DEF IsFirstMatch
<1> QED
  BY <1>4, <1>5 DEF IsPeriodClosed

(* No step posts to a closed day or joins the calls that may, but for those
   calls themselves. *)
LEMMA ClosedSettles ==
  ASSUME Inv, [Next]_vars, NEW t \in Times, IsPeriodClosed(t)
  PROVE  /\ InFlight(t)' \subseteq InFlight(t)
         /\ InFlight(t) = {} => PostedOn(t)' = PostedOn(t)
<1> USE DEF InFlight, PostedOn
<1>1. CASE UNCHANGED <<stage, target, journals>>
  BY <1>1
<1>2. ASSUME NEW c \in Calls, NEW e \in Entries, Validate(c, e)
      PROVE  InFlight(t)' \subseteq InFlight(t) /\ PostedOn(t)' = PostedOn(t)
  <2>1. IsValid(e) => Time[e] # t
    BY DEF IsValid
  <2>2. PostedOn(t)' = PostedOn(t)
    BY <1>2 DEF Validate, ledger
  <2>3. \A b \in Calls : stage'[b] = "validated" /\ Time[target'[b]] = t =>
                           stage[b] = "validated" /\ Time[target[b]] = t
    BY <1>2, <2>1 DEF Validate, Inv, TypeOK
  <2> QED
    BY <2>2, <2>3
<1>3. ASSUME NEW c \in Calls, Post(c)
      PROVE  /\ InFlight(t)' \subseteq InFlight(t)
             /\ InFlight(t) = {} => PostedOn(t)' = PostedOn(t)
  <2>1. stage[c] = "validated" /\ target' = target /\ target[c] \in Entries
    BY <1>3 DEF Post, Inv, HasEntry
  <2>2. InFlight(t)' \subseteq InFlight(t)
    BY <1>3, <2>1 DEF Post, AppendJournal, Inv, TypeOK
  <2>3. ASSUME InFlight(t) = {} PROVE PostedOn(t)' = PostedOn(t)
    <3>1. Time[target[c]] # t
      BY <2>1, <2>3
    <3>2. CASE UNCHANGED journals
      BY <3>2
    <3>3. CASE journals' = Append(journals, Journal(target[c]))
      <4>1. journals \in Seq(JournalRecord) /\ Journal(target[c]) \in JournalRecord
        BY <2>1 DEF Inv, TypeOK, Journal, JournalRecord
      <4>2. Journal(target[c]).entry = target[c]
        BY DEF Journal
      <4> QED
        BY <3>1, <3>3, <4>1, <4>2, AppendFacts
    <3> QED
      BY <1>3, <3>2, <3>3 DEF Post, AppendJournal, ledger
  <2> QED
    BY <2>2, <2>3
<1> QED
  BY <1>1, <1>2, <1>3
     DEF Next, vars, RegisterAccount, CreatePeriod, ClosePeriod, ledger

(* A closed day is never opened again. *)
THEOREM ClosedDaysStayClosed == Spec => ClosedStaysClosed
<1>1. Inv /\ [Next]_vars => [\A t \in Times : IsPeriodClosed(t) => IsPeriodClosed(t)']_vars
  BY ClosedStays
<1> QED
  BY <1>1, Invariance, PTL DEF Spec, ClosedStaysClosed

(* The books of a closed day are final but for the calls already validated. *)
THEOREM ClosedDaysSettle == Spec => ClosedBooksSettle
<1>1. Inv /\ [Next]_vars =>
        [\A t \in Times :
           IsPeriodClosed(t) =>
             /\ InFlight(t)' \subseteq InFlight(t)
             /\ InFlight(t) = {} => PostedOn(t)' = PostedOn(t)]_vars
  BY ClosedSettles
<1> QED
  BY <1>1, Invariance, PTL DEF Spec, ClosedBooksSettle

-----------------------------------------------------------------------------
(* The amounts of the postings of a window, and those on one side. *)
Posted(window) == [x \in Postings(window) |-> Line(x).amount]
Side(window, direction) == {x \in Postings(window) : Line(x).direction = direction}

(* What a posting of a window is. *)
LEMMA PostingFacts ==
  ASSUME Inv, NEW window \in SUBSET (DOMAIN journals)
  PROVE  /\ IsFiniteSet(Postings(window))
         /\ \A i \in window : journals[i].entry \in Entries /\ Sound(journals[i].entry)
         /\ \A x \in Postings(window) :
              /\ x = <<x[1], x[2]>> /\ x[1] \in window
              /\ x[2] \in DOMAIN Lines[journals[x[1]].entry]
              /\ Line(x) \in Posting /\ Line(x).account \in accounts
         /\ \A i \in window : \A k \in DOMAIN Lines[journals[i].entry] : <<i, k>> \in Postings(window)
<1>1. journals \in Seq(JournalRecord)
  BY DEF Inv, TypeOK, JournalRecord
<1>2. \A i \in window : journals[i].entry \in Entries /\ Sound(journals[i].entry)
  <2> SUFFICES ASSUME NEW i \in window
               PROVE  journals[i].entry \in Entries /\ Sound(journals[i].entry)
    OBVIOUS
  <2>1. i \in DOMAIN journals
    OBVIOUS
  <2>2. journals[i] \in JournalRecord
    BY <1>1, <2>1
  <2>3. Sound(journals[i].entry)
    BY <2>1 DEF Inv, BooksAreSound
  <2> QED
    BY <2>2, <2>3 DEF JournalRecord
<1>3. \A x \in Postings(window) :
        /\ x = <<x[1], x[2]>> /\ x[1] \in window /\ x[2] \in DOMAIN Lines[journals[x[1]].entry]
  BY DEF Postings
<1>4. \A x \in Postings(window) : Line(x) \in Posting /\ Line(x).account \in accounts
  <2> SUFFICES ASSUME NEW x \in Postings(window)
               PROVE  Line(x) \in Posting /\ Line(x).account \in accounts
    OBVIOUS
  <2>1. /\ journals[x[1]].entry \in Entries /\ Sound(journals[x[1]].entry)
        /\ x[2] \in DOMAIN Lines[journals[x[1]].entry]
    BY <1>2, <1>3
  <2>2. Lines[journals[x[1]].entry] \in Seq(Posting)
    BY <2>1, EntryFacts
  <2> QED
    BY <2>1, <2>2 DEF Line, Sound
<1>5. \A i \in window : \A k \in DOMAIN Lines[journals[i].entry] : <<i, k>> \in Postings(window)
  BY DEF Postings
<1>6. IsFiniteSet(Postings(window))
  <2> DEFINE Of(i) == {<<i, k>> : k \in DOMAIN Lines[journals[i].entry]}
             g == [i \in window |-> Of(i)]
             sets == {Of(i) : i \in window}
  <2>1. IsFiniteSet(window)
    <3>1. DOMAIN journals = 1 .. Len(journals) /\ Len(journals) \in Nat
      BY <1>1
    <3>2. IsFiniteSet(1 .. Len(journals))
      BY <3>1, FS_Interval
    <3> QED
      BY <3>1, <3>2, FS_Subset, Zenon
  <2>2. IsFiniteSet(sets)
    <3>1. g \in Surjection(window, sets)
      BY DEF Surjection
    <3> QED
      BY <2>1, <3>1, FS_Surjection, Zenon
  <2>3. ASSUME NEW i \in window PROVE IsFiniteSet(Of(i))
    <3> DEFINE ks == DOMAIN Lines[journals[i].entry]
               h == [k \in ks |-> <<i, k>>]
    <3>1. Lines[journals[i].entry] \in Seq(Posting)
      BY <1>2, EntryFacts
    <3>2. ks = 1 .. Len(Lines[journals[i].entry]) /\ Len(Lines[journals[i].entry]) \in Nat
      BY <3>1
    <3>3. IsFiniteSet(ks)
      BY <3>2, FS_Interval
    <3>4. h \in Surjection(ks, Of(i))
      BY DEF Surjection
    <3> HIDE DEF ks, h, Of
    <3> QED
      BY <3>3, <3>4, FS_Surjection
  <2>4. \A T \in sets : IsFiniteSet(T)
    BY <2>3
  <2>5. IsFiniteSet(UNION sets)
    BY <2>2, <2>4, FS_UNION, Zenon
  <2>6. Postings(window) = UNION sets
    BY DEF Postings
  <2> QED
    BY <2>5, <2>6
<1> QED
  BY <1>2, <1>3, <1>4, <1>5, <1>6

(* The postings of one journal on one side add up to that side of its entry. *)
LEMMA JournalSide ==
  ASSUME Inv, NEW window \in SUBSET (DOMAIN journals), NEW i \in window, NEW direction
  PROVE  Total(Posted(window), {x \in Side(window, direction) : x[1] = i}) =
           Total(Amounts(journals[i].entry), On(journals[i].entry, direction))
<1> DEFINE e == journals[i].entry
           T == {x \in Side(window, direction) : x[1] = i}
           b == [k \in On(e, direction) |-> <<i, k>>]
<1>0. DOMAIN Lines[e] = DOMAIN Amounts(e)
  BY DEF Amounts
<1>1. IsFiniteSet(T)
  BY PostingFacts, FS_Subset DEF Side
<1>2. \A y \in T : Posted(window)[y] \in Nat
  BY PostingFacts DEF Posted, Side, Posting
<1>3. \A k \in On(e, direction) :
        /\ <<i, k>> \in T /\ Amounts(e)[k] = Posted(window)[<<i, k>>]
  <2> SUFFICES ASSUME NEW k \in On(e, direction)
               PROVE  <<i, k>> \in T /\ Amounts(e)[k] = Posted(window)[<<i, k>>]
    OBVIOUS
  <2>1. k \in DOMAIN Lines[e] /\ Lines[e][k].direction = direction
    BY DEF On
  <2>2. <<i, k>> \in Postings(window) /\ Line(<<i, k>>) = Lines[e][k]
    BY <2>1, PostingFacts DEF Line
  <2> QED
    BY <2>1, <2>2 DEF Side, Amounts, Posted
<1>4. b \in [On(e, direction) -> T]
  BY <1>3
<1>5. \A k, l \in On(e, direction) : b[k] = b[l] => k = l
  OBVIOUS
<1>6. \A t \in T : \E k \in On(e, direction) : b[k] = t
  <2> SUFFICES ASSUME NEW t \in T PROVE \E k \in On(e, direction) : b[k] = t
    OBVIOUS
  <2>1. t \in Postings(window) /\ t[1] = i /\ Line(t).direction = direction
    BY DEF Side
  <2>2. t = <<i, t[2]>> /\ t[2] \in DOMAIN Lines[e]
    BY <2>1, PostingFacts
  <2>3. t[2] \in On(e, direction)
    BY <2>1, <2>2 DEF On, Line
  <2> QED
    BY <2>2, <2>3
<1>7. \A k \in On(e, direction) : Amounts(e)[k] = Posted(window)[b[k]]
  BY <1>3
<1> HIDE DEF b, T, e
<1>8. Total(Amounts(e), On(e, direction)) = Total(Posted(window), T)
  BY <1>1, <1>2, <1>4, <1>5, <1>6, <1>7, TotalRenamed
<1> QED
  BY <1>8 DEF T, e

(* As much is debited in a window as is credited. *)
LEMMA SidesBalance ==
  ASSUME Inv, NEW window \in SUBSET (DOMAIN journals)
  PROVE  Total(Posted(window), Side(window, "DEBIT")) =
           Total(Posted(window), Side(window, "CREDIT"))
<1> DEFINE Of(direction) ==
             [i \in window |-> Total(Posted(window), {x \in Side(window, direction) : x[1] = i})]
           key == [x \in Postings(window) |-> x[1]]
<1>1. ASSUME NEW direction
      PROVE  Total(Of(direction), window) = Total(Posted(window), Side(window, direction))
  <2> DEFINE S == Side(window, direction)
             g == Of(direction)
  <2>1. IsFiniteSet(S)
    BY PostingFacts, FS_Subset DEF Side
  <2>2. \A x \in S : Posted(window)[x] \in Nat /\ key[x] \in window /\ key[x] = x[1]
    BY PostingFacts DEF Posted, Side, Posting
  <2>3. \A i \in window : g[i] = Total(Posted(window), {x \in S : key[x] = i})
    <3> SUFFICES ASSUME NEW i \in window
                 PROVE  g[i] = Total(Posted(window), {x \in S : key[x] = i})
      OBVIOUS
    <3>1. {x \in S : key[x] = i} = {x \in S : x[1] = i}
      BY <2>2
    <3> QED
      BY <3>1
  <2> DEFINE f == Posted(window)
             K == window
  <2>4. \A x \in S : f[x] \in Nat /\ key[x] \in K
    BY <2>2
  <2>5. \A i \in K : g[i] = Total(f, Keyed(key, S, i))
    BY <2>3 DEF Keyed
  <2> HIDE DEF S, g, key, f, K
  <2>6. Total(g, K) = Total(f, S)
    BY <2>1, <2>4, <2>5, TotalPartition
  <2> QED
    BY <2>6 DEF g, S, f, K
<1>2. \A i \in window : Of("DEBIT")[i] = Of("CREDIT")[i]
  <2> SUFFICES ASSUME NEW i \in window PROVE Of("DEBIT")[i] = Of("CREDIT")[i]
    OBVIOUS
  <2>1. IsBalanced(journals[i].entry)
    BY PostingFacts DEF Sound
  <2> QED
    BY <2>1, JournalSide DEF IsBalanced
<1> HIDE DEF Of
<1>3. Total(Of("DEBIT"), window) = Total(Of("CREDIT"), window)
  BY <1>2, TotalSame
<1> QED
  BY <1>1, <1>3

(* What moved on the registered accounts is what was posted. *)
LEMMA MovementsAreSides ==
  ASSUME Inv, NEW window \in SUBSET (DOMAIN journals), NEW direction
  PROVE  /\ \A a \in accounts : Movement(window, a, direction) \in Nat
         /\ Total([a \in accounts |-> Movement(window, a, direction)], accounts) =
              Total(Posted(window), Side(window, direction))
<1> DEFINE S == Side(window, direction)
           g == [a \in accounts |-> Movement(window, a, direction)]
           key == [x \in Postings(window) |-> Line(x).account]
<1>1. IsFiniteSet(S)
  BY PostingFacts, FS_Subset DEF Side
<1>2. \A x \in S : Posted(window)[x] \in Nat /\ key[x] \in accounts /\ key[x] = Line(x).account
  BY PostingFacts DEF Posted, Side, Posting
<1>3. ASSUME NEW a \in accounts
      PROVE  Movement(window, a, direction) = Total(Posted(window), {x \in S : key[x] = a})
  <2>1. {x \in S : key[x] = a} =
          {x \in Postings(window) : Line(x).account = a /\ Line(x).direction = direction}
    BY <1>2 DEF Side
  <2> QED
    BY <2>1 DEF Movement, Posted
<1>4. ASSUME NEW a \in accounts PROVE Movement(window, a, direction) \in Nat
  <2>1. IsFiniteSet({x \in S : key[x] = a})
    BY <1>1, FS_Subset
  <2> HIDE DEF S, key
  <2>2. Total(Posted(window), {x \in S : key[x] = a}) \in Nat
    BY <1>2, <2>1, TotalType
  <2> QED
    BY <1>3, <2>2
<1>5. \A a \in accounts : g[a] = Total(Posted(window), {x \in S : key[x] = a})
  BY <1>3
<1> DEFINE f == Posted(window)
<1>6. \A x \in S : f[x] \in Nat /\ key[x] \in accounts
  BY <1>2
<1>7. \A a \in accounts : g[a] = Total(f, Keyed(key, S, a))
  BY <1>5 DEF Keyed
<1> HIDE DEF S, g, key, f
<1>8. Total(g, accounts) = Total(f, S)
  BY <1>1, <1>6, <1>7, TotalPartition
<1> QED
  BY <1>4, <1>8 DEF g, S, f

(* Debit balances exceed credit balances by as much, account by account, as *)
(* debits exceed credits; and these balance. *)
LEMMA WindowBalances ==
  ASSUME Inv, NEW window \in SUBSET (DOMAIN journals)
  PROVE  IsTrialBalanced(window)
<1> DEFINE debits == [a \in accounts |-> Movement(window, a, "DEBIT")]
           credits == [a \in accounts |-> Movement(window, a, "CREDIT")]
           debit == [a \in accounts |-> DebitBalance(window, a)]
           credit == [a \in accounts |-> CreditBalance(window, a)]
           most == [a \in accounts |-> debit[a] + credits[a]]
<1>1. IsFiniteSet(accounts)
  BY AccountsAssumption, FS_Subset DEF Inv, TypeOK
<1>2. Total(debits, accounts) = Total(credits, accounts)
  BY MovementsAreSides, SidesBalance
<1>3. \A a \in accounts :
        /\ debits[a] \in Nat /\ credits[a] \in Nat /\ debit[a] \in Nat /\ credit[a] \in Nat
        /\ most[a] = debit[a] + credits[a] /\ most[a] = credit[a] + debits[a]
  <2> SUFFICES ASSUME NEW a \in accounts
               PROVE  /\ debits[a] \in Nat /\ credits[a] \in Nat /\ debit[a] \in Nat
                      /\ credit[a] \in Nat
                      /\ debit[a] + credits[a] = credit[a] + debits[a]
    OBVIOUS
  <2> DEFINE d == Movement(window, a, "DEBIT")
             c == Movement(window, a, "CREDIT")
  <2>1. d \in Nat /\ c \in Nat
    BY MovementsAreSides
  <2>2. DebitBalance(window, a) = (IF d > c THEN d - c ELSE 0)
        /\ CreditBalance(window, a) = (IF c > d THEN c - d ELSE 0)
    <3> HIDE DEF d, c
    <3>1. Balance(window, a) = IF GrowsOnDebit(a) THEN d - c ELSE c - d
      BY DEF Balance, d, c
    <3> QED
      BY <2>1, <3>1 DEF DebitBalance, CreditBalance, Positive
  <2> HIDE DEF d, c
  <2>3. debits[a] = d /\ credits[a] = c /\ debit[a] = DebitBalance(window, a)
        /\ credit[a] = CreditBalance(window, a)
    BY DEF d, c
  <2> QED
    BY <2>1, <2>2, <2>3
<1> HIDE DEF debits, credits, debit, credit, most
<1>4. Total(most, accounts) = Total(debit, accounts) + Total(credits, accounts)
  BY <1>1, <1>3, TotalPlus
<1>5. Total(most, accounts) = Total(credit, accounts) + Total(debits, accounts)
  BY <1>1, <1>3, TotalPlus
<1>6. /\ Total(debit, accounts) \in Nat /\ Total(credit, accounts) \in Nat
      /\ Total(debits, accounts) \in Nat
  BY <1>1, <1>3, TotalType
<1>7. Total(debit, accounts) = Total(credit, accounts)
  BY <1>2, <1>4, <1>5, <1>6
<1> QED
  BY <1>7 DEF IsTrialBalanced, debit, credit

(* Every trial balance balances, of every window of days at every moment,   *)
(* whatever is posted, refused, registered and closed.                      *)
THEOREM TrialAlwaysBalances == Spec => []TrialBalances
<1>1. Inv => TrialBalances
  <2> SUFFICES ASSUME Inv, NEW first \in Times, NEW last \in Times
               PROVE  IsTrialBalanced(Between(first, last))
    BY DEF TrialBalances
  <2>1. Between(first, last) \in SUBSET (DOMAIN journals)
    BY DEF Between
  <2> QED
    BY <2>1, WindowBalances
<1> QED
  BY <1>1, Invariance, PTL

-----------------------------------------------------------------------------
(* Where the span of a party begins, and where it ends. *)
StartOf(amount, rank, p) == Total(amount, Ahead(amount, rank, p))
EndOf(amount, rank, p) == StartOf(amount, rank, p) + amount[p]

(* Positive amounts of some parties. *)
IsSide(amount) == DOMAIN amount \subseteq Parties /\ \A p \in DOMAIN amount : amount[p] \in Nat \ {0}

(* The units of a party end where those of the next begin. *)
LEMMA SpanFacts ==
  ASSUME NEW amount, IsSide(amount), NEW rank \in Rankings
  PROVE  /\ IsFiniteSet(DOMAIN amount) /\ Total(amount, DOMAIN amount) \in Nat
         /\ \A p \in DOMAIN amount :
              /\ StartOf(amount, rank, p) \in Nat /\ EndOf(amount, rank, p) \in Nat \ {0}
              /\ Span(amount, rank, p) = (StartOf(amount, rank, p) + 1) .. EndOf(amount, rank, p)
              /\ EndOf(amount, rank, p) <= Total(amount, DOMAIN amount)
         /\ \A p, q \in DOMAIN amount :
              p # q => \/ EndOf(amount, rank, p) <= StartOf(amount, rank, q)
                       \/ EndOf(amount, rank, q) <= StartOf(amount, rank, p)
<1> DEFINE S == DOMAIN amount
           A(p) == Ahead(amount, rank, p)
<1>1. IsFiniteSet(S)
  BY ClearingAssumption, FS_Subset DEF IsSide
<1>2. \A p \in S : amount[p] \in Nat \ {0} /\ rank[p] \in Nat /\ p \in Parties
  BY DEF IsSide, Rankings
<1>3. ASSUME NEW p \in S
      PROVE  A(p) \in SUBSET S /\ IsFiniteSet(A(p)) /\ p \notin A(p)
  <2>1. A(p) \in SUBSET S
    BY DEF Ahead
  <2>2. p \notin A(p)
    BY <1>2 DEF Ahead
  <2> HIDE DEF A, S
  <2> QED
    BY <1>1, <2>1, <2>2, FS_Subset
<1>4. ASSUME NEW p \in S
      PROVE  /\ Total(amount, A(p)) \in Nat
             /\ Total(amount, A(p) \cup {p}) = Total(amount, A(p)) + amount[p]
  <2> HIDE DEF A, S
  <2>1. \A x \in A(p) \cup {p} : amount[x] \in Nat
    BY <1>2, <1>3
  <2> QED
    BY <1>3, <2>1, TotalType, TotalAdd
<1>5. ASSUME NEW p \in S, NEW T \in SUBSET S, A(p) \cup {p} \subseteq T
      PROVE  Total(amount, A(p)) + amount[p] <= Total(amount, T)
  <2> HIDE DEF A, S
  <2>1. IsFiniteSet(T) /\ \A x \in T : amount[x] \in Nat
    BY <1>1, <1>2, FS_Subset
  <2>2. Total(amount, A(p) \cup {p}) <= Total(amount, T)
    BY <1>5, <2>1, TotalSubset
  <2> QED
    BY <1>4, <2>2
<1>6. ASSUME NEW p \in S, NEW q \in S, p \in A(q)
      PROVE  Total(amount, A(p)) + amount[p] <= Total(amount, A(q))
  <2>1. A(p) \cup {p} \subseteq A(q)
    <3> SUFFICES ASSUME NEW x \in A(p) PROVE x \in A(q)
      BY <1>6
    <3>1. x \in S
      BY DEF Ahead
    <3>2. /\ amount[x] \in Nat /\ amount[p] \in Nat /\ amount[q] \in Nat
          /\ rank[x] \in Nat /\ rank[p] \in Nat /\ rank[q] \in Nat
      BY <1>2, <3>1
    <3>3. amount[x] > amount[p] \/ (amount[x] = amount[p] /\ rank[x] < rank[p])
      BY DEF Ahead
    <3>4. amount[p] > amount[q] \/ (amount[p] = amount[q] /\ rank[p] < rank[q])
      BY <1>6 DEF Ahead
    <3>5. amount[x] > amount[q] \/ (amount[x] = amount[q] /\ rank[x] < rank[q])
      BY <3>2, <3>3, <3>4
    <3> QED
      BY <3>1, <3>5 DEF Ahead
  <2> QED
    BY <1>3, <1>5, <2>1
<1>7. ASSUME NEW p \in S, NEW q \in S, p # q PROVE p \in A(q) \/ q \in A(p)
  <2>1. rank[p] # rank[q]
    BY <1>2, <1>7 DEF Rankings
  <2> QED
    BY <1>2, <2>1 DEF Ahead
<1>8. Total(amount, S) \in Nat
  <2> HIDE DEF S
  <2> QED
    BY <1>1, <1>2, TotalType
<1>9. ASSUME NEW p \in S
      PROVE  /\ StartOf(amount, rank, p) \in Nat /\ EndOf(amount, rank, p) \in Nat \ {0}
             /\ Span(amount, rank, p) = (StartOf(amount, rank, p) + 1) .. EndOf(amount, rank, p)
             /\ EndOf(amount, rank, p) <= Total(amount, S)
  <2>1. StartOf(amount, rank, p) = Total(amount, A(p))
    BY DEF StartOf
  <2>2. EndOf(amount, rank, p) = Total(amount, A(p)) + amount[p]
    BY DEF StartOf, EndOf
  <2>3. Total(amount, A(p)) + amount[p] <= Total(amount, S)
    BY <1>3, <1>5
  <2>4. Span(amount, rank, p) = (StartOf(amount, rank, p) + 1) .. EndOf(amount, rank, p)
    BY DEF Span, StartOf, EndOf
  <2> DEFINE s == Total(amount, A(p))
  <2>5. s \in Nat /\ amount[p] \in Nat \ {0}
    BY <1>2, <1>4
  <2>6. StartOf(amount, rank, p) = s /\ EndOf(amount, rank, p) = s + amount[p]
    BY <2>1, <2>2
  <2>7. s + amount[p] <= Total(amount, S)
    BY <2>3
  <2> HIDE DEF A, S, s
  <2>8. s + amount[p] \in Nat \ {0}
    BY <2>5
  <2> QED
    BY <2>4, <2>5, <2>6, <2>7, <2>8
<1>10. ASSUME NEW p \in S, NEW q \in S, p # q
       PROVE  \/ EndOf(amount, rank, p) <= StartOf(amount, rank, q)
              \/ EndOf(amount, rank, q) <= StartOf(amount, rank, p)
  <2>1. p \in A(q) => EndOf(amount, rank, p) <= StartOf(amount, rank, q)
    BY <1>6 DEF StartOf, EndOf
  <2>2. q \in A(p) => EndOf(amount, rank, q) <= StartOf(amount, rank, p)
    BY <1>6 DEF StartOf, EndOf
  <2> HIDE DEF A
  <2> QED
    BY <1>7, <1>10, <2>1, <2>2
<1> QED
  BY <1>1, <1>8, <1>9, <1>10

(* A unit of a side is one party's only. *)
LEMMA SpansApart ==
  ASSUME NEW amount, IsSide(amount), NEW rank \in Rankings,
         NEW p \in DOMAIN amount, NEW q \in DOMAIN amount,
         NEW u, u \in Span(amount, rank, p), u \in Span(amount, rank, q)
  PROVE  p = q
<1>1. /\ StartOf(amount, rank, p) \in Nat /\ EndOf(amount, rank, p) \in Nat
      /\ StartOf(amount, rank, q) \in Nat /\ EndOf(amount, rank, q) \in Nat
      /\ u \in (StartOf(amount, rank, p) + 1) .. EndOf(amount, rank, p)
      /\ u \in (StartOf(amount, rank, q) + 1) .. EndOf(amount, rank, q)
  BY SpanFacts
<1>2. p # q => \/ EndOf(amount, rank, p) <= StartOf(amount, rank, q)
               \/ EndOf(amount, rank, q) <= StartOf(amount, rank, p)
  BY SpanFacts
<1> QED
  BY <1>1, <1>2

(* Every unit is one party's. *)
LEMMA SpansCover ==
  ASSUME NEW amount, IsSide(amount), NEW rank \in Rankings,
         NEW u \in 1 .. Total(amount, DOMAIN amount)
  PROVE  \E p \in DOMAIN amount : u \in Span(amount, rank, p)
<1> DEFINE S == DOMAIN amount
           units == UnitsOf(amount, S)
           all == 1 .. Total(amount, S)
           start == [p \in S |-> StartOf(amount, rank, p)]
           place == [v \in units |-> start[v[1]] + v[2]]
<1>1. IsFiniteSet(all) /\ Cardinality(all) = Total(amount, S)
  BY SpanFacts, FS_Interval
<1>2. Cardinality(units) = Total(amount, S)
  BY DEF Total
<1>3. ASSUME NEW v \in units
      PROVE  /\ v = <<v[1], v[2]>> /\ v[1] \in S /\ v[2] \in 1 .. amount[v[1]]
             /\ start[v[1]] \in Nat /\ place[v] = start[v[1]] + v[2]
             /\ place[v] \in all
             /\ \A p \in S : p # v[1] => \/ place[v] <= start[p]
                                         \/ start[p] + amount[p] <= start[v[1]]
  <2>1. v = <<v[1], v[2]>> /\ v[1] \in S /\ v[2] \in 1 .. amount[v[1]]
    BY UnitsAre
  <2>2. place[v] = start[v[1]] + v[2]
    OBVIOUS
  <2>3. \A p \in S : /\ start[p] = StartOf(amount, rank, p)
                     /\ start[p] + amount[p] = EndOf(amount, rank, p)
                     /\ amount[p] \in Nat
    BY DEF EndOf, IsSide
  <2>4. start[v[1]] \in Nat /\ start[v[1]] + amount[v[1]] <= Total(amount, S)
    BY <2>1, <2>3, SpanFacts
  <2>5. \A p \in S : start[p] \in Nat
    BY <2>3, SpanFacts
  <2>6. \A p \in S : p # v[1] => \/ start[v[1]] + amount[v[1]] <= start[p]
                                 \/ start[p] + amount[p] <= start[v[1]]
    BY <2>1, <2>3, SpanFacts
  <2>7. Total(amount, S) \in Nat /\ amount[v[1]] \in Nat
    BY <2>1, <2>3, SpanFacts
  <2> HIDE DEF start, place, S
  <2>8. place[v] \in all
    BY <2>1, <2>2, <2>4, <2>7
  <2>9. \A p \in S : p # v[1] => \/ place[v] <= start[p]
                                 \/ start[p] + amount[p] <= start[v[1]]
    BY <2>1, <2>2, <2>4, <2>5, <2>6, <2>7
  <2> QED
    BY <2>1, <2>2, <2>4, <2>8, <2>9
<1>4. place \in [units -> all]
  BY <1>3
<1>5. \A v, w \in units : place[v] = place[w] => v = w
  <2> SUFFICES ASSUME NEW v \in units, NEW w \in units, place[v] = place[w]
               PROVE  v = w
    OBVIOUS
  <2> HIDE DEF place, start, units, all
  <2>1. /\ v = <<v[1], v[2]>> /\ v[1] \in S /\ v[2] \in 1 .. amount[v[1]]
        /\ start[v[1]] \in Nat /\ place[v] = start[v[1]] + v[2]
        /\ w = <<w[1], w[2]>> /\ w[1] \in S /\ w[2] \in 1 .. amount[w[1]]
        /\ start[w[1]] \in Nat /\ place[w] = start[w[1]] + w[2]
    BY <1>3
  <2>2. w[1] # v[1] => \/ place[v] <= start[w[1]]
                       \/ start[w[1]] + amount[w[1]] <= start[v[1]]
    BY <1>3, <2>1
  <2>3. /\ amount[w[1]] \in Nat /\ amount[v[1]] \in Nat /\ v[2] \in Nat /\ w[2] \in Nat
        /\ v[2] >= 1 /\ w[2] >= 1 /\ w[2] <= amount[w[1]]
    BY <2>1 DEF IsSide
  <2>4. start[v[1]] + v[2] = start[w[1]] + w[2]
    BY <2>1
  <2>5. v[1] = w[1]
    <3> DEFINE m == v[2]
               n == w[2]
               s == start[v[1]]
               t == start[w[1]]
               a == amount[w[1]]
    <3>1. /\ s \in Nat /\ t \in Nat /\ a \in Nat /\ m \in Nat /\ n \in Nat
          /\ m >= 1 /\ n >= 1 /\ n <= a /\ s + m = t + n
      BY <2>1, <2>3, <2>4
    <3>2. w[1] # v[1] => s + m <= t \/ t + a <= s
      BY <2>1, <2>2
    <3> HIDE DEF m, n, s, t, a
    <3> QED
      BY <3>1, <3>2
  <2>6. v[2] = w[2]
    <3> DEFINE m == v[2]
               n == w[2]
               s == start[v[1]]
    <3>1. s \in Nat /\ m \in Nat /\ n \in Nat /\ s + m = s + n
      BY <2>1, <2>3, <2>4, <2>5
    <3> HIDE DEF s
    <3> QED
      BY <3>1
  <2> QED
    BY <2>1, <2>5, <2>6
<1>6. place \in Surjection(units, all)
  <2>1. place \in Injection(units, all)
    BY <1>4, <1>5 DEF Injection, IsInjective
  <2> HIDE DEF place, units, all
  <2> QED
    BY <1>1, <1>2, <2>1, FS_Injection
<1>7. PICK v \in units : place[v] = u
  BY <1>6 DEF Surjection
<1>8. /\ v[1] \in S /\ v[2] \in 1 .. amount[v[1]] /\ start[v[1]] \in Nat
      /\ u = start[v[1]] + v[2] /\ start[v[1]] = StartOf(amount, rank, v[1])
  BY <1>3, <1>7
<1>9. Span(amount, rank, v[1]) = (start[v[1]] + 1) .. (start[v[1]] + amount[v[1]])
  BY <1>8 DEF Span, StartOf
<1> HIDE DEF start
<1>10. u \in Span(amount, rank, v[1])
  BY <1>8, <1>9 DEF IsSide
<1> QED
  BY <1>8, <1>10

-----------------------------------------------------------------------------
(* A sum of amounts is a number. *)
LEMMA SumType ==
  ASSUME NEW S, IsFiniteSet(S), \A x \in S : x.amount \in Nat
  PROVE  Sum(S) \in Nat
<1> DEFINE f == [x \in S |-> x.amount]
<1>1. \A x \in S : f[x] \in Nat
  OBVIOUS
<1> HIDE DEF f
<1>2. Total(f, S) \in Nat
  BY <1>1, TotalType
<1> QED
  BY <1>2 DEF Sum, f

(* What a batch owes to its parties, and they to it. *)
LEMMA BatchFacts ==
  ASSUME NEW batch \in SUBSET Obligations
  PROVE  /\ IsFiniteSet(batch) /\ Sum(batch) \in Nat
         /\ \A o \in batch : /\ o.source \in Parties /\ o.destination \in Parties
                             /\ o.amount \in Nat \ {0}
         /\ \A p : /\ Owed(batch, p) \in Nat /\ Owing(batch, p) \in Nat
                   /\ Owing({o \in batch : o.destination # p}, p) \in Nat
<1>1. \A T \in SUBSET Obligations : IsFiniteSet(T) /\ \A o \in T : o.amount \in Nat
  BY ClearingAssumption, FS_Subset
<1>2. \A T \in SUBSET Obligations : Sum(T) \in Nat
  BY <1>1, SumType
<1>3. ASSUME NEW p
      PROVE  /\ Owed(batch, p) \in Nat /\ Owing(batch, p) \in Nat
             /\ Owing({o \in batch : o.destination # p}, p) \in Nat
  BY <1>2 DEF Owed, Owing
<1> QED
  BY <1>1, <1>2, <1>3, ClearingAssumption

(* Debtors and creditors are different parties, with positive amounts. *)
LEMMA SidesFacts ==
  ASSUME NEW batch \in SUBSET Obligations
  PROVE  /\ IsSide(Debts(batch)) /\ IsSide(Credits(batch))
         /\ DOMAIN Debts(batch) = {p \in Parties : NetBalance(batch, p) < 0}
         /\ DOMAIN Credits(batch) = {p \in Parties : NetBalance(batch, p) > 0}
         /\ \A p \in DOMAIN Debts(batch) : Debts(batch)[p] = -NetBalance(batch, p)
         /\ \A p \in DOMAIN Credits(batch) : Credits(batch)[p] = NetBalance(batch, p)
         /\ DOMAIN Debts(batch) \cap DOMAIN Credits(batch) = {}
         /\ \A p : NetBalance(batch, p) \in Int
<1>1. ASSUME NEW p PROVE NetBalance(batch, p) \in Int
  <2> DEFINE a == Owed(batch, p)
             b == Owing({o \in batch : o.destination # p}, p)
  <2>1. a \in Nat /\ b \in Nat
    BY BatchFacts
  <2>2. NetBalance(batch, p) = a - b
    BY DEF NetBalance
  <2> HIDE DEF a, b
  <2> QED
    BY <2>1, <2>2
<1>2. /\ DOMAIN Debts(batch) = {p \in Parties : NetBalance(batch, p) < 0}
      /\ DOMAIN Credits(batch) = {p \in Parties : NetBalance(batch, p) > 0}
      /\ \A p \in DOMAIN Debts(batch) : Debts(batch)[p] = -NetBalance(batch, p)
      /\ \A p \in DOMAIN Credits(batch) : Credits(batch)[p] = NetBalance(batch, p)
  BY DEF Debts, Credits
<1>3. IsSide(Debts(batch)) /\ IsSide(Credits(batch))
  BY <1>1, <1>2 DEF IsSide
<1>4. DOMAIN Debts(batch) \cap DOMAIN Credits(batch) = {}
  BY <1>1, <1>2
<1> QED
  BY <1>1, <1>2, <1>3, <1>4

(* What a net obligation is. *)
LEMMA NetFacts ==
  ASSUME NEW batch \in SUBSET Obligations, NEW rank \in Rankings
  PROVE  LET net == NetObligations(batch, rank)
             D == DOMAIN Debts(batch)
             C == DOMAIN Credits(batch)
         IN  /\ \A n \in net :
                  /\ n \in NetObligation /\ n.source \in D /\ n.destination \in C
                  /\ n.amount = Cardinality(Shared(batch, rank, n.source, n.destination))
                  /\ Shared(batch, rank, n.source, n.destination) # {}
             /\ \A m, n \in net : m.source = n.source /\ m.destination = n.destination => m = n
             /\ \A p \in D, q \in C :
                  Shared(batch, rank, p, q) # {} =>
                    \E n \in net : n.source = p /\ n.destination = q
             /\ IsFiniteSet(net)
<1> DEFINE net == NetObligations(batch, rank)
           D == DOMAIN Debts(batch)
           C == DOMAIN Credits(batch)
           Piece(p, q) == Shared(batch, rank, p, q)
           Made(m) == [source |-> m[1], destination |-> m[2], amount |-> Cardinality(Piece(m[1], m[2]))]
           pairs == {x \in D \X C : Piece(x[1], x[2]) # {}}
<1>1. net = {Made(m) : m \in pairs}
  BY DEF NetObligations
<1>2. ASSUME NEW p \in D, NEW q \in C
      PROVE  /\ IsFiniteSet(Piece(p, q)) /\ Cardinality(Piece(p, q)) \in Nat
             /\ Piece(p, q) # {} => Cardinality(Piece(p, q)) # 0
             /\ p \in Parties /\ q \in Parties
  <2>1. IsSide(Debts(batch))
    BY SidesFacts
  <2>2. Span(Debts(batch), rank, p) =
          (StartOf(Debts(batch), rank, p) + 1) .. EndOf(Debts(batch), rank, p)
        /\ StartOf(Debts(batch), rank, p) \in Nat /\ EndOf(Debts(batch), rank, p) \in Nat
    BY <2>1, SpanFacts
  <2>3. IsFiniteSet(Span(Debts(batch), rank, p))
    BY <2>2, FS_Interval
  <2>4. Piece(p, q) \in SUBSET Span(Debts(batch), rank, p)
    BY DEF Shared
  <2>5. p \in Parties /\ q \in Parties
    BY SidesFacts DEF IsSide
  <2> HIDE DEF Piece, D, C
  <2>6. IsFiniteSet(Piece(p, q))
    BY <2>3, <2>4, FS_Subset
  <2> QED
    BY <2>5, <2>6, FS_CardinalityType, FS_EmptySet
<1> HIDE DEF D, C, net, Piece
<1>3. ASSUME NEW n \in net
      PROVE  /\ n \in NetObligation /\ n.source \in D /\ n.destination \in C
             /\ n.amount = Cardinality(Piece(n.source, n.destination))
             /\ Piece(n.source, n.destination) # {}
             /\ n = Made(<<n.source, n.destination>>)
  <2>1. PICK m \in pairs : n = Made(m)
    BY <1>1
  <2>2. m[1] \in D /\ m[2] \in C /\ Piece(m[1], m[2]) # {}
    BY <2>1
  <2>3. n.source = m[1] /\ n.destination = m[2] /\ n.amount = Cardinality(Piece(m[1], m[2]))
    BY <2>1
  <2>4. n \in NetObligation
    BY <1>2, <2>1, <2>2 DEF NetObligation
  <2>5. n = Made(<<n.source, n.destination>>)
    BY <2>1, <2>3
  <2> QED
    BY <2>2, <2>3, <2>4, <2>5
<1>4. \A m, n \in net : m.source = n.source /\ m.destination = n.destination => m = n
  BY <1>3
<1>5. ASSUME NEW p \in D, NEW q \in C, Piece(p, q) # {}
      PROVE  \E n \in net : n.source = p /\ n.destination = q
  <2>1. <<p, q>> \in pairs
    BY <1>5
  <2>2. Made(<<p, q>>) \in net /\ Made(<<p, q>>).source = p /\ Made(<<p, q>>).destination = q
    BY <1>1, <2>1
  <2> QED
    BY <2>2
<1>6. IsFiniteSet(net)
  <2> DEFINE f == [m \in pairs |-> Made(m)]
  <2>1. IsFiniteSet(D) /\ IsFiniteSet(C)
    BY SidesFacts, SpanFacts DEF D, C
  <2>2. IsFiniteSet(D \X C)
    BY <2>1, FS_Product
  <2>3. IsFiniteSet(pairs)
    BY <2>2, FS_Subset
  <2>4. f \in Surjection(pairs, net)
    BY <1>1 DEF Surjection
  <2> HIDE DEF f, pairs
  <2> QED
    BY <2>3, <2>4, FS_Surjection
<1> QED
  BY <1>3, <1>4, <1>5, <1>6 DEF D, C, net, Piece

(* Some net obligations sum up to the units that they carry. *)
LEMMA Pieces ==
  ASSUME NEW batch \in SUBSET Obligations, NEW rank \in Rankings,
         NEW K \in SUBSET NetObligations(batch, rank),
         NEW V, IsFiniteSet(V),
         \A u \in V : \E n \in K : u \in Shared(batch, rank, n.source, n.destination),
         \A n \in K : Shared(batch, rank, n.source, n.destination) \subseteq V
  PROVE  Sum(K) = Cardinality(V)
<1> DEFINE g == [n \in K |-> n.amount]
           Piece(n) == Shared(batch, rank, n.source, n.destination)
           k == [u \in V |-> CHOOSE n \in K : u \in Piece(n)]
<1>1. \A n \in K : /\ n.source \in DOMAIN Debts(batch) /\ n.destination \in DOMAIN Credits(batch)
                   /\ n.amount = Cardinality(Piece(n))
  BY NetFacts
<1>2. ASSUME NEW m \in K, NEW n \in K, NEW u, u \in Piece(m), u \in Piece(n) PROVE m = n
  <2>1. /\ u \in Span(Debts(batch), rank, m.source) /\ u \in Span(Debts(batch), rank, n.source)
        /\ u \in Span(Credits(batch), rank, m.destination)
        /\ u \in Span(Credits(batch), rank, n.destination)
    BY <1>2 DEF Shared
  <2>2. m.source = n.source
    BY <1>1, <2>1, SidesFacts, SpansApart
  <2>3. m.destination = n.destination
    BY <1>1, <2>1, SidesFacts, SpansApart
  <2> QED
    BY <2>2, <2>3, NetFacts
<1> HIDE DEF Piece
<1>3. \A u \in V : k[u] \in K /\ u \in Piece(k[u])
  <2> SUFFICES ASSUME NEW u \in V PROVE k[u] \in K /\ u \in Piece(k[u])
    OBVIOUS
  <2>1. \E n \in K : u \in Piece(n)
    BY DEF Piece
  <2> QED
    BY <2>1
<1>4. \A n \in K : g[n] = Cardinality(Keyed(k, V, n))
  <2> SUFFICES ASSUME NEW n \in K PROVE g[n] = Cardinality(Keyed(k, V, n))
    OBVIOUS
  <2>1. Piece(n) \subseteq V
    BY DEF Piece
  <2> HIDE DEF k
  <2>2. \A u \in V : k[u] = n <=> u \in Piece(n)
    BY <1>2, <1>3
  <2>3. Keyed(k, V, n) = Piece(n)
    BY <2>1, <2>2 DEF Keyed
  <2> QED
    BY <1>1, <2>3
<1>5. \A u \in V : k[u] \in K
  BY <1>3
<1> HIDE DEF g, k
<1>6. Total(g, K) = Cardinality(V)
  BY <1>4, <1>5, TotalOfKeys
<1> QED
  BY <1>6 DEF Sum, g

-----------------------------------------------------------------------------
(* An interval by its beginning and its size. *)
LEMMA IntervalSize ==
  ASSUME NEW from \in Nat, NEW size \in Nat
  PROVE  /\ IsFiniteSet((from + 1) .. (from + size))
         /\ Cardinality((from + 1) .. (from + size)) = size
<1> DEFINE a == from + 1
           b == from + size
<1>1. a \in Int /\ b \in Int /\ (IF a > b THEN 0 ELSE b - a + 1) = size
  OBVIOUS
<1> HIDE DEF a, b
<1>2. IsFiniteSet(a .. b) /\ Cardinality(a .. b) = IF a > b THEN 0 ELSE b - a + 1
  BY <1>1, FS_Interval
<1> QED
  BY <1>1, <1>2 DEF a, b

(* When both sides are worth the same, a debtor pays what it owes. *)
LEMMA DebtorsPay ==
  ASSUME NEW batch \in SUBSET Obligations, NEW rank \in Rankings,
         Total(Debts(batch), DOMAIN Debts(batch)) = Total(Credits(batch), DOMAIN Credits(batch)),
         NEW p \in DOMAIN Debts(batch)
  PROVE  Owing(NetObligations(batch, rank), p) = Debts(batch)[p]
<1> DEFINE net == NetObligations(batch, rank)
           K == {n \in net : n.source = p}
           V == Span(Debts(batch), rank, p)
           from == StartOf(Debts(batch), rank, p)
           to == EndOf(Debts(batch), rank, p)
<1>1. /\ from \in Nat /\ to \in Nat /\ V = (from + 1) .. to
      /\ to <= Total(Credits(batch), DOMAIN Credits(batch))
      /\ Debts(batch)[p] \in Nat \ {0} /\ to = from + Debts(batch)[p]
      /\ Total(Credits(batch), DOMAIN Credits(batch)) \in Nat
  BY SidesFacts, SpanFacts DEF EndOf, IsSide
<1>2. IsFiniteSet(V) /\ Cardinality(V) = Debts(batch)[p]
  <2> HIDE DEF from, to, V
  <2> QED
    BY <1>1, IntervalSize
<1>3. \A n \in K : Shared(batch, rank, n.source, n.destination) \subseteq V
  BY DEF Shared
<1>4. ASSUME NEW u \in V
      PROVE  \E n \in K : u \in Shared(batch, rank, n.source, n.destination)
  <2>1. u \in 1 .. Total(Credits(batch), DOMAIN Credits(batch))
    <3> HIDE DEF from, to
    <3> QED
      BY <1>1
  <2>2. PICK q \in DOMAIN Credits(batch) : u \in Span(Credits(batch), rank, q)
    BY <2>1, SidesFacts, SpansCover
  <2>3. u \in Shared(batch, rank, p, q)
    BY <2>2 DEF Shared
  <2>4. PICK n \in net : n.source = p /\ n.destination = q
    BY <2>3, NetFacts
  <2> QED
    BY <2>3, <2>4
<1>5. K \in SUBSET net
  OBVIOUS
<1> HIDE DEF K, V
<1>6. Sum(K) = Cardinality(V)
  BY <1>2, <1>3, <1>4, <1>5, Pieces
<1> QED
  BY <1>2, <1>6 DEF Owing, K

(* And a creditor is paid what it is owed. *)
LEMMA CreditorsArePaid ==
  ASSUME NEW batch \in SUBSET Obligations, NEW rank \in Rankings,
         Total(Debts(batch), DOMAIN Debts(batch)) = Total(Credits(batch), DOMAIN Credits(batch)),
         NEW p \in DOMAIN Credits(batch)
  PROVE  Owed(NetObligations(batch, rank), p) = Credits(batch)[p]
<1> DEFINE net == NetObligations(batch, rank)
           K == {n \in net : n.destination = p}
           V == Span(Credits(batch), rank, p)
           from == StartOf(Credits(batch), rank, p)
           to == EndOf(Credits(batch), rank, p)
<1>1. /\ from \in Nat /\ to \in Nat /\ V = (from + 1) .. to
      /\ to <= Total(Debts(batch), DOMAIN Debts(batch))
      /\ Credits(batch)[p] \in Nat \ {0} /\ to = from + Credits(batch)[p]
      /\ Total(Debts(batch), DOMAIN Debts(batch)) \in Nat
  BY SidesFacts, SpanFacts DEF EndOf, IsSide
<1>2. IsFiniteSet(V) /\ Cardinality(V) = Credits(batch)[p]
  <2> HIDE DEF from, to, V
  <2> QED
    BY <1>1, IntervalSize
<1>3. \A n \in K : Shared(batch, rank, n.source, n.destination) \subseteq V
  BY DEF Shared
<1>4. ASSUME NEW u \in V
      PROVE  \E n \in K : u \in Shared(batch, rank, n.source, n.destination)
  <2>1. u \in 1 .. Total(Debts(batch), DOMAIN Debts(batch))
    <3> HIDE DEF from, to
    <3> QED
      BY <1>1
  <2>2. PICK q \in DOMAIN Debts(batch) : u \in Span(Debts(batch), rank, q)
    BY <2>1, SidesFacts, SpansCover
  <2>3. u \in Shared(batch, rank, q, p)
    BY <2>2 DEF Shared
  <2>4. PICK n \in net : n.source = q /\ n.destination = p
    BY <2>3, NetFacts
  <2> QED
    BY <2>3, <2>4
<1>5. K \in SUBSET net
  OBVIOUS
<1> HIDE DEF K, V
<1>6. Sum(K) = Cardinality(V)
  BY <1>2, <1>3, <1>4, <1>5, Pieces
<1> QED
  BY <1>2, <1>6 DEF Owed, K

(* What changes hands is no more than what is owed. *)
LEMMA NetIsBounded ==
  ASSUME NEW batch \in SUBSET Obligations, NEW rank \in Rankings
  PROVE  Sum(NetObligations(batch, rank)) <= Total(Debts(batch), DOMAIN Debts(batch))
<1> DEFINE net == NetObligations(batch, rank)
           all == 1 .. Total(Debts(batch), DOMAIN Debts(batch))
           V == {u \in all : \E n \in net : u \in Shared(batch, rank, n.source, n.destination)}
<1>1. Total(Debts(batch), DOMAIN Debts(batch)) \in Nat
  BY SidesFacts, SpanFacts
<1>2. IsFiniteSet(all) /\ Cardinality(all) = Total(Debts(batch), DOMAIN Debts(batch))
  BY <1>1, FS_Interval
<1>3. IsFiniteSet(V) /\ Cardinality(V) <= Cardinality(all)
  <2>1. V \in SUBSET all
    OBVIOUS
  <2> HIDE DEF V, all
  <2> QED
    BY <1>2, <2>1, FS_Subset
<1>4. ASSUME NEW n \in net, NEW u \in Shared(batch, rank, n.source, n.destination)
      PROVE  u \in V
  <2>1. n.source \in DOMAIN Debts(batch)
    BY NetFacts
  <2>2. u \in Span(Debts(batch), rank, n.source)
    BY DEF Shared
  <2> DEFINE from == StartOf(Debts(batch), rank, n.source)
             to == EndOf(Debts(batch), rank, n.source)
             all2 == Total(Debts(batch), DOMAIN Debts(batch))
  <2>3. from \in Nat /\ to \in Nat /\ to <= all2 /\ u \in (from + 1) .. to
    BY <2>1, <2>2, SidesFacts, SpanFacts
  <2>4. u \in 1 .. all2
    <3>1. all2 \in Nat
      BY <1>1
    <3> HIDE DEF from, to, all2
    <3> QED
      BY <2>3, <3>1
  <2> QED
    BY <2>4
<1>5. \A u \in V : \E n \in net : u \in Shared(batch, rank, n.source, n.destination)
  OBVIOUS
<1>6. \A n \in net : Shared(batch, rank, n.source, n.destination) \subseteq V
  BY <1>4
<1> HIDE DEF V, all
<1>7. Sum(net) = Cardinality(V)
  BY <1>3, <1>5, <1>6, Pieces
<1> HIDE DEF net
<1>8. Cardinality(V) \in Nat
  BY <1>3, FS_CardinalityType
<1> QED
  BY <1>1, <1>2, <1>3, <1>7, <1>8 DEF net

-----------------------------------------------------------------------------
(* A sum of some elements, with the amounts of all. *)
LEMMA SumWithin ==
  ASSUME NEW T, NEW S \in SUBSET T
  PROVE  Sum(S) = Total([x \in T |-> x.amount], S)
<1> DEFINE f == [x \in S |-> x.amount]
           g == [x \in T |-> x.amount]
<1>1. \A x \in S : f[x] = g[x]
  OBVIOUS
<1> HIDE DEF f, g
<1>2. Total(f, S) = Total(g, S)
  BY <1>1, TotalSame
<1> QED
  BY <1>2 DEF Sum, f, g

(* A sum of fewer elements is no more. *)
LEMMA SumSubset ==
  ASSUME NEW T \in SUBSET Obligations, NEW S \in SUBSET T
  PROVE  Sum(S) <= Sum(T)
<1> DEFINE g == [x \in T |-> x.amount]
<1>1. IsFiniteSet(T) /\ \A x \in T : g[x] \in Nat
  BY BatchFacts
<1>2. Sum(S) = Total(g, S) /\ Sum(T) = Total(g, T)
  BY SumWithin
<1> HIDE DEF g
<1> QED
  BY <1>1, <1>2, TotalSubset

(* Every obligation is owed by one party to one party. *)
LEMMA PartiesAddUp ==
  ASSUME NEW batch \in SUBSET Obligations
  PROVE  /\ Total([p \in Parties |-> Owed(batch, p)], Parties) = Sum(batch)
         /\ Total([p \in Parties |-> Owing(batch, p)], Parties) = Sum(batch)
<1> DEFINE f == [o \in batch |-> o.amount]
<1>1. IsFiniteSet(batch)
  BY BatchFacts
<1>2. Total([p \in Parties |-> Owed(batch, p)], Parties) = Total(f, batch)
  <2> DEFINE g == [p \in Parties |-> Owed(batch, p)]
             k == [o \in batch |-> o.destination]
             S == batch
  <2>1. \A o \in S : f[o] \in Nat /\ k[o] \in Parties
    BY BatchFacts
  <2>2. ASSUME NEW p \in Parties PROVE g[p] = Total(f, Keyed(k, S, p))
    <3>1. Keyed(k, batch, p) = {o \in batch : o.destination = p}
      BY DEF Keyed
    <3>2. {o \in batch : o.destination = p} \in SUBSET batch
      OBVIOUS
    <3> QED
      BY <3>1, <3>2, SumWithin DEF Owed
  <2>3. IsFiniteSet(S)
    BY <1>1
  <2> HIDE DEF f, g, k, S
  <2>4. Total(g, Parties) = Total(f, S)
    BY <2>1, <2>2, <2>3, TotalPartition
  <2> QED
    BY <2>4 DEF g, S
<1>3. Total([p \in Parties |-> Owing(batch, p)], Parties) = Total(f, batch)
  <2> DEFINE g == [p \in Parties |-> Owing(batch, p)]
             k == [o \in batch |-> o.source]
             S == batch
  <2>1. \A o \in S : f[o] \in Nat /\ k[o] \in Parties
    BY BatchFacts
  <2>2. ASSUME NEW p \in Parties PROVE g[p] = Total(f, Keyed(k, S, p))
    <3>1. Keyed(k, batch, p) = {o \in batch : o.source = p}
      BY DEF Keyed
    <3>2. {o \in batch : o.source = p} \in SUBSET batch
      OBVIOUS
    <3> QED
      BY <3>1, <3>2, SumWithin DEF Owing
  <2>3. IsFiniteSet(S)
    BY <1>1
  <2> HIDE DEF f, g, k, S
  <2>4. Total(g, Parties) = Total(f, S)
    BY <2>1, <2>2, <2>3, TotalPartition
  <2> QED
    BY <2>4 DEF g, S
<1> QED
  BY <1>2, <1>3 DEF Sum

(* The debts and the credits of all parties, 0 for those who have none. *)
DebtOf(batch, p) == IF NetBalance(batch, p) < 0 THEN -NetBalance(batch, p) ELSE 0
CreditOf(batch, p) == IF NetBalance(batch, p) > 0 THEN NetBalance(batch, p) ELSE 0

(* The debts of all parties, and the credits, are the totals of either side. *)
LEMMA SideTotals ==
  ASSUME NEW batch \in SUBSET Obligations
  PROVE  /\ \A p \in Parties : DebtOf(batch, p) \in Nat /\ CreditOf(batch, p) \in Nat
         /\ Total(Debts(batch), DOMAIN Debts(batch)) =
              Total([p \in Parties |-> DebtOf(batch, p)], Parties)
         /\ Total(Credits(batch), DOMAIN Credits(batch)) =
              Total([p \in Parties |-> CreditOf(batch, p)], Parties)
<1> DEFINE f == [p \in Parties |-> DebtOf(batch, p)]
           g == [p \in Parties |-> CreditOf(batch, p)]
           D == DOMAIN Debts(batch)
           C == DOMAIN Credits(batch)
<1>1. \A p \in Parties : DebtOf(batch, p) \in Nat /\ CreditOf(batch, p) \in Nat
  <2> SUFFICES ASSUME NEW p \in Parties
               PROVE  DebtOf(batch, p) \in Nat /\ CreditOf(batch, p) \in Nat
    OBVIOUS
  <2>1. NetBalance(batch, p) \in Int
    BY SidesFacts
  <2> QED
    BY <2>1 DEF DebtOf, CreditOf
<1>2. /\ D \in SUBSET Parties /\ \A p \in Parties \ D : f[p] = 0
      /\ \A p \in D : f[p] = Debts(batch)[p]
      /\ \A p \in Parties : f[p] \in Nat
  BY <1>1, SidesFacts DEF DebtOf
<1>3. /\ C \in SUBSET Parties /\ \A p \in Parties \ C : g[p] = 0
      /\ \A p \in C : g[p] = Credits(batch)[p]
      /\ \A p \in Parties : g[p] \in Nat
  BY <1>1, SidesFacts DEF CreditOf
<1> HIDE DEF f, g, D, C
<1>4. Total(f, Parties) = Total(f, D) /\ Total(f, D) = Total(Debts(batch), D)
  BY <1>2, TotalPositive, TotalSame
<1>5. Total(g, Parties) = Total(g, C) /\ Total(g, C) = Total(Credits(batch), C)
  BY <1>3, TotalPositive, TotalSame
<1> QED
  BY <1>1, <1>4, <1>5 DEF f, g, D, C

(* Without obligations to oneself, the debts cover the credits. *)
LEMMA SidesAreEqual ==
  ASSUME NEW batch \in SUBSET Obligations, \A o \in batch : o.source # o.destination
  PROVE  /\ \A p \in Parties : NetBalance(batch, p) = Owed(batch, p) - Owing(batch, p)
         /\ Total(Debts(batch), DOMAIN Debts(batch)) =
              Total(Credits(batch), DOMAIN Credits(batch))
<1> DEFINE owed == [p \in Parties |-> Owed(batch, p)]
           owing == [p \in Parties |-> Owing(batch, p)]
           debt == [p \in Parties |-> DebtOf(batch, p)]
           credit == [p \in Parties |-> CreditOf(batch, p)]
           both == [p \in Parties |-> owed[p] + debt[p]]
<1>1. ASSUME NEW p \in Parties
      PROVE  /\ NetBalance(batch, p) = Owed(batch, p) - Owing(batch, p)
             /\ Owed(batch, p) \in Nat /\ Owing(batch, p) \in Nat
  <2>1. {o \in {x \in batch : x.destination # p} : o.source = p} = {o \in batch : o.source = p}
    OBVIOUS
  <2>2. Owing({x \in batch : x.destination # p}, p) = Owing(batch, p)
    BY <2>1 DEF Owing
  <2> QED
    BY <2>2, BatchFacts DEF NetBalance
<1>2. \A p \in Parties : /\ owed[p] \in Nat /\ owing[p] \in Nat /\ debt[p] \in Nat /\ credit[p] \in Nat
                         /\ both[p] = owed[p] + debt[p] /\ both[p] = owing[p] + credit[p]
  <2> SUFFICES ASSUME NEW p \in Parties
               PROVE  /\ owed[p] \in Nat /\ owing[p] \in Nat /\ debt[p] \in Nat /\ credit[p] \in Nat
                      /\ both[p] = owed[p] + debt[p] /\ both[p] = owing[p] + credit[p]
    OBVIOUS
  <2> DEFINE b == NetBalance(batch, p)
             x == Owed(batch, p)
             y == Owing(batch, p)
  <2>1. b = x - y /\ x \in Nat /\ y \in Nat
    BY <1>1
  <2>2. /\ owed[p] = x /\ owing[p] = y /\ both[p] = owed[p] + debt[p]
        /\ debt[p] = (IF b < 0 THEN -b ELSE 0) /\ credit[p] = (IF b > 0 THEN b ELSE 0)
    BY DEF DebtOf, CreditOf
  <2> HIDE DEF b, x, y, owed, owing, debt, credit, both
  <2> QED
    BY <2>1, <2>2
<1>3. Total(owed, Parties) = Sum(batch) /\ Total(owing, Parties) = Sum(batch)
  BY PartiesAddUp
<1>4. /\ Total(Debts(batch), DOMAIN Debts(batch)) = Total(debt, Parties)
      /\ Total(Credits(batch), DOMAIN Credits(batch)) = Total(credit, Parties)
  BY SideTotals
<1>5. IsFiniteSet(Parties) /\ Sum(batch) \in Nat
  BY ClearingAssumption, BatchFacts
<1> HIDE DEF owed, owing, debt, credit, both
<1>6. Total(both, Parties) = Total(owed, Parties) + Total(debt, Parties)
  BY <1>2, <1>5, TotalPlus
<1>7. Total(both, Parties) = Total(owing, Parties) + Total(credit, Parties)
  BY <1>2, <1>5, TotalPlus
<1>8. Total(debt, Parties) \in Nat /\ Total(credit, Parties) \in Nat
  BY <1>2, <1>5, TotalType
<1>9. Total(debt, Parties) = Total(credit, Parties)
  BY <1>3, <1>5, <1>6, <1>7, <1>8
<1> QED
  BY <1>1, <1>4, <1>9

(* Debts are never more than the volume of the batch. *)
LEMMA DebtsAreBounded ==
  ASSUME NEW batch \in SUBSET Obligations
  PROVE  Total(Debts(batch), DOMAIN Debts(batch)) <= Sum(batch)
<1> DEFINE owing == [p \in Parties |-> Owing(batch, p)]
           debt == [p \in Parties |-> DebtOf(batch, p)]
<1>1. \A p \in Parties : debt[p] \in Nat /\ owing[p] \in Nat /\ debt[p] <= owing[p]
  <2> SUFFICES ASSUME NEW p \in Parties
               PROVE  debt[p] \in Nat /\ owing[p] \in Nat /\ debt[p] <= owing[p]
    OBVIOUS
  <2> DEFINE most == {o \in batch : o.source = p}
             some == {o \in {x \in batch : x.destination # p} : o.source = p}
             b == NetBalance(batch, p)
             x == Owed(batch, p)
             y == Owing({z \in batch : z.destination # p}, p)
  <2>1. most \in SUBSET Obligations /\ some \in SUBSET most
    OBVIOUS
  <2>2. Sum(some) <= Sum(most)
    BY <2>1, SumSubset
  <2>3. y <= owing[p]
    BY <2>2 DEF Owing
  <2>4. x \in Nat /\ y \in Nat /\ owing[p] \in Nat /\ b = x - y
    BY BatchFacts DEF NetBalance
  <2>5. debt[p] = IF b < 0 THEN -b ELSE 0
    BY DEF DebtOf
  <2> HIDE DEF b, x, y, owing, debt
  <2> QED
    BY <2>3, <2>4, <2>5
<1>2. IsFiniteSet(Parties)
  BY ClearingAssumption
<1>3. Total(owing, Parties) = Sum(batch)
  BY PartiesAddUp
<1>4. Total(Debts(batch), DOMAIN Debts(batch)) = Total(debt, Parties)
  BY SideTotals
<1> HIDE DEF owing, debt
<1>5. Total(debt, Parties) <= Total(owing, Parties)
  BY <1>1, <1>2, TotalMonotone
<1> QED
  BY <1>3, <1>4, <1>5

(* Netting leaves every party with the position that its batch gave it,     *)
(* unless somebody owed to itself.                                          *)
LEMMA NettingPreserves ==
  ASSUME NEW batch \in SUBSET Obligations, \A o \in batch : o.source # o.destination,
         NEW rank \in Rankings, NEW p \in Parties
  PROVE  Owed(batch, p) + Owing(NetObligations(batch, rank), p) =
           Owing(batch, p) + Owed(NetObligations(batch, rank), p)
<1> DEFINE net == NetObligations(batch, rank)
           b == NetBalance(batch, p)
           x == Owed(batch, p)
           y == Owing(batch, p)
<1>1. b = x - y /\ x \in Nat /\ y \in Nat
  BY SidesAreEqual, BatchFacts
<1>2. Owing(net, p) = IF b < 0 THEN -b ELSE 0
  <2>1. CASE b < 0
    <3>1. p \in DOMAIN Debts(batch) /\ Debts(batch)[p] = -b
      BY <2>1, SidesFacts
    <3>2. Owing(net, p) = Debts(batch)[p]
      BY <3>1, SidesAreEqual, DebtorsPay
    <3> QED
      BY <2>1, <3>1, <3>2
  <2>2. CASE ~(b < 0)
    <3>1. {n \in net : n.source = p} = {}
      BY <2>2, NetFacts, SidesFacts
    <3>2. Sum({}) = 0
      BY TotalEmpty DEF Sum
    <3> HIDE DEF net, b
    <3> QED
      BY <2>2, <3>1, <3>2 DEF Owing
  <2> QED
    BY <2>1, <2>2
<1>3. Owed(net, p) = IF b > 0 THEN b ELSE 0
  <2>1. CASE b > 0
    <3>1. p \in DOMAIN Credits(batch) /\ Credits(batch)[p] = b
      BY <2>1, SidesFacts
    <3>2. Owed(net, p) = Credits(batch)[p]
      BY <3>1, SidesAreEqual, CreditorsArePaid
    <3> QED
      BY <2>1, <3>1, <3>2
  <2>2. CASE ~(b > 0)
    <3>1. {n \in net : n.destination = p} = {}
      BY <2>2, NetFacts, SidesFacts
    <3>2. Sum({}) = 0
      BY TotalEmpty DEF Sum
    <3> HIDE DEF net, b
    <3> QED
      BY <2>2, <3>1, <3>2 DEF Owed
  <2> QED
    BY <2>1, <2>2
<1> HIDE DEF net, b, x, y
<1>4. x + Owing(net, p) = y + Owed(net, p)
  BY <1>1, <1>2, <1>3
<1> QED
  BY <1>4 DEF net, x, y

-----------------------------------------------------------------------------
(* The party of a payment that has nothing left after it. *)
SettledBy(batch, rank, n) ==
  IF EndOf(Debts(batch), rank, n.source) <= EndOf(Credits(batch), rank, n.destination)
  THEN n.source ELSE n.destination

(* Where the spans of a payment end: the earlier end is in the other span. *)
LEMMA PaymentFacts ==
  ASSUME NEW batch \in SUBSET Obligations, NEW rank \in Rankings,
         NEW n \in NetObligations(batch, rank)
  PROVE  LET d == EndOf(Debts(batch), rank, n.source)
             c == EndOf(Credits(batch), rank, n.destination)
         IN  /\ n.source \in DOMAIN Debts(batch) /\ n.destination \in DOMAIN Credits(batch)
             /\ d \in Nat \ {0} /\ d <= Total(Debts(batch), DOMAIN Debts(batch))
             /\ c \in Nat \ {0} /\ c <= Total(Credits(batch), DOMAIN Credits(batch))
             /\ d <= c => d \in Span(Credits(batch), rank, n.destination)
             /\ c < d => c \in Span(Debts(batch), rank, n.source)
<1> DEFINE d == EndOf(Debts(batch), rank, n.source)
           c == EndOf(Credits(batch), rank, n.destination)
           a == StartOf(Debts(batch), rank, n.source)
           b == StartOf(Credits(batch), rank, n.destination)
<1>1. n.source \in DOMAIN Debts(batch) /\ n.destination \in DOMAIN Credits(batch)
  BY NetFacts
<1>2. /\ a \in Nat /\ d \in Nat \ {0} /\ d <= Total(Debts(batch), DOMAIN Debts(batch))
      /\ Span(Debts(batch), rank, n.source) = (a + 1) .. d
  BY <1>1, SidesFacts, SpanFacts
<1>3. /\ b \in Nat /\ c \in Nat \ {0} /\ c <= Total(Credits(batch), DOMAIN Credits(batch))
      /\ Span(Credits(batch), rank, n.destination) = (b + 1) .. c
  BY <1>1, SidesFacts, SpanFacts
<1>4. PICK u : /\ u \in Span(Debts(batch), rank, n.source)
               /\ u \in Span(Credits(batch), rank, n.destination)
  <2>1. Shared(batch, rank, n.source, n.destination) # {}
    BY NetFacts
  <2> QED
    BY <2>1 DEF Shared
<1> HIDE DEF a, b, c, d
<1>5. u \in (a + 1) .. d /\ u \in (b + 1) .. c
  BY <1>2, <1>3, <1>4
<1>6. d <= c => d \in (b + 1) .. c
  BY <1>2, <1>3, <1>5
<1>7. c < d => c \in (a + 1) .. d
  BY <1>2, <1>3, <1>5
<1> QED
  BY <1>1, <1>2, <1>3, <1>6, <1>7 DEF c, d

(* No two payments leave the same party with nothing left. *)
LEMMA SettledOnceOnly ==
  ASSUME NEW batch \in SUBSET Obligations, NEW rank \in Rankings,
         NEW m \in NetObligations(batch, rank), NEW n \in NetObligations(batch, rank),
         SettledBy(batch, rank, m) = SettledBy(batch, rank, n)
  PROVE  m = n
<1> DEFINE d(x) == EndOf(Debts(batch), rank, x.source)
           c(x) == EndOf(Credits(batch), rank, x.destination)
<1>1. ASSUME NEW x \in {m, n}
      PROVE  /\ x.source \in DOMAIN Debts(batch) /\ x.destination \in DOMAIN Credits(batch)
             /\ d(x) \in Nat /\ c(x) \in Nat
             /\ d(x) <= c(x) => d(x) \in Span(Credits(batch), rank, x.destination)
             /\ c(x) < d(x) => c(x) \in Span(Debts(batch), rank, x.source)
             /\ d(x) <= c(x) => SettledBy(batch, rank, x) = x.source
             /\ ~(d(x) <= c(x)) => SettledBy(batch, rank, x) = x.destination
             /\ d(x) <= c(x) \/ c(x) < d(x)
  <2>1. x \in NetObligations(batch, rank)
    OBVIOUS
  <2>2. /\ x.source \in DOMAIN Debts(batch) /\ x.destination \in DOMAIN Credits(batch)
        /\ d(x) \in Nat /\ c(x) \in Nat
        /\ d(x) <= c(x) => d(x) \in Span(Credits(batch), rank, x.destination)
        /\ c(x) < d(x) => c(x) \in Span(Debts(batch), rank, x.source)
    BY <2>1, PaymentFacts
  <2>3. /\ d(x) <= c(x) => SettledBy(batch, rank, x) = x.source
        /\ ~(d(x) <= c(x)) => SettledBy(batch, rank, x) = x.destination
    BY DEF SettledBy
  <2>4. d(x) <= c(x) \/ c(x) < d(x)
    BY <2>2
  <2> QED
    BY <2>2, <2>3, <2>4
<1>2. DOMAIN Debts(batch) \cap DOMAIN Credits(batch) = {}
  BY SidesFacts
<1>3. CASE d(m) <= c(m)
  <2>1. SettledBy(batch, rank, n) = m.source /\ m.source \notin DOMAIN Credits(batch)
    BY <1>1, <1>2, <1>3
  <2>2. d(n) <= c(n) /\ n.source = m.source
    BY <1>1, <2>1
  <2>3. /\ d(m) \in Span(Credits(batch), rank, m.destination)
        /\ d(m) \in Span(Credits(batch), rank, n.destination)
    BY <1>1, <1>3, <2>2
  <2>4. m.destination = n.destination
    BY <1>1, <2>3, SpansApart, SidesFacts
  <2> QED
    BY <2>2, <2>4, NetFacts
<1>4. CASE ~(d(m) <= c(m))
  <2>1. SettledBy(batch, rank, n) = m.destination /\ m.destination \notin DOMAIN Debts(batch)
    BY <1>1, <1>2, <1>4
  <2>2. ~(d(n) <= c(n)) /\ n.destination = m.destination
    BY <1>1, <2>1
  <2>3. /\ c(m) \in Span(Debts(batch), rank, m.source)
        /\ c(m) \in Span(Debts(batch), rank, n.source)
    BY <1>1, <1>4, <2>2
  <2>4. m.source = n.source
    BY <1>1, <2>3, SpansApart, SidesFacts
  <2> QED
    BY <2>2, <2>4, NetFacts
<1> QED
  BY <1>3, <1>4

(* One party of the payment of the last unit is left by none of them. *)
LEMMA OneIsLeft ==
  ASSUME NEW batch \in SUBSET Obligations, NEW rank \in Rankings,
         NetObligations(batch, rank) # {}
  PROVE  \E n \in NetObligations(batch, rank) : \E z \in {n.source, n.destination} :
           \A m \in NetObligations(batch, rank) : SettledBy(batch, rank, m) # z
<1> DEFINE net == NetObligations(batch, rank)
           d(x) == EndOf(Debts(batch), rank, x.source)
           c(x) == EndOf(Credits(batch), rank, x.destination)
           all == Total(Debts(batch), DOMAIN Debts(batch))
           any == Total(Credits(batch), DOMAIN Credits(batch))
           last == IF all <= any THEN all ELSE any
<1>1. ASSUME NEW x \in net
      PROVE  /\ x.source \in DOMAIN Debts(batch) /\ x.destination \in DOMAIN Credits(batch)
             /\ d(x) \in Nat \ {0} /\ d(x) <= all
             /\ c(x) \in Nat \ {0} /\ c(x) <= any
             /\ c(x) < d(x) => c(x) \in Span(Debts(batch), rank, x.source)
             /\ d(x) <= c(x) => SettledBy(batch, rank, x) = x.source
             /\ ~(d(x) <= c(x)) => SettledBy(batch, rank, x) = x.destination
  <2>1. /\ x.source \in DOMAIN Debts(batch) /\ x.destination \in DOMAIN Credits(batch)
        /\ d(x) \in Nat \ {0} /\ d(x) <= all
        /\ c(x) \in Nat \ {0} /\ c(x) <= any
        /\ c(x) < d(x) => c(x) \in Span(Debts(batch), rank, x.source)
    BY PaymentFacts
  <2>2. /\ d(x) <= c(x) => SettledBy(batch, rank, x) = x.source
        /\ ~(d(x) <= c(x)) => SettledBy(batch, rank, x) = x.destination
    BY DEF SettledBy
  <2> QED
    BY <2>1, <2>2
<1>2. all \in Nat /\ any \in Nat
  BY SidesFacts, SpanFacts
<1>3. PICK x \in net : TRUE
  OBVIOUS
<1>4. last \in 1 .. all /\ last \in 1 .. any /\ (last = all \/ last = any)
  <2>1. d(x) \in Nat \ {0} /\ d(x) <= all /\ c(x) \in Nat \ {0} /\ c(x) <= any
    BY <1>1
  <2> HIDE DEF all, any, c, d
  <2> QED
    BY <1>2, <2>1
<1> HIDE DEF last
<1>5. PICK p \in DOMAIN Debts(batch) : last \in Span(Debts(batch), rank, p)
  BY <1>4, SidesFacts, SpansCover
<1>6. PICK q \in DOMAIN Credits(batch) : last \in Span(Credits(batch), rank, q)
  BY <1>4, SidesFacts, SpansCover
<1>7. PICK n \in net : n.source = p /\ n.destination = q
  <2>1. Shared(batch, rank, p, q) # {}
    BY <1>5, <1>6 DEF Shared
  <2> QED
    BY <2>1, NetFacts
<1>8. last <= d(n) /\ last <= c(n)
  <2>1. /\ StartOf(Debts(batch), rank, p) \in Nat
        /\ Span(Debts(batch), rank, p) = (StartOf(Debts(batch), rank, p) + 1) .. d(n)
    BY <1>7, SidesFacts, SpanFacts
  <2>2. /\ StartOf(Credits(batch), rank, q) \in Nat
        /\ Span(Credits(batch), rank, q) = (StartOf(Credits(batch), rank, q) + 1) .. c(n)
    BY <1>7, SidesFacts, SpanFacts
  <2>3. d(n) \in Nat /\ c(n) \in Nat
    BY <1>1
  <2> HIDE DEF c, d
  <2> QED
    BY <1>5, <1>6, <2>1, <2>2, <2>3
<1>9. DOMAIN Debts(batch) \cap DOMAIN Credits(batch) = {}
  BY SidesFacts
<1>10. CASE d(n) <= c(n)
  <2>1. ASSUME NEW m \in net, SettledBy(batch, rank, m) = q PROVE FALSE
    <3>1. ~(d(m) <= c(m)) /\ m.destination = q
      BY <1>1, <1>9, <2>1
    <3>2. c(m) = c(n)
      BY <1>7, <3>1
    <3>3. /\ d(m) \in Nat /\ d(m) <= all /\ c(m) \in Nat /\ c(m) <= any /\ d(n) \in Nat
          /\ (c(m) < d(m) => c(m) \in Span(Debts(batch), rank, m.source))
          /\ m.source \in DOMAIN Debts(batch)
      BY <1>1
    <3>4. c(m) = last /\ c(m) < d(m)
      <4> HIDE DEF c, d, all, any
      <4> QED
        BY <1>2, <1>4, <1>8, <3>1, <3>2, <3>3
    <3>5. m.source = p
      BY <1>5, <3>3, <3>4, SpansApart, SidesFacts
    <3>6. d(m) = d(n)
      BY <1>7, <3>5
    <3> HIDE DEF c, d
    <3> QED
      BY <1>10, <3>2, <3>3, <3>4, <3>6
  <2> QED
    BY <1>7, <2>1
<1>11. CASE ~(d(n) <= c(n))
  <2>1. ASSUME NEW m \in net, SettledBy(batch, rank, m) = p PROVE FALSE
    <3>1. d(m) <= c(m) /\ m.source = p
      BY <1>1, <1>9, <2>1
    <3>2. d(m) = d(n)
      BY <1>7, <3>1
    <3>3. /\ d(m) \in Nat /\ d(m) <= all /\ c(m) \in Nat /\ c(m) <= any /\ c(n) \in Nat
      BY <1>1
    <3> HIDE DEF c, d, all, any
    <3> QED
      BY <1>2, <1>4, <1>8, <1>11, <3>1, <3>2, <3>3
  <2> QED
    BY <1>7, <2>1
<1> QED
  BY <1>10, <1>11

(* After netting nobody both pays and is paid, and there are fewer payments *)
(* than parties to them: every payment leaves another party with nothing.   *)
LEMMA FewerPayments ==
  ASSUME NEW batch \in SUBSET Obligations, NEW rank \in Rankings
  PROVE  LET net == NetObligations(batch, rank)
             payers == {n.source : n \in net}
             payees == {n.destination : n \in net}
         IN  /\ payers \cap payees = {}
             /\ net = {} \/ Cardinality(net) < Cardinality(payers \cup payees)
<1> DEFINE net == NetObligations(batch, rank)
           payers == {n.source : n \in net}
           payees == {n.destination : n \in net}
           parts == payers \cup payees
           f == [n \in net |-> SettledBy(batch, rank, n)]
<1>1. payers \subseteq DOMAIN Debts(batch) /\ payees \subseteq DOMAIN Credits(batch)
  BY NetFacts
<1>2. payers \cap payees = {}
  BY <1>1, SidesFacts
<1>3. IsFiniteSet(parts)
  <2>1. parts \in SUBSET Parties
    BY <1>1, SidesFacts DEF IsSide
  <2> HIDE DEF parts
  <2> QED
    BY <2>1, ClearingAssumption, FS_Subset
<1>4. ASSUME net # {}
      PROVE  Cardinality(net) < Cardinality(parts)
  <2>1. PICK x \in net : \E z \in {x.source, x.destination} :
          \A m \in net : SettledBy(batch, rank, m) # z
    BY <1>4, OneIsLeft
  <2>2. PICK z \in parts : \A m \in net : SettledBy(batch, rank, m) # z
    BY <2>1
  <2>3. f \in [net -> parts \ {z}]
    BY <2>2 DEF SettledBy
  <2>4. \A m, n \in net : f[m] = f[n] => m = n
    BY SettledOnceOnly
  <2>5. f \in Injection(net, parts \ {z})
    BY <2>3, <2>4 DEF Injection, IsInjective
  <2> HIDE DEF net, parts, f
  <2>6. /\ IsFiniteSet(parts \ {z}) /\ Cardinality(parts \ {z}) = Cardinality(parts) - 1
        /\ Cardinality(parts) \in Nat
    BY <1>3, <2>2, FS_RemoveElement, FS_CardinalityType
  <2>7. Cardinality(net) <= Cardinality(parts \ {z}) /\ IsFiniteSet(net)
    BY <2>5, <2>6, FS_Injection
  <2>8. Cardinality(net) \in Nat
    BY <2>7, FS_CardinalityType
  <2> QED
    BY <2>6, <2>7, <2>8
<1> QED
  BY <1>2, <1>4

-----------------------------------------------------------------------------
(* What is in the house has been taken in, and the net obligations of a     *)
(* cycle are those of its batch.                                            *)
CyclesNet ==
  /\ unnetted \subseteq ingested /\ validating \cap ingested = {}
  /\ \A c \in Cycles :
       /\ cycle[c].state = "new" => cycle[c].batch = {}
       /\ cycle[c].state \in {"new", "started"} => cycle[c].net = {}
       /\ cycle[c].state \in {"netted", "done"} =>
            \E rank \in Rankings : cycle[c].net = NetObligations(cycle[c].batch, rank)

(* Whatever obligations are looked at, those taken in are in the list or in *)
(* one batch.                                                               *)
BatchOf(c, Q) == Sum(cycle[c].batch \cap Q)

NothingIsLost ==
  \A Q \in SUBSET Obligations :
    Sum(ingested \cap Q) = Sum(unnetted \cap Q) + Total([c \in Cycles |-> BatchOf(c, Q)], Cycles)

(* The report has the volume of what was taken in, and of what was netted.  *)
NetOf(c) == Sum(cycle[c].net)

VolumesAddUp ==
  /\ volume.gross = Sum(ingested)
  /\ volume.net = Total([c \in Cycles |-> NetOf(c)], CyclesIn({"done"}))

(* The items carry what the cycles produced that were compressed.           *)
ItemsTo(p) == Total([i \in items |-> i.netAmount], {i \in items : i.destination = p})
ItemsFrom(p) == Total([i \in items |-> i.netAmount], {i \in items : i.source = p})

ItemsCarry ==
  /\ compressed \subseteq CyclesIn({"done"}) /\ IsFiniteSet(items)
  /\ \A i \in items : i.from \subseteq compressed /\ i.from # {}
  /\ \A p \in Parties :
       /\ ItemsTo(p) = Total([c \in Cycles |-> Owed(cycle[c].net, p)], compressed)
       /\ ItemsFrom(p) = Total([c \in Cycles |-> Owing(cycle[c].net, p)], compressed)

(* An item is reserved once, and only against a limit that is set.          *)
ReservationsFit ==
  /\ IsFiniteSet(reservation)
  /\ \A r, s \in reservation : r.item = s.item => r = s
  /\ \A r \in reservation : r.counted => limit[r.item.destination] # NoLimit

ClearingInv ==
  /\ ClearingTypeOK /\ CyclesNet /\ NothingIsLost /\ VolumesAddUp /\ ItemsCarry
  /\ ReservationsFit /\ LimitKept

-----------------------------------------------------------------------------
(* The net obligations of a cycle are finite, and so is what they are worth. *)
LEMMA NetsAreFinite ==
  ASSUME ClearingTypeOK, CyclesNet, NEW c \in Cycles
  PROVE  /\ IsFiniteSet(cycle[c].net) /\ \A n \in cycle[c].net : n \in NetObligation
         /\ NetOf(c) \in Nat /\ NetOf(c) <= Sum(cycle[c].batch)
         /\ cycle[c].batch \in SUBSET Obligations
         /\ \A p : Owed(cycle[c].net, p) \in Nat /\ Owing(cycle[c].net, p) \in Nat
<1> DEFINE net == cycle[c].net
           batch == cycle[c].batch
<1>1. /\ cycle[c].state \in {"new", "started", "netted", "done"}
      /\ batch \in SUBSET Obligations /\ net \in SUBSET NetObligation
  BY DEF ClearingTypeOK
<1>2. IsFiniteSet(net) /\ Sum(net) <= Sum(batch)
  <2>1. CASE cycle[c].state \in {"new", "started"}
    <3>1. net = {}
      BY <2>1 DEF CyclesNet
    <3>2. Sum({}) = 0
      BY TotalEmpty DEF Sum
    <3>3. Sum(batch) \in Nat
      BY <1>1, BatchFacts
    <3> HIDE DEF net, batch
    <3> QED
      BY <3>1, <3>2, <3>3, FS_EmptySet
  <2>2. CASE cycle[c].state \in {"netted", "done"}
    <3>1. PICK rank \in Rankings : net = NetObligations(batch, rank)
      BY <2>2 DEF CyclesNet
    <3> HIDE DEF net, batch
    <3>2. IsFiniteSet(net)
      BY <1>1, <3>1, NetFacts
    <3>3. Sum(net) <= Total(Debts(batch), DOMAIN Debts(batch))
      BY <1>1, <3>1, NetIsBounded
    <3>4. Total(Debts(batch), DOMAIN Debts(batch)) <= Sum(batch)
      BY <1>1, DebtsAreBounded
    <3>5. /\ Total(Debts(batch), DOMAIN Debts(batch)) \in Nat /\ Sum(batch) \in Nat
      BY <1>1, SidesFacts, SpanFacts, BatchFacts
    <3>6. Sum(net) \in Nat
      BY <1>1, <3>2, SumType DEF NetObligation
    <3> QED
      BY <3>2, <3>3, <3>4, <3>5, <3>6
  <2> QED
    BY <1>1, <2>1, <2>2
<1>3. \A T \in SUBSET net : Sum(T) \in Nat
  <2> SUFFICES ASSUME NEW T \in SUBSET net PROVE Sum(T) \in Nat
    OBVIOUS
  <2>1. \A n \in T : n.amount \in Nat
    BY <1>1 DEF NetObligation
  <2> HIDE DEF net
  <2>2. IsFiniteSet(T)
    BY <1>2, FS_Subset
  <2> QED
    BY <2>1, <2>2, SumType
<1>4. ASSUME NEW p PROVE Owed(net, p) \in Nat /\ Owing(net, p) \in Nat
  BY <1>3 DEF Owed, Owing
<1> QED
  BY <1>1, <1>2, <1>3, <1>4 DEF NetOf

(* One more obligation. *)
LEMMA SumAdd ==
  ASSUME NEW S \in SUBSET Obligations, NEW o \in Obligations, o \notin S
  PROVE  Sum(S \cup {o}) = Sum(S) + o.amount
<1> DEFINE T == S \cup {o}
           f == [x \in T |-> x.amount]
<1>1. T \in SUBSET Obligations /\ S \in SUBSET T /\ T \in SUBSET T /\ T = S \cup {o}
  OBVIOUS
<1>2. Sum(T) = Total(f, T) /\ Sum(S) = Total(f, S)
  BY <1>1, SumWithin
<1>3. IsFiniteSet(S) /\ \A x \in S \cup {o} : f[x] \in Nat
  BY ClearingAssumption, FS_Subset
<1>4. f[o] = o.amount
  OBVIOUS
<1> HIDE DEF f, T
<1>5. Total(f, S \cup {o}) = Total(f, S) + f[o]
  BY <1>3, TotalAdd
<1> QED
  BY <1>1, <1>2, <1>4, <1>5

(* Sums of what is looked at. *)
LEMMA SumsOf ==
  ASSUME ClearingTypeOK, NEW Q \in SUBSET Obligations
  PROVE  /\ Sum(ingested \cap Q) \in Nat /\ Sum(unnetted \cap Q) \in Nat /\ Sum({} \cap Q) = 0
         /\ \A c \in Cycles : BatchOf(c, Q) \in Nat
         /\ Total([c \in Cycles |-> BatchOf(c, Q)], Cycles) \in Nat
<1>1. \A T \in SUBSET Obligations : Sum(T) \in Nat
  BY BatchFacts
<1>2. /\ ingested \cap Q \in SUBSET Obligations /\ unnetted \cap Q \in SUBSET Obligations
      /\ \A c \in Cycles : cycle[c].batch \cap Q \in SUBSET Obligations
  BY DEF ClearingTypeOK
<1>3. Sum({} \cap Q) = 0
  <2>1. {} \cap Q = {}
    OBVIOUS
  <2> QED
    BY <2>1, TotalEmpty DEF Sum
<1>4. \A c \in Cycles : BatchOf(c, Q) \in Nat
  BY <1>1, <1>2 DEF BatchOf
<1>5. Total([c \in Cycles |-> BatchOf(c, Q)], Cycles) \in Nat
  <2> DEFINE f == [c \in Cycles |-> BatchOf(c, Q)]
  <2>1. \A c \in Cycles : f[c] \in Nat
    BY <1>4
  <2> HIDE DEF f
  <2>2. Total(f, Cycles) \in Nat
    BY <2>1, ClearingAssumption, TotalType
  <2> QED
    BY <2>2 DEF f
<1> QED
  BY <1>1, <1>2, <1>3, <1>4, <1>5

-----------------------------------------------------------------------------
HouseInv == CyclesNet /\ NothingIsLost /\ VolumesAddUp

HouseTypeOK ==
  /\ validating \cup unnetted \cup ingested \subseteq Obligations
  /\ cycle \in [Cycles -> [state : {"new", "started", "netted", "done"},
                          batch : SUBSET Obligations, net : SUBSET NetObligation]]
  /\ volume \in [gross : Nat, net : Nat]

(* An obligation whose event was published joins the list. *)
LEMMA IngestHouse ==
  ASSUME ClearingTypeOK, HouseInv, NEW o \in Obligations, Ingest(o)
  PROVE  HouseTypeOK' /\ HouseInv'
<1>1. /\ o \in validating /\ validating' = validating \ {o}
      /\ unnetted' = unnetted \cup {o} /\ ingested' = ingested \cup {o}
      /\ volume' = [volume EXCEPT !.gross = @ + o.amount] /\ cycle' = cycle
  BY DEF Ingest
<1>2. o.amount \in Nat
  BY ClearingAssumption
<1>3. o \notin ingested /\ o \notin unnetted
  BY <1>1 DEF HouseInv, CyclesNet
<1>4. volume \in [gross : Nat, net : Nat]
  BY DEF ClearingTypeOK
<1>5. /\ volume' \in [gross : Nat, net : Nat]
      /\ volume'.gross = volume.gross + o.amount /\ volume'.net = volume.net
  BY <1>1, <1>2, <1>4
<1>6. HouseTypeOK'
  BY <1>1, <1>5 DEF ClearingTypeOK, HouseTypeOK
<1>7. CyclesNet'
  BY <1>1 DEF HouseInv, CyclesNet
<1>8. ASSUME NEW T \in SUBSET Obligations, o \notin T, NEW Q \in SUBSET Obligations
      PROVE  Sum((T \cup {o}) \cap Q) = Sum(T \cap Q) + IF o \in Q THEN o.amount ELSE 0
  <2>1. CASE o \in Q
    <3>1. (T \cup {o}) \cap Q = (T \cap Q) \cup {o}
      BY <2>1
    <3>2. T \cap Q \in SUBSET Obligations /\ o \notin T \cap Q
      BY <1>8
    <3>3. Sum((T \cap Q) \cup {o}) = Sum(T \cap Q) + o.amount
      BY <3>2, SumAdd
    <3> QED
      BY <2>1, <3>1, <3>3
  <2>2. CASE o \notin Q
    <3>1. (T \cup {o}) \cap Q = T \cap Q
      BY <2>2
    <3>2. Sum(T \cap Q) \in Nat
      BY BatchFacts
    <3> QED
      BY <2>2, <3>1, <3>2
  <2> QED
    BY <2>1, <2>2
<1>9. NothingIsLost'
  <2> SUFFICES ASSUME NEW Q \in SUBSET Obligations
               PROVE  Sum(ingested \cap Q)' =
                        Sum(unnetted \cap Q)' + Total([c \in Cycles |-> BatchOf(c, Q)], Cycles)'
    BY DEF NothingIsLost
  <2> DEFINE more == IF o \in Q THEN o.amount ELSE 0
             a == Sum(ingested \cap Q)
             b == Sum(unnetted \cap Q)
             t == Total([c \in Cycles |-> BatchOf(c, Q)], Cycles)
  <2>1. a = b + t
    BY DEF HouseInv, NothingIsLost
  <2>2. a' = a + more /\ b' = b + more
    BY <1>1, <1>3, <1>8 DEF ClearingTypeOK
  <2>3. t' = t
    BY <1>1 DEF BatchOf
  <2>4. a \in Nat /\ b \in Nat /\ t \in Nat /\ more \in Nat
    BY <1>2, SumsOf
  <2> HIDE DEF more, a, b, t
  <2>5. a' = b' + t'
    BY <2>1, <2>2, <2>3, <2>4
  <2> QED
    BY <2>5 DEF a, b, t
<1>10. VolumesAddUp'
  <2>1. Sum(ingested)' = Sum(ingested) + o.amount
    BY <1>1, <1>3, SumAdd DEF ClearingTypeOK
  <2>2. Total([c \in Cycles |-> NetOf(c)], CyclesIn({"done"}))' =
          Total([c \in Cycles |-> NetOf(c)], CyclesIn({"done"}))
    BY <1>1 DEF NetOf, CyclesIn
  <2> QED
    BY <1>5, <2>1, <2>2 DEF HouseInv, VolumesAddUp
<1> QED
  BY <1>6, <1>7, <1>9, <1>10 DEF HouseInv

(* A cycle takes the whole list. *)
LEMMA TriggerHouse ==
  ASSUME ClearingTypeOK, HouseInv, NEW d \in Cycles, TriggerNettingCycle(d)
  PROVE  HouseTypeOK' /\ HouseInv'
<1>1. /\ cycle[d].state = "new"
      /\ cycle' = [cycle EXCEPT ![d].state = "started", ![d].batch = unnetted]
      /\ unnetted' = {} /\ UNCHANGED <<validating, ingested, volume>>
  BY DEF TriggerNettingCycle
<1>2. cycle \in [Cycles -> [state : {"new", "started", "netted", "done"},
                           batch : SUBSET Obligations, net : SUBSET NetObligation]]
      /\ unnetted \in SUBSET Obligations
  BY DEF ClearingTypeOK
<1>3. /\ cycle'[d].state = "started" /\ cycle'[d].batch = unnetted /\ cycle'[d].net = cycle[d].net
      /\ \A c \in Cycles \ {d} : cycle'[c] = cycle[c]
      /\ cycle' \in [Cycles -> [state : {"new", "started", "netted", "done"},
                               batch : SUBSET Obligations, net : SUBSET NetObligation]]
  BY <1>1, <1>2
<1>4. HouseTypeOK'
  BY <1>1, <1>3 DEF ClearingTypeOK, HouseTypeOK
<1>5. CyclesNet'
  <2>1. ASSUME NEW c \in Cycles
        PROVE  /\ cycle'[c].state = "new" => cycle'[c].batch = {}
               /\ cycle'[c].state \in {"new", "started"} => cycle'[c].net = {}
               /\ cycle'[c].state \in {"netted", "done"} =>
                    \E rank \in Rankings : cycle'[c].net = NetObligations(cycle'[c].batch, rank)
    <3>1. CASE c = d
      BY <1>1, <1>3, <3>1 DEF HouseInv, CyclesNet
    <3>2. CASE c # d
      BY <1>3, <3>2 DEF HouseInv, CyclesNet
    <3> QED
      BY <3>1, <3>2
  <2> QED
    BY <1>1, <2>1 DEF HouseInv, CyclesNet
<1>6. NothingIsLost'
  <2> SUFFICES ASSUME NEW Q \in SUBSET Obligations
               PROVE  Sum(ingested \cap Q)' =
                        Sum(unnetted \cap Q)' + Total([c \in Cycles |-> BatchOf(c, Q)], Cycles)'
    BY DEF NothingIsLost
  <2> DEFINE f == [c \in Cycles |-> BatchOf(c, Q)]
             g == [c \in Cycles |-> BatchOf(c, Q)']
             a == Sum(ingested \cap Q)
             b == Sum(unnetted \cap Q)
  <2>1. a = b + Total(f, Cycles) /\ a \in Nat /\ b \in Nat /\ Total(f, Cycles) \in Nat
    BY SumsOf DEF HouseInv, NothingIsLost
  <2>2. Sum(ingested \cap Q)' = a /\ Sum(unnetted \cap Q)' = 0
    BY <1>1, SumsOf
  <2>3. f[d] = 0 /\ g[d] = b
    <3>1. cycle[d].batch = {}
      BY <1>1 DEF HouseInv, CyclesNet
    <3> QED
      BY <1>3, <3>1, SumsOf DEF BatchOf
  <2>4. \A c \in Cycles \ {d} : g[c] = f[c]
    BY <1>3 DEF BatchOf
  <2>5. \A c \in Cycles : f[c] \in Nat
    BY SumsOf
  <2>6. Total([c \in Cycles |-> BatchOf(c, Q)], Cycles)' = Total(g, Cycles)
    OBVIOUS
  <2> HIDE DEF f, g, a, b
  <2>7. \A c \in Cycles : f[c] \in Nat /\ g[c] \in Nat
    BY <2>1, <2>3, <2>4, <2>5
  <2>8. Total(g, Cycles) = Total(f, Cycles) - f[d] + g[d]
    BY <2>4, <2>7, ClearingAssumption, TotalUpdate
  <2>9. a = 0 + Total(g, Cycles)
    BY <2>1, <2>3, <2>8
  <2> QED
    BY <2>2, <2>6, <2>9
<1>7. VolumesAddUp'
  <2>1. CyclesIn({"done"})' = CyclesIn({"done"})
    BY <1>1, <1>3 DEF CyclesIn
  <2>2. \A c \in Cycles : NetOf(c)' = NetOf(c)
    BY <1>3 DEF NetOf
  <2>3. [c \in Cycles |-> NetOf(c)]' = [c \in Cycles |-> NetOf(c)]
    BY <2>2
  <2> QED
    BY <1>1, <2>1, <2>3 DEF HouseInv, VolumesAddUp
<1> QED
  BY <1>4, <1>5, <1>6, <1>7 DEF HouseInv

(* The batch of a cycle is netted. *)
LEMMA NetHouse ==
  ASSUME ClearingTypeOK, HouseInv, NEW d \in Cycles, Net(d)
  PROVE  HouseTypeOK' /\ HouseInv'
<1>1. /\ cycle[d].state = "started" /\ UNCHANGED <<validating, unnetted, ingested, volume>>
      /\ \E rank \in Rankings :
           cycle' = [cycle EXCEPT ![d].state = "netted",
                                  ![d].net = NetObligations(cycle[d].batch, rank)]
  BY DEF Net
<1>2. PICK rank \in Rankings :
        cycle' = [cycle EXCEPT ![d].state = "netted",
                               ![d].net = NetObligations(cycle[d].batch, rank)]
  BY <1>1
<1> DEFINE net == NetObligations(cycle[d].batch, rank)
<1>3. cycle \in [Cycles -> [state : {"new", "started", "netted", "done"},
                           batch : SUBSET Obligations, net : SUBSET NetObligation]]
  BY DEF ClearingTypeOK
<1>4. net \in SUBSET NetObligation
  <2>1. cycle[d].batch \in SUBSET Obligations
    BY <1>3
  <2> QED
    BY <2>1, NetFacts
<1>5. cycle' = [cycle EXCEPT ![d].state = "netted", ![d].net = net]
  BY <1>2
<1> HIDE DEF net
<1>6. /\ cycle'[d].state = "netted" /\ cycle'[d].batch = cycle[d].batch /\ cycle'[d].net = net
      /\ \A c \in Cycles \ {d} : cycle'[c] = cycle[c]
      /\ cycle' \in [Cycles -> [state : {"new", "started", "netted", "done"},
                               batch : SUBSET Obligations, net : SUBSET NetObligation]]
  BY <1>3, <1>4, <1>5
<1>7. HouseTypeOK'
  BY <1>1, <1>6 DEF ClearingTypeOK, HouseTypeOK
<1>8. CyclesNet'
  <2>1. ASSUME NEW c \in Cycles
        PROVE  /\ cycle'[c].state = "new" => cycle'[c].batch = {}
               /\ cycle'[c].state \in {"new", "started"} => cycle'[c].net = {}
               /\ cycle'[c].state \in {"netted", "done"} =>
                    \E r \in Rankings : cycle'[c].net = NetObligations(cycle'[c].batch, r)
    <3>1. CASE c = d
      <4>1. cycle'[d].net = NetObligations(cycle'[d].batch, rank)
        BY <1>6 DEF net
      <4> QED
        BY <1>6, <3>1, <4>1
    <3>2. CASE c # d
      BY <1>6, <3>2 DEF HouseInv, CyclesNet
    <3> QED
      BY <3>1, <3>2
  <2> QED
    BY <1>1, <2>1 DEF HouseInv, CyclesNet
<1>9. NothingIsLost'
  <2> SUFFICES ASSUME NEW Q \in SUBSET Obligations
               PROVE  Sum(ingested \cap Q)' =
                        Sum(unnetted \cap Q)' + Total([c \in Cycles |-> BatchOf(c, Q)], Cycles)'
    BY DEF NothingIsLost
  <2>1. \A c \in Cycles : cycle'[c].batch = cycle[c].batch
    BY <1>6
  <2>2. \A c \in Cycles : BatchOf(c, Q)' = BatchOf(c, Q)
    BY <2>1 DEF BatchOf
  <2>3. [c \in Cycles |-> BatchOf(c, Q)]' = [c \in Cycles |-> BatchOf(c, Q)]
    BY <2>2
  <2> QED
    BY <1>1, <2>3 DEF HouseInv, NothingIsLost
<1>10. VolumesAddUp'
  <2> DEFINE f == [c \in Cycles |-> NetOf(c)]
             g == [c \in Cycles |-> NetOf(c)']
             done == CyclesIn({"done"})
  <2>1. done' = done /\ d \notin done /\ done \subseteq Cycles
    BY <1>1, <1>6 DEF CyclesIn
  <2>2. \A c \in done : g[c] = f[c]
    BY <1>6, <2>1 DEF NetOf
  <2>3. Total([c \in Cycles |-> NetOf(c)], CyclesIn({"done"}))' = Total(g, done')
    OBVIOUS
  <2> HIDE DEF f, g, done
  <2>4. Total(g, done) = Total(f, done)
    BY <2>2, TotalSame
  <2>5. volume.net = Total(f, done)
    BY DEF f, done, HouseInv, VolumesAddUp
  <2>6. volume'.net = Total([c \in Cycles |-> NetOf(c)], CyclesIn({"done"}))'
    BY <1>1, <2>1, <2>3, <2>4, <2>5
  <2> QED
    BY <1>1, <2>6 DEF HouseInv, VolumesAddUp
<1> QED
  BY <1>7, <1>8, <1>9, <1>10 DEF HouseInv

(* A cycle is done, and the report has its volume. *)
LEMMA FinishHouse ==
  ASSUME ClearingTypeOK, HouseInv, NEW d \in Cycles, Finish(d)
  PROVE  HouseTypeOK' /\ HouseInv'
<1>1. /\ cycle[d].state = "netted" /\ UNCHANGED <<validating, unnetted, ingested>>
      /\ cycle' = [cycle EXCEPT ![d].state = "done"]
      /\ volume' = [volume EXCEPT !.net = @ + NetOf(d)]
  BY DEF Finish, NetOf
<1>2. cycle \in [Cycles -> [state : {"new", "started", "netted", "done"},
                           batch : SUBSET Obligations, net : SUBSET NetObligation]]
      /\ volume \in [gross : Nat, net : Nat]
  BY DEF ClearingTypeOK
<1>3. /\ cycle'[d].state = "done" /\ cycle'[d].batch = cycle[d].batch /\ cycle'[d].net = cycle[d].net
      /\ \A c \in Cycles \ {d} : cycle'[c] = cycle[c]
      /\ cycle' \in [Cycles -> [state : {"new", "started", "netted", "done"},
                               batch : SUBSET Obligations, net : SUBSET NetObligation]]
  BY <1>1, <1>2
<1>4. \A c \in Cycles : cycle'[c].batch = cycle[c].batch /\ cycle'[c].net = cycle[c].net
  BY <1>3
<1>5. NetOf(d) \in Nat
  BY NetsAreFinite DEF HouseInv
<1>6. /\ volume' \in [gross : Nat, net : Nat]
      /\ volume'.gross = volume.gross /\ volume'.net = volume.net + NetOf(d)
  BY <1>1, <1>2, <1>5
<1>7. HouseTypeOK'
  BY <1>1, <1>3, <1>6 DEF ClearingTypeOK, HouseTypeOK
<1>8. CyclesNet'
  <2>1. ASSUME NEW c \in Cycles
        PROVE  /\ cycle'[c].state = "new" => cycle'[c].batch = {}
               /\ cycle'[c].state \in {"new", "started"} => cycle'[c].net = {}
               /\ cycle'[c].state \in {"netted", "done"} =>
                    \E r \in Rankings : cycle'[c].net = NetObligations(cycle'[c].batch, r)
    <3>1. CASE c = d
      BY <1>1, <1>3, <3>1 DEF HouseInv, CyclesNet
    <3>2. CASE c # d
      BY <1>3, <3>2 DEF HouseInv, CyclesNet
    <3> QED
      BY <3>1, <3>2
  <2> QED
    BY <1>1, <2>1 DEF HouseInv, CyclesNet
<1>9. NothingIsLost'
  <2> SUFFICES ASSUME NEW Q \in SUBSET Obligations
               PROVE  Sum(ingested \cap Q)' =
                        Sum(unnetted \cap Q)' + Total([c \in Cycles |-> BatchOf(c, Q)], Cycles)'
    BY DEF NothingIsLost
  <2>1. \A c \in Cycles : BatchOf(c, Q)' = BatchOf(c, Q)
    BY <1>4 DEF BatchOf
  <2>2. [c \in Cycles |-> BatchOf(c, Q)]' = [c \in Cycles |-> BatchOf(c, Q)]
    BY <2>1
  <2> QED
    BY <1>1, <2>2 DEF HouseInv, NothingIsLost
<1>10. VolumesAddUp'
  <2> DEFINE f == [c \in Cycles |-> NetOf(c)]
             done == CyclesIn({"done"})
  <2>1. done' = done \cup {d} /\ d \notin done /\ done \subseteq Cycles
    <3>1. \A c \in Cycles : cycle'[c].state = "done" <=> c = d \/ cycle[c].state = "done"
      BY <1>3
    <3> QED
      BY <1>1, <3>1 DEF CyclesIn
  <2>2. \A c \in Cycles : NetOf(c)' = NetOf(c)
    BY <1>4 DEF NetOf
  <2>3. f' = f
    BY <2>2
  <2>4. /\ \A c \in Cycles : f[c] \in Nat
        /\ f[d] = NetOf(d)
    BY NetsAreFinite DEF HouseInv
  <2>5. volume.net = Total(f, done)
    BY DEF HouseInv, VolumesAddUp
  <2>6. Total([c \in Cycles |-> NetOf(c)], CyclesIn({"done"}))' = Total(f', done')
    OBVIOUS
  <2> HIDE DEF f, done
  <2>7. IsFiniteSet(done) /\ \A c \in done \cup {d} : f[c] \in Nat
    BY <2>1, <2>4, ClearingAssumption, FS_Subset
  <2>8. Total(f, done \cup {d}) = Total(f, done) + f[d]
    BY <2>1, <2>7, TotalAdd
  <2>9. volume'.net = Total([c \in Cycles |-> NetOf(c)], CyclesIn({"done"}))'
    BY <1>6, <2>1, <2>3, <2>4, <2>5, <2>6, <2>8
  <2> QED
    BY <1>1, <1>6, <2>9 DEF HouseInv, VolumesAddUp
<1> QED
  BY <1>7, <1>8, <1>9, <1>10 DEF HouseInv

(* The other actions leave the house alone but for a new ingestion. *)
LEMMA OtherHouse ==
  ASSUME ClearingTypeOK, HouseInv, UNCHANGED <<unnetted, ingested, cycle, volume>>,
         validating' \subseteq Obligations, validating' \cap ingested = {}
  PROVE  HouseTypeOK' /\ HouseInv'
<1>1. HouseTypeOK'
  BY DEF HouseTypeOK, ClearingTypeOK
<1>2. CyclesNet'
  BY DEF HouseInv, CyclesNet
<1>3. NothingIsLost'
  BY DEF HouseInv, NothingIsLost, BatchOf
<1>4. VolumesAddUp'
  BY DEF HouseInv, VolumesAddUp, NetOf, CyclesIn
<1> QED
  BY <1>1, <1>2, <1>3, <1>4 DEF HouseInv

-----------------------------------------------------------------------------
(* The parties of a produced net obligation. *)
PartiesOf(x) == <<x[2].source, x[2].destination>>

(* What the cycles produced. *)
LEMMA ProducedFacts ==
  ASSUME ClearingTypeOK, CyclesNet, NEW from \in SUBSET Cycles
  PROVE  /\ IsFiniteSet(Produced(from))
         /\ \A x \in Produced(from) :
              /\ x = <<x[1], x[2]>> /\ x[1] \in from /\ x[2] \in cycle[x[1]].net
              /\ x[2] \in NetObligation /\ PartiesOf(x) \in Parties \X Parties
         /\ \A c \in from : \A n \in cycle[c].net : <<c, n>> \in Produced(from)
<1> DEFINE sets == {{c} \X cycle[c].net : c \in from}
           g == [c \in from |-> {c} \X cycle[c].net]
<1>1. ASSUME NEW x \in Produced(from)
      PROVE  /\ x = <<x[1], x[2]>> /\ x[1] \in from /\ x[2] \in cycle[x[1]].net
             /\ x[2] \in NetObligation /\ PartiesOf(x) \in Parties \X Parties
  <2>1. x = <<x[1], x[2]>> /\ x[1] \in from /\ x[2] \in cycle[x[1]].net
    BY DEF Produced
  <2>2. x[2] \in NetObligation
    BY <2>1, NetsAreFinite
  <2> QED
    BY <2>1, <2>2 DEF NetObligation, PartiesOf
<1>2. \A c \in from : \A n \in cycle[c].net : <<c, n>> \in Produced(from)
  BY DEF Produced
<1>3. IsFiniteSet(sets)
  <2>1. g \in Surjection(from, sets)
    BY DEF Surjection
  <2>2. IsFiniteSet(from)
    BY ClearingAssumption, FS_Subset
  <2> HIDE DEF g, sets
  <2> QED
    BY <2>1, <2>2, FS_Surjection
<1>4. \A T \in sets : IsFiniteSet(T)
  <2> SUFFICES ASSUME NEW c \in from PROVE IsFiniteSet({c} \X cycle[c].net)
    OBVIOUS
  <2>1. IsFiniteSet({c}) /\ IsFiniteSet(cycle[c].net)
    BY NetsAreFinite, FS_Singleton
  <2> QED
    BY <2>1, FS_Product
<1>5. IsFiniteSet(Produced(from))
  <2>1. Produced(from) = UNION sets
    BY DEF Produced
  <2> HIDE DEF sets
  <2> QED
    BY <1>3, <1>4, <2>1, FS_UNION
<1> QED
  BY <1>1, <1>2, <1>5

(* The item of two parties. *)
Worth(from, w) ==
  Total([x \in Produced(from) |-> x[2].amount], {x \in Produced(from) : PartiesOf(x) = w})
ItemOf(from, w) ==
  [from |-> from, source |-> w[1], destination |-> w[2], netAmount |-> Worth(from, w)]

(* What an item of a compression is. *)
LEMMA CompressFacts ==
  ASSUME ClearingTypeOK, CyclesNet, NEW from \in SUBSET Cycles
  PROVE  /\ Compress(from) \subseteq CompressedItem /\ IsFiniteSet(Compress(from))
         /\ \A i \in Compress(from) :
              /\ i = ItemOf(from, <<i.source, i.destination>>) /\ i.from = from
              /\ i.netAmount = Worth(from, <<i.source, i.destination>>)
              /\ i.netAmount \in Nat
         /\ \A x \in Produced(from) : ItemOf(from, PartiesOf(x)) \in Compress(from)
<1> DEFINE P == Produced(from)
           f == [x \in P |-> x[2].amount]
           item == [x \in P |-> ItemOf(from, PartiesOf(x))]
<1>1. IsFiniteSet(P) /\ \A x \in P : f[x] \in Nat \ {0} /\ PartiesOf(x) \in Parties \X Parties
  BY ProducedFacts DEF NetObligation
<1>2. Compress(from) = {ItemOf(from, w) : w \in {PartiesOf(x) : x \in P}}
  BY DEF Compress, ItemOf, Worth, PartiesOf
<1>3. ASSUME NEW x \in P
      PROVE  Worth(from, PartiesOf(x)) \in Nat \ {0}
  <2> DEFINE S == {y \in P : PartiesOf(y) = PartiesOf(x)}
  <2>1. x \in S /\ S \in SUBSET P /\ \A y \in S : f[y] \in Nat
    BY <1>1
  <2>2. f[x] \in Nat \ {0}
    BY <1>1
  <2>3. Worth(from, PartiesOf(x)) = Total(f, S)
    BY DEF Worth
  <2> HIDE DEF S, P, f
  <2>4. IsFiniteSet(S)
    BY <1>1, <2>1, FS_Subset
  <2>5. f[x] <= Total(f, S) /\ Total(f, S) \in Nat
    BY <2>1, <2>4, TotalElement, TotalType
  <2> QED
    BY <2>2, <2>3, <2>5
<1>4. \A x \in P : ItemOf(from, PartiesOf(x)) \in Compress(from)
  BY <1>2
<1>5. ASSUME NEW i \in Compress(from)
      PROVE  /\ i \in CompressedItem /\ i.from = from
             /\ i = ItemOf(from, <<i.source, i.destination>>)
             /\ i.netAmount = Worth(from, <<i.source, i.destination>>) /\ i.netAmount \in Nat
  <2>1. PICK x \in P : i = ItemOf(from, PartiesOf(x))
    BY <1>2
  <2>2. /\ i.source = PartiesOf(x)[1] /\ i.destination = PartiesOf(x)[2] /\ i.from = from
        /\ i.netAmount = Worth(from, PartiesOf(x))
    BY <2>1 DEF ItemOf
  <2>3. PartiesOf(x) = <<i.source, i.destination>> /\ i.source \in Parties /\ i.destination \in Parties
    BY <1>1, <2>2
  <2>4. i \in CompressedItem
    BY <1>3, <2>1, <2>2, <2>3 DEF ItemOf, CompressedItem
  <2> QED
    BY <1>3, <2>1, <2>2, <2>3, <2>4
<1>6. IsFiniteSet(Compress(from))
  <2>1. item \in Surjection(P, Compress(from))
    BY <1>2 DEF Surjection
  <2> HIDE DEF item, P
  <2> QED
    BY <1>1, <2>1, FS_Surjection
<1> QED
  BY <1>4, <1>5, <1>6

(* The items between some parties carry what the net obligations between    *)
(* them do.                                                                 *)
LEMMA CompressionCarries ==
  ASSUME ClearingTypeOK, CyclesNet, NEW from \in SUBSET Cycles, NEW W
  PROVE  Total([i \in Compress(from) |-> i.netAmount],
               {i \in Compress(from) : <<i.source, i.destination>> \in W}) =
           Total([c \in Cycles |-> Sum({n \in cycle[c].net : <<n.source, n.destination>> \in W})],
                 from)
<1> DEFINE P == Produced(from)
           f == [x \in P |-> x[2].amount]
           S == {x \in P : PartiesOf(x) \in W}
           I == {i \in Compress(from) : <<i.source, i.destination>> \in W}
           gi == [i \in Compress(from) |-> i.netAmount]
           gc == [c \in Cycles |-> Sum({n \in cycle[c].net : <<n.source, n.destination>> \in W})]
           ki == [x \in P |-> ItemOf(from, PartiesOf(x))]
           kc == [x \in P |-> x[1]]
<1>1. IsFiniteSet(S) /\ \A x \in S : x \in P /\ f[x] \in Nat
  <2>1. IsFiniteSet(P) /\ \A x \in P : f[x] \in Nat
    BY ProducedFacts DEF NetObligation
  <2>2. S \in SUBSET P
    OBVIOUS
  <2> HIDE DEF S, P, f
  <2> QED
    BY <2>1, <2>2, FS_Subset
<1>2. Total(gi, I) = Total(f, S)
  <2>1. \A x \in S : ki[x] \in I /\ ki[x] = ItemOf(from, PartiesOf(x))
    <3> SUFFICES ASSUME NEW x \in S PROVE ki[x] \in I
      OBVIOUS
    <3>1. ki[x] \in Compress(from)
      BY CompressFacts
    <3>2. <<ki[x].source, ki[x].destination>> = PartiesOf(x)
      BY DEF ItemOf, PartiesOf
    <3> QED
      BY <3>1, <3>2
  <2>2. ASSUME NEW i \in I PROVE gi[i] = Total(f, Keyed(ki, S, i))
    <3> DEFINE w == <<i.source, i.destination>>
    <3>1. i = ItemOf(from, w) /\ gi[i] = Worth(from, w) /\ w \in W
      BY CompressFacts
    <3>2. \A x \in P : ki[x] = i <=> PartiesOf(x) = w
      <4> SUFFICES ASSUME NEW x \in P PROVE ki[x] = i <=> PartiesOf(x) = w
        OBVIOUS
      <4>1. ki[x] = ItemOf(from, PartiesOf(x))
        OBVIOUS
      <4>2. ki[x].source = PartiesOf(x)[1] /\ ki[x].destination = PartiesOf(x)[2]
        BY <4>1 DEF ItemOf
      <4>3. PartiesOf(x) = <<PartiesOf(x)[1], PartiesOf(x)[2]>>
        BY DEF PartiesOf
      <4> HIDE DEF ki
      <4> QED
        BY <3>1, <4>1, <4>2, <4>3
    <3>3. Keyed(ki, S, i) = {x \in P : PartiesOf(x) = w}
      BY <3>1, <3>2 DEF Keyed
    <3> QED
      BY <3>1, <3>3 DEF Worth
  <2>3. \A x \in S : f[x] \in Nat /\ ki[x] \in I
    BY <1>1, <2>1
  <2> HIDE DEF gi, I, f, S, ki
  <2> QED
    BY <1>1, <2>2, <2>3, TotalPartition
<1>3. Total(gc, from) = Total(f, S)
  <2>1. \A x \in S : f[x] \in Nat /\ kc[x] \in from
    BY <1>1, ProducedFacts
  <2>2. ASSUME NEW c \in from PROVE gc[c] = Total(f, Keyed(kc, S, c))
    <3> DEFINE N == {n \in cycle[c].net : <<n.source, n.destination>> \in W}
               T == Keyed(kc, S, c)
               h == [n \in N |-> n.amount]
               b == [n \in N |-> <<c, n>>]
    <3>1. \A n \in N : /\ <<c, n>> \in P /\ <<c, n>> \in S /\ <<c, n>> \in T
                       /\ h[n] = f[<<c, n>>] /\ b[n] = <<c, n>>
      <4> SUFFICES ASSUME NEW n \in N
                   PROVE  /\ <<c, n>> \in P /\ <<c, n>> \in S /\ <<c, n>> \in T
                          /\ h[n] = f[<<c, n>>]
        OBVIOUS
      <4>1. <<c, n>> \in P
        BY ProducedFacts
      <4>2. PartiesOf(<<c, n>>) = <<n.source, n.destination>>
        BY DEF PartiesOf
      <4>3. kc[<<c, n>>] = c /\ f[<<c, n>>] = n.amount /\ h[n] = n.amount
        BY <4>1
      <4> QED
        BY <4>1, <4>2, <4>3 DEF Keyed
    <3>2. \A x \in T : \E n \in N : b[n] = x
      <4> SUFFICES ASSUME NEW x \in T PROVE \E n \in N : b[n] = x
        OBVIOUS
      <4>1. x \in P /\ PartiesOf(x) \in W /\ x[1] = c
        BY DEF Keyed
      <4>2. x = <<c, x[2]>> /\ x[2] \in cycle[c].net
        BY <4>1, ProducedFacts
      <4>3. x[2] \in N
        BY <4>1, <4>2 DEF PartiesOf
      <4> QED
        BY <4>2, <4>3
    <3>3. b \in [N -> T]
      BY <3>1
    <3>4. \A m, n \in N : b[m] = b[n] => m = n
      OBVIOUS
    <3>5. IsFiniteSet(T) /\ \A x \in T : f[x] \in Nat
      <4>1. T \in SUBSET S
        BY DEF Keyed
      <4> HIDE DEF T, S, f
      <4> QED
        BY <1>1, <4>1, FS_Subset
    <3>6. \A n \in N : h[n] = f[b[n]]
      BY <3>1
    <3>7. gc[c] = Total(h, N)
      BY DEF Sum
    <3> HIDE DEF h, N, T, b, f, gc
    <3>8. Total(h, N) = Total(f, T)
      BY <3>2, <3>3, <3>4, <3>5, <3>6, TotalRenamed
    <3> QED
      BY <3>7, <3>8 DEF T
  <2> DEFINE K == from
  <2>3. (\A x \in S : f[x] \in Nat /\ kc[x] \in K) /\ \A c \in K : gc[c] = Total(f, Keyed(kc, S, c))
    BY <2>1, <2>2
  <2> HIDE DEF gc, f, S, kc, K
  <2>4. Total(gc, K) = Total(f, S)
    BY <1>1, <2>3, TotalPartition
  <2> QED
    BY <2>4 DEF K
<1> QED
  BY <1>2, <1>3

-----------------------------------------------------------------------------
ItemsTypeOK == compressed \subseteq Cycles /\ items \subseteq CompressedItem

(* Steps of the house do not change what the items carry. *)
LEMMA HouseKeepsItems ==
  ASSUME ClearingTypeOK, ItemsCarry, UNCHANGED <<compressed, items>>,
         \A c \in Cycles : cycle[c].state = "done" => cycle'[c] = cycle[c]
  PROVE  ItemsTypeOK' /\ ItemsCarry'
<1>1. ItemsTypeOK'
  BY DEF ClearingTypeOK, ItemsTypeOK
<1>2. compressed \subseteq CyclesIn({"done"})'
  BY DEF ItemsCarry, CyclesIn
<1>3. \A c \in compressed : c \in Cycles /\ cycle'[c] = cycle[c]
  BY DEF ItemsCarry, CyclesIn
<1>4. ASSUME NEW p \in Parties
      PROVE  /\ ItemsTo(p)' = Total([c \in Cycles |-> Owed(cycle[c].net, p)], compressed)'
             /\ ItemsFrom(p)' = Total([c \in Cycles |-> Owing(cycle[c].net, p)], compressed)'
  <2> DEFINE f == [c \in Cycles |-> Owed(cycle[c].net, p)]
             g == [c \in Cycles |-> Owing(cycle[c].net, p)]
             h == [c \in Cycles |-> Owed(cycle'[c].net, p)]
             k == [c \in Cycles |-> Owing(cycle'[c].net, p)]
  <2>1. \A c \in compressed : h[c] = f[c] /\ k[c] = g[c]
    BY <1>3
  <2>2. ItemsTo(p) = Total(f, compressed) /\ ItemsFrom(p) = Total(g, compressed)
    BY DEF ItemsCarry
  <2>3. ItemsTo(p)' = ItemsTo(p) /\ ItemsFrom(p)' = ItemsFrom(p)
    BY DEF ItemsTo, ItemsFrom
  <2>4. /\ Total([c \in Cycles |-> Owed(cycle[c].net, p)], compressed)' = Total(h, compressed)
        /\ Total([c \in Cycles |-> Owing(cycle[c].net, p)], compressed)' = Total(k, compressed)
    OBVIOUS
  <2> HIDE DEF f, g, h, k
  <2>5. Total(h, compressed) = Total(f, compressed) /\ Total(k, compressed) = Total(g, compressed)
    BY <2>1, TotalSame
  <2> QED
    BY <2>2, <2>3, <2>4, <2>5
<1> QED
  BY <1>1, <1>2, <1>4 DEF ItemsCarry

NetAmounts(S) == [i \in S |-> i.netAmount]

(* New items carry what they were made of: some of the items of both. *)
LEMMA ItemsJoin ==
  ASSUME NEW S, NEW T, IsFiniteSet(S), IsFiniteSet(T), S \cap T = {},
         \A i \in S \cup T : i.netAmount \in Nat,
         NEW A \in SUBSET S, NEW B \in SUBSET T
  PROVE  Total(NetAmounts(S \cup T), A \cup B) = Total(NetAmounts(S), A) + Total(NetAmounts(T), B)
<1> USE DEF NetAmounts
<1> DEFINE f == [i \in S |-> i.netAmount]
           g == [i \in T |-> i.netAmount]
           h == [i \in S \cup T |-> i.netAmount]
<1>1. (\A i \in A : h[i] = f[i]) /\ (\A i \in B : h[i] = g[i]) /\ \A i \in A \cup B : h[i] \in Nat
  OBVIOUS
<1>2. IsFiniteSet(A) /\ IsFiniteSet(B) /\ A \cap B = {}
  BY FS_Subset
<1> HIDE DEF f, g, h
<1>3. Total(h, A \cup B) = Total(h, A) + Total(h, B)
  BY <1>1, <1>2, TotalUnion
<1>4. Total(h, A) = Total(f, A) /\ Total(h, B) = Total(g, B)
  BY <1>1, TotalSame
<1> QED
  BY <1>3, <1>4 DEF f, g, h

(* A compression of finished cycles carries what they produced. *)
LEMMA CompressItems ==
  ASSUME ClearingTypeOK, CyclesNet, ItemsCarry, CompressFinished
  PROVE  ItemsTypeOK' /\ ItemsCarry'
<1> DEFINE from == {c \in Cycles : cycle[c].state = "done"} \ compressed
           new == Compress(from)
<1>1. /\ from # {} /\ items' = items \cup new /\ compressed' = compressed \cup from
      /\ cycle' = cycle
  BY DEF CompressFinished, house
<1>2. from \in SUBSET Cycles /\ from \subseteq CyclesIn({"done"}) /\ from \cap compressed = {}
  BY DEF CyclesIn
<1>3. /\ compressed \in SUBSET Cycles /\ compressed \subseteq CyclesIn({"done"})
      /\ items \subseteq CompressedItem /\ IsFiniteSet(items)
      /\ \A i \in items : i.from \subseteq compressed /\ i.from # {}
  BY DEF ClearingTypeOK, ItemsCarry
<1> HIDE DEF from
<1>4. /\ new \subseteq CompressedItem /\ IsFiniteSet(new)
      /\ \A i \in new : i.from = from /\ i.netAmount \in Nat
  BY <1>2, CompressFacts
<1> HIDE DEF new
<1>5. items \cap new = {}
  BY <1>1, <1>2, <1>3, <1>4
<1>6. ItemsTypeOK'
  BY <1>1, <1>2, <1>3, <1>4 DEF ItemsTypeOK
<1>7. IsFiniteSet(items')
  BY <1>1, <1>3, <1>4, FS_Union
<1>8. \A i \in items' : i.from \subseteq compressed' /\ i.from # {}
  BY <1>1, <1>3, <1>4
<1>9. compressed' \subseteq CyclesIn({"done"})'
  BY <1>1, <1>2, <1>3 DEF CyclesIn
<1>10. \A i \in items \cup new : i.netAmount \in Nat
  BY <1>3, <1>4 DEF CompressedItem
<1>11. IsFiniteSet(from) /\ IsFiniteSet(compressed)
  BY <1>2, <1>3, ClearingAssumption, FS_Subset
<1>12. ASSUME NEW p \in Parties
       PROVE  /\ ItemsTo(p)' = Total([c \in Cycles |-> Owed(cycle[c].net, p)], compressed)'
              /\ ItemsFrom(p)' = Total([c \in Cycles |-> Owing(cycle[c].net, p)], compressed)'
  <2> DEFINE f == [c \in Cycles |-> Owed(cycle[c].net, p)]
             g == [c \in Cycles |-> Owing(cycle[c].net, p)]
             old == [i \in items |-> i.netAmount]
             fresh == [i \in new |-> i.netAmount]
             all == [i \in items \cup new |-> i.netAmount]
             To(S) == {i \in S : i.destination = p}
             From(S) == {i \in S : i.source = p}
  <2>1. \A c \in Cycles : f[c] \in Nat /\ g[c] \in Nat
    BY NetsAreFinite
  <2>2. Total(old, To(items)) = Total(f, compressed) /\ Total(old, From(items)) = Total(g, compressed)
    BY DEF ItemsCarry, ItemsTo, ItemsFrom
  <2>3. Total(fresh, To(new)) = Total(f, from)
    <3> DEFINE W == {w \in {<<i.source, i.destination>> : i \in new} \cup
                           {<<n.source, n.destination>> : n \in NetObligation} : w[2] = p}
               k == [c \in Cycles |-> Sum({n \in cycle[c].net : <<n.source, n.destination>> \in W})]
    <3>1. Total(fresh, {i \in new : <<i.source, i.destination>> \in W}) = Total(k, from)
      <4> HIDE DEF W
      <4> QED
        BY <1>2, CompressionCarries DEF new
    <3>2. {i \in new : <<i.source, i.destination>> \in W} = To(new)
      OBVIOUS
    <3>3. \A c \in from : k[c] = f[c]
      <4> SUFFICES ASSUME NEW c \in from PROVE k[c] = f[c]
        OBVIOUS
      <4>1. \A n \in cycle[c].net : n \in NetObligation
        BY <1>2, NetsAreFinite
      <4>2. {n \in cycle[c].net : <<n.source, n.destination>> \in W} =
              {n \in cycle[c].net : n.destination = p}
        BY <4>1
      <4> HIDE DEF W
      <4> QED
        BY <1>2, <4>2 DEF Owed
    <3> HIDE DEF k, f, W, fresh
    <3>4. Total(k, from) = Total(f, from)
      BY <3>3, TotalSame
    <3> QED
      BY <3>1, <3>2, <3>4
  <2>4. Total(fresh, From(new)) = Total(g, from)
    <3> DEFINE W == {w \in {<<i.source, i.destination>> : i \in new} \cup
                           {<<n.source, n.destination>> : n \in NetObligation} : w[1] = p}
               k == [c \in Cycles |-> Sum({n \in cycle[c].net : <<n.source, n.destination>> \in W})]
    <3>1. Total(fresh, {i \in new : <<i.source, i.destination>> \in W}) = Total(k, from)
      <4> HIDE DEF W
      <4> QED
        BY <1>2, CompressionCarries DEF new
    <3>2. {i \in new : <<i.source, i.destination>> \in W} = From(new)
      OBVIOUS
    <3>3. \A c \in from : k[c] = g[c]
      <4> SUFFICES ASSUME NEW c \in from PROVE k[c] = g[c]
        OBVIOUS
      <4>1. \A n \in cycle[c].net : n \in NetObligation
        BY <1>2, NetsAreFinite
      <4>2. {n \in cycle[c].net : <<n.source, n.destination>> \in W} =
              {n \in cycle[c].net : n.source = p}
        BY <4>1
      <4> HIDE DEF W
      <4> QED
        BY <1>2, <4>2 DEF Owing
    <3> HIDE DEF k, g, W, fresh
    <3>4. Total(k, from) = Total(g, from)
      BY <3>3, TotalSame
    <3> QED
      BY <3>1, <3>2, <3>4
  <2>5. Total(all, To(items) \cup To(new)) = Total(old, To(items)) + Total(fresh, To(new))
    <3> DEFINE A == To(items)
               B == To(new)
    <3>1. A \in SUBSET items /\ B \in SUBSET new
      OBVIOUS
    <3>2. IsFiniteSet(items) /\ IsFiniteSet(new)
      BY <1>3, <1>4
    <3> HIDE DEF A, B
    <3>3. Total(NetAmounts(items \cup new), A \cup B) =
            Total(NetAmounts(items), A) + Total(NetAmounts(new), B)
      BY <1>5, <1>10, <3>1, <3>2, ItemsJoin
    <3> QED
      BY <3>3 DEF A, B, NetAmounts
  <2>6. Total(all, From(items) \cup From(new)) = Total(old, From(items)) + Total(fresh, From(new))
    <3> DEFINE A == From(items)
               B == From(new)
    <3>1. A \in SUBSET items /\ B \in SUBSET new
      OBVIOUS
    <3>2. IsFiniteSet(items) /\ IsFiniteSet(new)
      BY <1>3, <1>4
    <3> HIDE DEF A, B
    <3>3. Total(NetAmounts(items \cup new), A \cup B) =
            Total(NetAmounts(items), A) + Total(NetAmounts(new), B)
      BY <1>5, <1>10, <3>1, <3>2, ItemsJoin
    <3> QED
      BY <3>3 DEF A, B, NetAmounts
  <2>7. ItemsTo(p)' = Total(all, To(items) \cup To(new))
        /\ ItemsFrom(p)' = Total(all, From(items) \cup From(new))
    <3>1. {i \in items \cup new : i.destination = p} = To(items) \cup To(new)
          /\ {i \in items \cup new : i.source = p} = From(items) \cup From(new)
      OBVIOUS
    <3> QED
      BY <1>1, <3>1 DEF ItemsTo, ItemsFrom
  <2>8. /\ Total([c \in Cycles |-> Owed(cycle[c].net, p)], compressed)' = Total(f, compressed \cup from)
        /\ Total([c \in Cycles |-> Owing(cycle[c].net, p)], compressed)' = Total(g, compressed \cup from)
    BY <1>1
  <2> HIDE DEF f, g, old, fresh, all, To, From
  <2>9. \A c \in compressed \cup from : f[c] \in Nat /\ g[c] \in Nat
    BY <1>2, <1>3, <2>1
  <2>10. Total(f, compressed \cup from) = Total(f, compressed) + Total(f, from)
         /\ Total(g, compressed \cup from) = Total(g, compressed) + Total(g, from)
    BY <1>2, <1>11, <2>9, TotalUnion
  <2> QED
    BY <2>2, <2>3, <2>4, <2>5, <2>6, <2>7, <2>8, <2>10
<1> QED
  BY <1>6, <1>7, <1>8, <1>9, <1>12 DEF ItemsCarry

-----------------------------------------------------------------------------
LimitRecord == [maximum : Nat, emergency : Nat, current : Int, reserved : Int]
ReservationRecord(S) ==
  [item : S, state : {"refused", "reserved", "confirmed", "released"}, counted : BOOLEAN]

LimitsTypeOK ==
  /\ limit \in [Parties -> {NoLimit} \cup LimitRecord]
  /\ reservation \subseteq ReservationRecord(items)

LimitsInv == LimitsTypeOK /\ ReservationsFit /\ LimitKept

(* The amount of the reservations on a party that are in a state. *)
AmountOf(R, state, p) ==
  Total([r \in R |-> r.item.netAmount], {r \in {x \in R : x.item.destination = p} : r.state = state})

Counts(r, state, p) ==
  IF r.state = state /\ r.item.destination = p THEN r.item.netAmount ELSE 0

(* What one more reservation adds. *)
LEMMA AmountAdd ==
  ASSUME NEW R, IsFiniteSet(R), NEW r, r \notin R,
         \A x \in R \cup {r} : x.item.netAmount \in Nat, NEW state, NEW p
  PROVE  /\ AmountOf(R, state, p) \in Nat
         /\ AmountOf(R \cup {r}, state, p) = AmountOf(R, state, p) + Counts(r, state, p)
<1> DEFINE f == [x \in R |-> x.item.netAmount]
           g == [x \in R \cup {r} |-> x.item.netAmount]
           S == {x \in R : x.item.destination = p /\ x.state = state}
           T == {x \in R \cup {r} : x.item.destination = p /\ x.state = state}
<1>1. S \in SUBSET R /\ (\A x \in S : f[x] = g[x] /\ f[x] \in Nat) /\ g[r] = r.item.netAmount
      /\ \A x \in R \cup {r} : g[x] \in Nat
  OBVIOUS
<1>2. /\ {x \in {y \in R : y.item.destination = p} : x.state = state} = S
      /\ {x \in {y \in R \cup {r} : y.item.destination = p} : x.state = state} = T
  OBVIOUS
<1>3. AmountOf(R, state, p) = Total(f, S) /\ AmountOf(R \cup {r}, state, p) = Total(g, T)
  BY <1>2 DEF AmountOf
<1>4. IF r.state = state /\ r.item.destination = p THEN T = S \cup {r} ELSE T = S
  OBVIOUS
<1>5. r \notin S
  OBVIOUS
<1> HIDE DEF f, g, S, T
<1>6. IsFiniteSet(S) /\ Total(f, S) \in Nat /\ Total(g, S) = Total(f, S)
  BY <1>1, FS_Subset, TotalType, TotalSame
<1>7. Total(g, S \cup {r}) = Total(g, S) + g[r]
  BY <1>1, <1>5, <1>6, TotalAdd
<1> QED
  BY <1>1, <1>3, <1>4, <1>6, <1>7 DEF Counts

(* What a reservation that changes its state takes along. *)
LEMMA AmountChange ==
  ASSUME NEW R, IsFiniteSet(R), NEW r \in R, NEW u, u \notin R,
         \A x \in R \cup {u} : x.item.netAmount \in Nat, NEW state, NEW p
  PROVE  /\ AmountOf(R, state, p) \in Nat
         /\ AmountOf((R \ {r}) \cup {u}, state, p) =
              AmountOf(R, state, p) - Counts(r, state, p) + Counts(u, state, p)
<1> DEFINE Q == R \ {r}
<1>1. IsFiniteSet(Q)
  BY FS_RemoveElement
<1>2. /\ r \notin Q /\ u \notin Q /\ Q \cup {r} = R
      /\ \A x \in Q \cup {r} : x.item.netAmount \in Nat
      /\ \A x \in Q \cup {u} : x.item.netAmount \in Nat
  OBVIOUS
<1> HIDE DEF Q
<1>3. /\ AmountOf(Q, state, p) \in Nat
      /\ AmountOf(Q \cup {r}, state, p) = AmountOf(Q, state, p) + Counts(r, state, p)
  BY <1>1, <1>2, AmountAdd
<1>4. AmountOf(Q \cup {u}, state, p) = AmountOf(Q, state, p) + Counts(u, state, p)
  BY <1>1, <1>2, AmountAdd
<1>5. Counts(r, state, p) \in Nat /\ Counts(u, state, p) \in Nat
  BY <1>2 DEF Counts
<1>6. AmountOf(R, state, p) = AmountOf(Q, state, p) + Counts(r, state, p)
  BY <1>2, <1>3
<1>7. AmountOf(Q \cup {u}, state, p) =
        AmountOf(R, state, p) - Counts(r, state, p) + Counts(u, state, p)
  BY <1>3, <1>4, <1>5, <1>6
<1>8. AmountOf(R, state, p) \in Nat
  BY <1>3, <1>5, <1>6
<1> QED
  BY <1>7, <1>8 DEF Q

(* The amounts of the reservations that there are. *)
LEMMA ReservationFacts ==
  ASSUME LimitsTypeOK, ReservationsFit, items \subseteq CompressedItem
  PROVE  /\ IsFiniteSet(reservation)
         /\ \A i \in items : i.netAmount \in Nat /\ i.destination \in Parties
         /\ \A r \in reservation :
              /\ r \in ReservationRecord(items) /\ r.item \in items
              /\ r.item.netAmount \in Nat /\ r.item.destination \in Parties
         /\ \A state, p : AmountIn(state, p) = AmountOf(reservation, state, p)
         /\ \A p \in Parties : limit[p] # NoLimit => limit[p] \in LimitRecord
<1>1. \A i \in items : i.netAmount \in Nat /\ i.destination \in Parties
  BY DEF CompressedItem
<1>2. \A r \in reservation : r \in ReservationRecord(items) /\ r.item \in items
  BY DEF LimitsTypeOK, ReservationRecord
<1>3. \A state, p : AmountIn(state, p) = AmountOf(reservation, state, p)
  BY DEF AmountIn, AmountOf, ReservedOn
<1>4. \A p \in Parties : limit[p] # NoLimit => limit[p] \in LimitRecord
  BY DEF LimitsTypeOK
<1> QED
  BY <1>1, <1>2, <1>3, <1>4 DEF ReservationsFit

(* What is to hold of one limit. *)
Kept(l, R, p) ==
  (\A r \in R : r.item.destination = p => r.counted \/ r.state = "refused") =>
    /\ l.reserved = AmountOf(R, "reserved", p) /\ l.current = AmountOf(R, "confirmed", p)
    /\ l.current + l.reserved <= l.maximum

(* LimitKept says it of every limit that is set, before and after a step. *)
LEMMA KeptIs ==
  /\ LimitKept <=> \A p \in Parties : limit[p] # NoLimit => Kept(limit[p], reservation, p)
  /\ LimitKept' <=> \A p \in Parties : limit'[p] # NoLimit => Kept(limit'[p], reservation', p)
BY DEF LimitKept, Kept, ReservedOn, AmountIn, AmountOf

(* A limit that is set knows nothing of what was granted before. *)
LEMMA SetLimitInv ==
  ASSUME LimitsInv, items \subseteq CompressedItem,
         NEW p \in Parties, NEW l \in Limits, SetLimit(p, l)
  PROVE  LimitsInv'
<1> DEFINE set == [maximum |-> l.maximum, emergency |-> l.emergency, current |-> 0, reserved |-> 0]
<1>1. /\ limit[p] = NoLimit /\ limit' = [limit EXCEPT ![p] = set]
      /\ UNCHANGED <<items, reservation>>
  BY DEF SetLimit
<1>2. set \in LimitRecord /\ set # NoLimit
  BY ClearingAssumption DEF LimitRecord, NoLimit
<1>3. limit \in [Parties -> {NoLimit} \cup LimitRecord]
  BY DEF LimitsInv, LimitsTypeOK
<1>4. set.current = 0 /\ set.reserved = 0 /\ set.maximum \in Nat
  BY ClearingAssumption
<1> HIDE DEF set
<1>5. /\ limit'[p] = set /\ \A q \in Parties \ {p} : limit'[q] = limit[q]
      /\ limit' \in [Parties -> {NoLimit} \cup LimitRecord]
  BY <1>1, <1>2, <1>3
<1>6. LimitsTypeOK'
  BY <1>1, <1>5 DEF LimitsInv, LimitsTypeOK
<1>7. ReservationsFit'
  <2>1. \A r \in reservation : r.counted => limit'[r.item.destination] # NoLimit
    BY <1>1, <1>2, <1>5, ReservationFacts DEF LimitsInv, ReservationsFit
  <2> QED
    BY <1>1, <2>1 DEF LimitsInv, ReservationsFit
<1>8. \A q \in Parties : limit'[q] # NoLimit => Kept(limit'[q], reservation, q)
  <2> SUFFICES ASSUME NEW q \in Parties, limit'[q] # NoLimit
               PROVE  Kept(limit'[q], reservation, q)
    OBVIOUS
  <2>1. CASE q # p
    BY <1>5, <2>1, KeptIs DEF LimitsInv
  <2>2. CASE q = p
    <3> SUFFICES ASSUME \A r \in reservation :
                          r.item.destination = p => r.counted \/ r.state = "refused"
                 PROVE  /\ set.reserved = AmountOf(reservation, "reserved", p)
                        /\ set.current = AmountOf(reservation, "confirmed", p)
                        /\ set.current + set.reserved <= set.maximum
      BY <1>5, <2>2 DEF Kept
    <3>1. \A r \in reservation : r.item.destination = p => r.state = "refused"
      BY <1>1 DEF LimitsInv, ReservationsFit
    <3>2. \A state \in {"reserved", "confirmed"} :
            {r \in {x \in reservation : x.item.destination = p} : r.state = state} = {}
      BY <3>1
    <3>3. AmountOf(reservation, "reserved", p) = 0 /\ AmountOf(reservation, "confirmed", p) = 0
      BY <3>2, TotalEmpty DEF AmountOf
    <3> QED
      BY <1>4, <3>3
  <2> QED
    BY <2>1, <2>2
<1>9. LimitKept'
  BY <1>1, <1>8, KeptIs
<1> QED
  BY <1>6, <1>7, <1>9 DEF LimitsInv

(* Capacity is asked for once for an item: granted and counted against the  *)
(* limit that is set, or granted without one, or refused.                   *)
LEMMA ReserveCapacityInv ==
  ASSUME LimitsInv, items \subseteq CompressedItem, NEW i \in items, ReserveCapacity(i)
  PROVE  LimitsInv'
<1> DEFINE p == i.destination
           a == i.netAmount
<1>1. /\ \A r \in reservation : r.item # i
      /\ items' = items
      /\ \/ /\ Allowed(p, a)
            /\ reservation' = reservation \cup
                 {[item |-> i, state |-> "reserved", counted |-> limit[p] # NoLimit]}
            /\ limit' = IF limit[p] # NoLimit THEN [limit EXCEPT ![p].reserved = @ + a] ELSE limit
         \/ /\ reservation' = reservation \cup
                 {[item |-> i, state |-> "refused", counted |-> FALSE]}
            /\ limit' = limit
  BY DEF ReserveCapacity
<1>2. limit \in [Parties -> {NoLimit} \cup LimitRecord]
      /\ reservation \subseteq ReservationRecord(items)
  BY DEF LimitsInv, LimitsTypeOK
<1>3. p \in Parties /\ a \in Nat
  BY ReservationFacts DEF LimitsInv
<1> HIDE DEF p, a
<1>4. PICK r : /\ reservation' = reservation \cup {r} /\ r \in ReservationRecord(items)
               /\ r.item = i
               /\ \/ /\ r.state = "reserved" /\ r.counted = (limit[p] # NoLimit) /\ Allowed(p, a)
                     /\ limit' = IF limit[p] # NoLimit THEN [limit EXCEPT ![p].reserved = @ + a]
                                 ELSE limit
                  \/ r.state = "refused" /\ r.counted = FALSE /\ limit' = limit
  <2> DEFINE granted == [item |-> i, state |-> "reserved", counted |-> limit[p] # NoLimit]
             refused == [item |-> i, state |-> "refused", counted |-> FALSE]
  <2>1. /\ granted \in ReservationRecord(items) /\ granted.item = i /\ granted.state = "reserved"
        /\ granted.counted = (limit[p] # NoLimit)
    BY DEF ReservationRecord
  <2>2. /\ refused \in ReservationRecord(items) /\ refused.item = i /\ refused.state = "refused"
        /\ refused.counted = FALSE
    BY DEF ReservationRecord
  <2>3. \/ /\ Allowed(p, a) /\ reservation' = reservation \cup {granted}
           /\ limit' = IF limit[p] # NoLimit THEN [limit EXCEPT ![p].reserved = @ + a] ELSE limit
        \/ reservation' = reservation \cup {refused} /\ limit' = limit
    BY <1>1
  <2> HIDE DEF granted, refused
  <2>4. CASE reservation' = reservation \cup {granted} /\ Allowed(p, a)
             /\ limit' = IF limit[p] # NoLimit THEN [limit EXCEPT ![p].reserved = @ + a] ELSE limit
    <3> WITNESS granted
    <3> QED
      BY <2>1, <2>4
  <2>5. CASE reservation' = reservation \cup {refused} /\ limit' = limit
    <3> WITNESS refused
    <3> QED
      BY <2>2, <2>5
  <2> QED
    BY <2>3, <2>4, <2>5
<1>5. r \notin reservation /\ r.item.destination = p /\ r.item.netAmount = a
  BY <1>1, <1>4 DEF p, a
<1>6. /\ \A q \in Parties \ {p} : limit'[q] = limit[q]
      /\ limit' \in [Parties -> {NoLimit} \cup LimitRecord]
      /\ limit[p] = NoLimit => limit'[p] = NoLimit
      /\ limit[p] # NoLimit =>
           /\ limit[p] \in LimitRecord /\ limit'[p] \in LimitRecord
           /\ limit'[p].current = limit[p].current /\ limit'[p].maximum = limit[p].maximum
           /\ limit'[p].reserved = limit[p].reserved + (IF r.state = "reserved" THEN a ELSE 0)
  <2>1. CASE limit' = limit /\ ~(r.state = "reserved" /\ limit[p] # NoLimit)
    BY <1>2, <1>3, <1>4, <2>1 DEF LimitRecord
  <2>2. CASE r.state = "reserved" /\ limit[p] # NoLimit
    <3>1. limit[p] \in LimitRecord /\ limit' = [limit EXCEPT ![p].reserved = @ + a]
      BY <1>2, <1>3, <1>4, <2>2
    <3>2. /\ limit'[p] = [limit[p] EXCEPT !.reserved = @ + a]
          /\ \A q \in Parties \ {p} : limit'[q] = limit[q]
      BY <1>2, <1>3, <3>1
    <3>3. /\ limit'[p] \in LimitRecord /\ limit'[p].current = limit[p].current
          /\ limit'[p].maximum = limit[p].maximum
          /\ limit'[p].reserved = limit[p].reserved + a
      BY <1>3, <3>1, <3>2 DEF LimitRecord
    <3>4. limit' \in [Parties -> {NoLimit} \cup LimitRecord]
      BY <1>2, <3>1, <3>2, <3>3
    <3> QED
      BY <2>2, <3>1, <3>2, <3>3, <3>4
  <2> QED
    BY <1>4, <2>1, <2>2
<1>7. \A l \in LimitRecord : l # NoLimit
  BY DEF LimitRecord, NoLimit
<1>8. LimitsTypeOK'
  BY <1>1, <1>2, <1>4, <1>6 DEF LimitsTypeOK
<1>9. ReservationsFit'
  <2>1. IsFiniteSet(reservation')
    BY <1>4, FS_AddElement DEF LimitsInv, ReservationsFit
  <2>2. \A x, y \in reservation' : x.item = y.item => x = y
    BY <1>1, <1>4 DEF LimitsInv, ReservationsFit
  <2>3. \A q \in Parties : limit[q] # NoLimit => limit'[q] # NoLimit
    BY <1>6, <1>7
  <2>4. \A x \in reservation' : x.counted => limit'[x.item.destination] # NoLimit
    <3> SUFFICES ASSUME NEW x \in reservation', x.counted
                 PROVE  limit'[x.item.destination] # NoLimit
      OBVIOUS
    <3>1. CASE x \in reservation
      BY <2>3, <3>1, ReservationFacts DEF LimitsInv, ReservationsFit
    <3>2. CASE x = r
      BY <1>3, <1>4, <1>5, <2>3, <3>2
    <3> QED
      BY <1>4, <3>1, <3>2
  <2> QED
    BY <2>1, <2>2, <2>4 DEF ReservationsFit
<1>10. ASSUME NEW q \in Parties, limit'[q] # NoLimit PROVE Kept(limit'[q], reservation', q)
  <2>1. \A state : /\ AmountOf(reservation, state, q) \in Nat
                   /\ AmountOf(reservation', state, q) =
                        AmountOf(reservation, state, q) + Counts(r, state, q)
    <3>1. \A x \in reservation \cup {r} : x.item.netAmount \in Nat
      BY <1>3, <1>5, ReservationFacts DEF LimitsInv
    <3>2. IsFiniteSet(reservation)
      BY DEF LimitsInv, ReservationsFit
    <3> DEFINE R == reservation
    <3>3. /\ r \notin R /\ reservation' = R \cup {r} /\ IsFiniteSet(R)
          /\ \A x \in R \cup {r} : x.item.netAmount \in Nat
      BY <1>4, <1>5, <3>1, <3>2
    <3> HIDE DEF R
    <3>4. \A state : /\ AmountOf(R, state, q) \in Nat
                     /\ AmountOf(R \cup {r}, state, q) = AmountOf(R, state, q) + Counts(r, state, q)
      BY <3>3, AmountAdd
    <3> QED
      BY <3>3, <3>4 DEF R
  <2>2. Kept(limit[q], reservation, q)
    BY <1>6, <1>10, KeptIs DEF LimitsInv
  <2>3. CASE q # p
    <3>1. Counts(r, "reserved", q) = 0 /\ Counts(r, "confirmed", q) = 0
      BY <1>5, <2>3 DEF Counts
    <3>2. /\ AmountOf(reservation', "reserved", q) = AmountOf(reservation, "reserved", q)
          /\ AmountOf(reservation', "confirmed", q) = AmountOf(reservation, "confirmed", q)
      BY <2>1, <3>1
    <3> QED
      BY <1>4, <1>6, <2>2, <2>3, <3>2 DEF Kept
  <2>4. CASE q = p
    <3> DEFINE l == limit[p]
               m == limit'[p]
               x == AmountOf(reservation, "reserved", p)
               y == AmountOf(reservation, "confirmed", p)
               b == IF r.state = "reserved" THEN a ELSE 0
    <3>1. /\ l # NoLimit /\ l \in LimitRecord /\ m.current = l.current /\ m.maximum = l.maximum
          /\ m.reserved = l.reserved + b
      BY <1>6, <1>10, <2>4
    <3>2. Counts(r, "reserved", p) = b /\ Counts(r, "confirmed", p) = 0
      BY <1>4, <1>5 DEF Counts
    <3>3. /\ AmountOf(reservation', "reserved", p) = x + b /\ x \in Nat
          /\ AmountOf(reservation', "confirmed", p) = y /\ y \in Nat
      BY <2>1, <2>4, <3>2
    <3>4. r.state = "reserved" => l.current + l.reserved + a <= l.maximum
      BY <1>4, <3>1 DEF Allowed
    <3>5. l.current \in Int /\ l.reserved \in Int /\ l.maximum \in Nat
      BY <3>1 DEF LimitRecord
    <3> SUFFICES ASSUME \A z \in reservation' :
                          z.item.destination = p => z.counted \/ z.state = "refused"
                 PROVE  /\ m.reserved = x + b /\ m.current = y
                        /\ m.current + m.reserved <= m.maximum
      BY <2>4, <3>3 DEF Kept
    <3>6. \A z \in reservation : z.item.destination = p => z.counted \/ z.state = "refused"
      BY <1>4
    <3>7. l.reserved = x /\ l.current = y /\ l.current + l.reserved <= l.maximum
      BY <2>2, <2>4, <3>6 DEF Kept
    <3>8. b = IF r.state = "reserved" THEN a ELSE 0
      OBVIOUS
    <3> HIDE DEF l, m, x, y, b
    <3> QED
      BY <1>3, <3>1, <3>3, <3>4, <3>5, <3>7, <3>8
  <2> QED
    BY <2>3, <2>4
<1>11. LimitKept'
  BY <1>10, KeptIs
<1> QED
  BY <1>8, <1>9, <1>11 DEF LimitsInv

(* Confirming moves the amount to the current exposure, releasing drops it. *)
LEMMA CloseInv ==
  ASSUME LimitsInv, items \subseteq CompressedItem, NEW r \in reservation,
         NEW state \in {"confirmed", "released"}, Close(r, state), NEW moved \in Nat,
         moved = (IF state = "confirmed" THEN r.item.netAmount ELSE 0),
         \A q \in Parties \ {r.item.destination} : limit'[q] = limit[q],
         limit' \in [Parties -> {NoLimit} \cup LimitRecord],
         limit[r.item.destination] = NoLimit => limit'[r.item.destination] = NoLimit,
         limit[r.item.destination] # NoLimit =>
           /\ limit'[r.item.destination] \in LimitRecord
           /\ limit'[r.item.destination].current = limit[r.item.destination].current + moved
           /\ limit'[r.item.destination].maximum = limit[r.item.destination].maximum
           /\ limit'[r.item.destination].reserved =
                limit[r.item.destination].reserved - r.item.netAmount
  PROVE  LimitsInv'
<1> DEFINE p == r.item.destination
           a == r.item.netAmount
           u == [r EXCEPT !.state = state]
<1>1. /\ r.state = "reserved" /\ reservation' = (reservation \ {r}) \cup {u} /\ items' = items
  BY DEF Close
<1>2. limit \in [Parties -> {NoLimit} \cup LimitRecord]
      /\ reservation \subseteq ReservationRecord(items)
  BY DEF LimitsInv, LimitsTypeOK
<1>3. p \in Parties /\ a \in Nat /\ r \in ReservationRecord(items) /\ r.item \in items
  BY ReservationFacts DEF LimitsInv
<1>4. /\ u \in ReservationRecord(items) /\ u.item = r.item /\ u.state = state
      /\ u.counted = r.counted
  BY <1>3 DEF ReservationRecord
<1>5. /\ \A q \in Parties \ {p} : limit'[q] = limit[q]
      /\ limit' \in [Parties -> {NoLimit} \cup LimitRecord]
      /\ limit[p] = NoLimit => limit'[p] = NoLimit
      /\ limit[p] # NoLimit =>
           /\ limit[p] \in LimitRecord /\ limit'[p] \in LimitRecord
           /\ limit'[p].current = limit[p].current + moved
           /\ limit'[p].maximum = limit[p].maximum
           /\ limit'[p].reserved = limit[p].reserved - a
  BY <1>2, <1>3
<1>6. u.item.destination = p /\ u.item.netAmount = a /\ r.item.destination = p
      /\ r.item.netAmount = a /\ moved = (IF state = "confirmed" THEN a ELSE 0)
  BY <1>4
<1> HIDE DEF p, a, u
<1>7. u \notin reservation
  BY <1>1, <1>4 DEF LimitsInv, ReservationsFit
<1>9. \A l \in LimitRecord : l # NoLimit
  BY DEF LimitRecord, NoLimit
<1>10. LimitsTypeOK'
  BY <1>1, <1>2, <1>4, <1>5 DEF LimitsTypeOK
<1>11. ReservationsFit'
  <2>1. IsFiniteSet(reservation')
    BY <1>1, FS_AddElement, FS_RemoveElement DEF LimitsInv, ReservationsFit
  <2>2. \A x, y \in reservation' : x.item = y.item => x = y
    BY <1>1, <1>4 DEF LimitsInv, ReservationsFit
  <2>3. \A q \in Parties : limit[q] # NoLimit => limit'[q] # NoLimit
    BY <1>5, <1>9
  <2>4. \A x \in reservation : x.counted => limit'[x.item.destination] # NoLimit
    BY <2>3, ReservationFacts DEF LimitsInv, ReservationsFit
  <2>5. \A x \in reservation' : x.counted => limit'[x.item.destination] # NoLimit
    BY <1>1, <1>4, <2>4
  <2> QED
    BY <2>1, <2>2, <2>5 DEF ReservationsFit
<1>12. ASSUME NEW q \in Parties, limit'[q] # NoLimit PROVE Kept(limit'[q], reservation', q)
  <2>1. \A s : /\ AmountOf(reservation, s, q) \in Nat
               /\ AmountOf(reservation', s, q) =
                    AmountOf(reservation, s, q) - Counts(r, s, q) + Counts(u, s, q)
    <3>1. \A x \in reservation \cup {u} : x.item.netAmount \in Nat
      BY <1>3, <1>6, ReservationFacts DEF LimitsInv
    <3>2. IsFiniteSet(reservation)
      BY DEF LimitsInv, ReservationsFit
    <3> DEFINE R == reservation
    <3>3. /\ r \in R /\ u \notin R /\ reservation' = (R \ {r}) \cup {u} /\ IsFiniteSet(R)
          /\ \A x \in R \cup {u} : x.item.netAmount \in Nat
      BY <1>1, <1>7, <3>1, <3>2
    <3> HIDE DEF R
    <3>4. ASSUME NEW s
          PROVE  /\ AmountOf(R, s, q) \in Nat
                 /\ AmountOf((R \ {r}) \cup {u}, s, q) =
                      AmountOf(R, s, q) - Counts(r, s, q) + Counts(u, s, q)
      <4>1. /\ r \in R /\ u \notin R /\ IsFiniteSet(R)
            /\ \A x \in R \cup {u} : x.item.netAmount \in Nat
        BY <3>3
      <4> QED
        BY ONLY <4>1, AmountChange
    <3> QED
      BY <3>3, <3>4 DEF R
  <2>2. Kept(limit[q], reservation, q)
    BY <1>5, <1>12, KeptIs DEF LimitsInv
  <2>3. ASSUME \A z \in reservation' : z.item.destination = q => z.counted \/ z.state = "refused"
        PROVE  \A z \in reservation : z.item.destination = q => z.counted \/ z.state = "refused"
    <3> SUFFICES ASSUME NEW z \in reservation, z.item.destination = q
                 PROVE  z.counted \/ z.state = "refused"
      OBVIOUS
    <3>1. CASE z = r
      <4>1. u \in reservation' /\ u.item.destination = q /\ u.state # "refused"
        BY <1>1, <1>4, <3>1
      <4> QED
        BY <1>4, <2>3, <3>1, <4>1
    <3>2. CASE z # r
      BY <1>1, <2>3, <3>2
    <3> QED
      BY <3>1, <3>2
  <2>4. CASE q # p
    <3>1. /\ Counts(r, "reserved", q) = 0 /\ Counts(r, "confirmed", q) = 0
          /\ Counts(u, "reserved", q) = 0 /\ Counts(u, "confirmed", q) = 0
      BY <1>6, <2>4 DEF Counts
    <3>2. /\ AmountOf(reservation', "reserved", q) = AmountOf(reservation, "reserved", q)
          /\ AmountOf(reservation', "confirmed", q) = AmountOf(reservation, "confirmed", q)
      BY <2>1, <3>1
    <3>3. limit'[q] = limit[q]
      BY <1>5, <2>4
    <3> QED
      BY <2>2, <2>3, <3>2, <3>3 DEF Kept
  <2>5. CASE q = p
    <3> DEFINE l == limit[p]
               m == limit'[p]
               x == AmountOf(reservation, "reserved", p)
               y == AmountOf(reservation, "confirmed", p)
    <3>1. /\ l \in LimitRecord /\ m.current = l.current + moved /\ m.maximum = l.maximum
          /\ m.reserved = l.reserved - a
      BY <1>5, <1>12, <2>5
    <3>2. /\ Counts(r, "reserved", p) = a /\ Counts(r, "confirmed", p) = 0
          /\ Counts(u, "reserved", p) = 0 /\ Counts(u, "confirmed", p) = moved
      BY <1>1, <1>4, <1>6 DEF Counts
    <3>3. /\ AmountOf(reservation', "reserved", p) = x - a + 0 /\ x \in Nat
          /\ AmountOf(reservation', "confirmed", p) = y - 0 + moved /\ y \in Nat
      BY <2>1, <2>5, <3>2
    <3>4. l.current \in Int /\ l.reserved \in Int /\ l.maximum \in Nat
      BY <3>1 DEF LimitRecord
    <3> SUFFICES ASSUME \A z \in reservation' :
                          z.item.destination = p => z.counted \/ z.state = "refused"
                 PROVE  /\ m.reserved = x - a + 0 /\ m.current = y - 0 + moved
                        /\ m.current + m.reserved <= m.maximum
      BY <2>5, <3>3 DEF Kept
    <3>5. l.reserved = x /\ l.current = y /\ l.current + l.reserved <= l.maximum
      BY <2>2, <2>3, <2>5 DEF Kept
    <3>6. moved = a \/ moved = 0
      BY <1>6
    <3> HIDE DEF l, m, x, y
    <3> QED
      BY <1>3, <3>1, <3>3, <3>4, <3>5, <3>6
  <2> QED
    BY <2>4, <2>5
<1>13. LimitKept'
  BY <1>12, KeptIs
<1> QED
  BY <1>10, <1>11, <1>13 DEF LimitsInv

(* The other steps leave limits and reservations alone. *)
LEMMA OtherLimits ==
  ASSUME LimitsInv, UNCHANGED <<limit, reservation>>, items \subseteq items'
  PROVE  LimitsInv'
<1>1. LimitsTypeOK'
  BY DEF LimitsInv, LimitsTypeOK, ReservationRecord
<1>2. ReservationsFit'
  BY DEF LimitsInv, ReservationsFit
<1>3. LimitKept'
  BY KeptIs DEF LimitsInv
<1> QED
  BY <1>1, <1>2, <1>3 DEF LimitsInv

(* What ClearingInv says of the house, of the items and of the limits. *)
LEMMA ClearingParts ==
  /\ ClearingInv => HouseInv /\ ItemsTypeOK /\ LimitsInv
  /\ HouseTypeOK' /\ HouseInv' /\ ItemsTypeOK' /\ ItemsCarry' /\ LimitsInv' => ClearingInv'
<1>1. ClearingInv => HouseInv /\ ItemsTypeOK /\ LimitsInv
  BY DEF ClearingInv, HouseInv, ClearingTypeOK, ItemsTypeOK, LimitsInv, LimitsTypeOK,
         LimitRecord, ReservationRecord
<1>2. HouseTypeOK' /\ ItemsTypeOK' /\ LimitsInv' => ClearingTypeOK'
  BY DEF ClearingTypeOK, HouseTypeOK, ItemsTypeOK, LimitsInv, LimitsTypeOK,
         LimitRecord, ReservationRecord
<1> QED
  BY <1>1, <1>2 DEF ClearingInv, HouseInv, LimitsInv

(* Nothing has been taken in, and no limit is set, at the start. *)
LEMMA ClearingStarts == ClearingInit => ClearingInv
<1> SUFFICES ASSUME ClearingInit PROVE ClearingInv
  OBVIOUS
<1>1. /\ validating = {} /\ unnetted = {} /\ ingested = {}
      /\ cycle = [c \in Cycles |-> [state |-> "new", batch |-> {}, net |-> {}]]
      /\ volume = [gross |-> 0, net |-> 0]
      /\ compressed = {} /\ items = {} /\ reservation = {}
      /\ limit = [p \in Parties |-> NoLimit]
  BY DEF ClearingInit
<1>2. ClearingTypeOK
  BY <1>1 DEF ClearingTypeOK
<1>3. \A c \in Cycles : cycle[c].state = "new" /\ cycle[c].batch = {} /\ cycle[c].net = {}
  BY <1>1
<1>4. CyclesNet
  BY <1>1, <1>3 DEF CyclesNet
<1>5. CyclesIn({"done"}) = {}
  BY <1>3 DEF CyclesIn
<1>6. Sum({}) = 0
  BY TotalEmpty DEF Sum
<1>7. NothingIsLost
  <2> SUFFICES ASSUME NEW Q \in SUBSET Obligations
               PROVE  Sum(ingested \cap Q) =
                        Sum(unnetted \cap Q) + Total([c \in Cycles |-> BatchOf(c, Q)], Cycles)
    BY DEF NothingIsLost
  <2> DEFINE f == [c \in Cycles |-> BatchOf(c, Q)]
  <2>1. \A c \in Cycles : f[c] = 0
    BY <1>3, <1>6 DEF BatchOf
  <2>2. ingested \cap Q = {} /\ unnetted \cap Q = {}
    BY <1>1
  <2> HIDE DEF f
  <2>3. Total(f, Cycles) = Total(f, {})
    BY <2>1, TotalPositive
  <2>4. Total(f, Cycles) = 0
    BY <2>3, TotalEmpty
  <2> QED
    BY <1>6, <2>2, <2>4 DEF f
<1>8. VolumesAddUp
  BY <1>1, <1>5, <1>6, TotalEmpty DEF VolumesAddUp
<1>9. ItemsCarry
  <2>1. \A p \in Parties :
          /\ ItemsTo(p) = 0 /\ ItemsFrom(p) = 0
          /\ Total([c \in Cycles |-> Owed(cycle[c].net, p)], compressed) = 0
          /\ Total([c \in Cycles |-> Owing(cycle[c].net, p)], compressed) = 0
    <3> TAKE p \in Parties
    <3>1. /\ {i \in items : i.destination = p} = {} /\ {i \in items : i.source = p} = {}
          /\ compressed = {}
      BY <1>1
    <3> QED
      BY <3>1, TotalEmpty DEF ItemsTo, ItemsFrom
  <2> QED
    BY <1>1, <2>1, FS_EmptySet DEF ItemsCarry
<1>10. ReservationsFit
  BY <1>1, FS_EmptySet DEF ReservationsFit
<1>11. LimitKept
  BY <1>1 DEF LimitKept
<1> QED
  BY <1>2, <1>4, <1>7, <1>8, <1>9, <1>10, <1>11 DEF ClearingInv

(* A step of the house leaves items and limits as they are. *)
LEMMA HouseStep ==
  ASSUME ClearingInv, HouseTypeOK', HouseInv', UNCHANGED <<compressed, items, limit, reservation>>,
         \A c \in Cycles : cycle[c].state = "done" => cycle'[c] = cycle[c]
  PROVE  ClearingInv'
<1>1. ClearingTypeOK /\ ItemsCarry /\ LimitsInv
  BY ClearingParts DEF ClearingInv
<1>2. ItemsTypeOK' /\ ItemsCarry'
  BY <1>1, HouseKeepsItems
<1>3. LimitsInv'
  BY <1>1, OtherLimits
<1> QED
  BY <1>2, <1>3, ClearingParts

(* A step of the desk leaves the house as it is. *)
LEMMA DeskStep ==
  ASSUME ClearingInv, UNCHANGED house, ItemsTypeOK', ItemsCarry', LimitsInv'
  PROVE  ClearingInv'
<1>1. ClearingTypeOK /\ HouseInv
  BY ClearingParts DEF ClearingInv
<1>2. UNCHANGED <<unnetted, ingested, cycle, volume>> /\ validating' = validating
  BY DEF house
<1>3. validating' \subseteq Obligations /\ validating' \cap ingested = {}
  BY <1>1, <1>2 DEF ClearingTypeOK, HouseInv, CyclesNet
<1>4. HouseTypeOK' /\ HouseInv'
  BY <1>1, <1>2, <1>3, OtherHouse
<1> QED
  BY <1>4, ClearingParts

(* Items stay as they are where neither house nor items change. *)
LEMMA ItemsStay ==
  ASSUME ClearingInv, UNCHANGED <<house, compressed, items>>
  PROVE  ItemsTypeOK' /\ ItemsCarry'
<1>1. ClearingTypeOK /\ ItemsCarry
  BY DEF ClearingInv
<1>2. UNCHANGED <<compressed, items>> /\ cycle' = cycle
  BY DEF house
<1> QED
  BY <1>1, <1>2, HouseKeepsItems

(* Confirming and releasing are the two ways to close a reservation. *)
LEMMA CloseSteps ==
  ASSUME ClearingInv, NEW r \in reservation, ConfirmCapacity(r) \/ ReleaseCapacity(r)
  PROVE  ClearingInv'
<1> DEFINE p == r.item.destination
           a == r.item.netAmount
<1>1. LimitsInv /\ ItemsTypeOK
  BY ClearingParts
<1>2. limit \in [Parties -> {NoLimit} \cup LimitRecord] /\ p \in Parties /\ a \in Nat
  BY <1>1, ReservationFacts DEF LimitsInv, LimitsTypeOK, ItemsTypeOK
<1>3. limit[p] # NoLimit => limit[p] \in LimitRecord
  BY <1>2
<1>4. ASSUME NEW state \in {"confirmed", "released"}, Close(r, state), NEW moved \in Nat,
             moved = (IF state = "confirmed" THEN a ELSE 0),
             \A q \in Parties \ {p} : limit'[q] = limit[q],
             limit' \in [Parties -> {NoLimit} \cup LimitRecord],
             limit[p] = NoLimit => limit'[p] = NoLimit,
             limit[p] # NoLimit =>
               /\ limit'[p] \in LimitRecord /\ limit'[p].current = limit[p].current + moved
               /\ limit'[p].maximum = limit[p].maximum
               /\ limit'[p].reserved = limit[p].reserved - a
      PROVE  ClearingInv'
  <2>1. LimitsInv'
    BY <1>1, <1>4, CloseInv DEF ItemsTypeOK
  <2>2. UNCHANGED house /\ UNCHANGED <<house, compressed, items>>
    BY <1>4 DEF Close
  <2> QED
    BY <2>1, <2>2, ItemsStay, DeskStep
<1>5. CASE ConfirmCapacity(r)
  <2>1. /\ Close(r, "confirmed")
        /\ limit' = IF limit[p] = NoLimit THEN limit
                    ELSE [limit EXCEPT ![p].reserved = @ - a, ![p].current = @ + a]
    BY <1>5 DEF ConfirmCapacity
  <2> HIDE DEF p, a
  <2>2. CASE limit[p] = NoLimit
    <3>1. limit' = limit
      BY <2>1, <2>2
    <3>2. a = (IF "confirmed" = "confirmed" THEN a ELSE 0)
      OBVIOUS
    <3> QED
      BY <1>2, <1>4, <2>1, <2>2, <3>1, <3>2
  <2>3. CASE limit[p] # NoLimit
    <3> DEFINE l == limit[p]
               m == [l EXCEPT !.reserved = @ - a, !.current = @ + a]
    <3>1. l \in LimitRecord /\ l = limit[p]
      BY <1>3, <2>3
    <3>2. limit' = [limit EXCEPT ![p] = m]
      BY <1>2, <2>1, <2>3, <3>1 DEF LimitRecord
    <3> HIDE DEF l
    <3>4. a \in Int /\ l.current \in Int /\ l.reserved \in Int
      BY <1>2, <3>1 DEF LimitRecord
    <3>5. /\ m.current = l.current + a /\ m.maximum = l.maximum /\ m.reserved = l.reserved - a
      BY <3>1 DEF LimitRecord
    <3>6. m \in LimitRecord
      <4> DEFINE n == [l EXCEPT !.reserved = @ - a]
      <4>1. n \in LimitRecord
        BY <3>1, <3>4 DEF LimitRecord
      <4>2. m = [n EXCEPT !.current = l.current + a]
        BY <3>1 DEF LimitRecord
      <4> HIDE DEF m, n
      <4> QED
        BY <3>4, <4>1, <4>2 DEF LimitRecord
    <3> HIDE DEF m
    <3>3. /\ limit'[p] = m /\ \A q \in Parties \ {p} : limit'[q] = limit[q]
          /\ limit' \in [Parties -> {NoLimit} \cup LimitRecord]
      BY <1>2, <3>2, <3>6
    <3> QED
      BY <1>2, <1>4, <2>1, <2>3, <3>1, <3>3, <3>5, <3>6
  <2> QED
    BY <2>2, <2>3
<1>6. CASE ReleaseCapacity(r)
  <2>1. /\ Close(r, "released")
        /\ limit' = IF limit[p] = NoLimit THEN limit ELSE [limit EXCEPT ![p].reserved = @ - a]
    BY <1>6 DEF ReleaseCapacity
  <2> HIDE DEF p, a
  <2>2. CASE limit[p] = NoLimit
    <3>1. limit' = limit
      BY <2>1, <2>2
    <3> QED
      BY <1>2, <1>4, <2>1, <2>2, <3>1
  <2>3. CASE limit[p] # NoLimit
    <3> DEFINE m == [limit[p] EXCEPT !.reserved = @ - a]
    <3>1. /\ m \in LimitRecord /\ m.current = limit[p].current + 0
          /\ m.maximum = limit[p].maximum /\ m.reserved = limit[p].reserved - a
      BY <1>2, <1>3, <2>3 DEF LimitRecord
    <3>2. limit' = [limit EXCEPT ![p] = m]
      BY <1>2, <1>3, <2>1, <2>3 DEF LimitRecord
    <3> HIDE DEF m
    <3>3. /\ limit'[p] = m /\ \A q \in Parties \ {p} : limit'[q] = limit[q]
          /\ limit' \in [Parties -> {NoLimit} \cup LimitRecord]
      BY <1>2, <3>1, <3>2
    <3> QED
      BY <1>2, <1>4, <2>1, <2>3, <3>1, <3>3
  <2> QED
    BY <2>2, <2>3
<1> QED
  BY <1>5, <1>6

(* Every step keeps the invariant. *)
LEMMA ClearingSteps == ClearingInv /\ [ClearingNext]_cvars => ClearingInv'
<1> SUFFICES ASSUME ClearingInv, [ClearingNext]_cvars PROVE ClearingInv'
  OBVIOUS
<1>1. ClearingTypeOK /\ HouseInv /\ CyclesNet /\ ItemsCarry /\ LimitsInv /\ ItemsTypeOK
  BY ClearingParts DEF ClearingInv
<1>2. ASSUME NEW o \in Obligations, BeginIngestion(o) PROVE ClearingInv'
  <2>1. /\ o \notin ingested /\ validating' = validating \cup {o}
        /\ UNCHANGED <<unnetted, ingested, cycle, volume>>
        /\ UNCHANGED <<compressed, items, limit, reservation>>
    BY <1>2 DEF BeginIngestion
  <2>2. validating' \subseteq Obligations /\ validating' \cap ingested = {}
    BY <1>1, <2>1 DEF ClearingTypeOK, CyclesNet
  <2>3. HouseTypeOK' /\ HouseInv'
    BY <1>1, <2>1, <2>2, OtherHouse
  <2> QED
    BY <2>1, <2>3, HouseStep
<1>3. ASSUME NEW o \in Obligations, Ingest(o) PROVE ClearingInv'
  <2>1. UNCHANGED <<compressed, items, limit, reservation>> /\ cycle' = cycle
    BY <1>3 DEF Ingest
  <2> QED
    BY <1>1, <1>3, <2>1, IngestHouse, HouseStep
<1>4. cycle \in [Cycles -> [state : {"new", "started", "netted", "done"},
                           batch : SUBSET Obligations, net : SUBSET NetObligation]]
  BY <1>1 DEF ClearingTypeOK
<1>5. ASSUME NEW c \in Cycles, TriggerNettingCycle(c) PROVE ClearingInv'
  <2>1. UNCHANGED <<compressed, items, limit, reservation>>
        /\ \A d \in Cycles : cycle[d].state = "done" => cycle'[d] = cycle[d]
    BY <1>4, <1>5 DEF TriggerNettingCycle
  <2> QED
    BY <1>1, <1>5, <2>1, TriggerHouse, HouseStep
<1>6. ASSUME NEW c \in Cycles, Net(c) PROVE ClearingInv'
  <2>1. UNCHANGED <<compressed, items, limit, reservation>>
        /\ \A d \in Cycles : cycle[d].state = "done" => cycle'[d] = cycle[d]
    BY <1>4, <1>6 DEF Net
  <2> QED
    BY <1>1, <1>6, <2>1, NetHouse, HouseStep
<1>7. ASSUME NEW c \in Cycles, Finish(c) PROVE ClearingInv'
  <2>1. UNCHANGED <<compressed, items, limit, reservation>>
        /\ \A d \in Cycles : cycle[d].state = "done" => cycle'[d] = cycle[d]
    BY <1>4, <1>7 DEF Finish
  <2> QED
    BY <1>1, <1>7, <2>1, FinishHouse, HouseStep
<1>8. ASSUME CompressFinished PROVE ClearingInv'
  <2>1. UNCHANGED house /\ UNCHANGED <<limit, reservation>> /\ items \subseteq items'
    BY <1>8 DEF CompressFinished
  <2>2. LimitsInv'
    BY <1>1, <2>1, OtherLimits
  <2>3. ItemsTypeOK' /\ ItemsCarry'
    BY <1>1, <1>8, CompressItems
  <2> QED
    BY <2>1, <2>2, <2>3, DeskStep
<1>9. ASSUME NEW p \in Parties, NEW l \in Limits, SetLimit(p, l) PROVE ClearingInv'
  <2>1. UNCHANGED house /\ UNCHANGED <<house, compressed, items>>
    BY <1>9 DEF SetLimit
  <2>2. LimitsInv'
    BY <1>1, <1>9, SetLimitInv DEF ItemsTypeOK
  <2> QED
    BY <2>1, <2>2, ItemsStay, DeskStep
<1>10. ASSUME NEW i \in items, ReserveCapacity(i) PROVE ClearingInv'
  <2>1. UNCHANGED house /\ UNCHANGED <<house, compressed, items>>
    BY <1>10 DEF ReserveCapacity
  <2>2. LimitsInv'
    BY <1>1, <1>10, ReserveCapacityInv DEF ItemsTypeOK
  <2> QED
    BY <2>1, <2>2, ItemsStay, DeskStep
<1>11. ASSUME NEW r \in reservation, ConfirmCapacity(r) \/ ReleaseCapacity(r) PROVE ClearingInv'
  BY <1>11, CloseSteps
<1>12. CASE UNCHANGED cvars
  <2>1. UNCHANGED house /\ UNCHANGED <<compressed, items, limit, reservation>>
    BY <1>12 DEF cvars
  <2>2. LimitsInv'
    BY <1>1, <2>1, OtherLimits
  <2> QED
    BY <2>1, <2>2, ItemsStay, DeskStep
<1> QED
  BY <1>2, <1>3, <1>5, <1>6, <1>7, <1>8, <1>9, <1>10, <1>11, <1>12 DEF ClearingNext

(* What a party is owed and owes is a sum over some of the obligations. *)
LEMMA OwedIsSum ==
  ASSUME NEW S \in SUBSET Obligations, NEW p
  PROVE  /\ Owed(S, p) = Sum(S \cap {o \in Obligations : o.destination = p})
         /\ Owing(S, p) = Sum(S \cap {o \in Obligations : o.source = p})
<1>1. /\ {x \in S : x.destination = p} = S \cap {o \in Obligations : o.destination = p}
      /\ {x \in S : x.source = p} = S \cap {o \in Obligations : o.source = p}
  OBVIOUS
<1> QED
  BY <1>1 DEF Owed, Owing

(* Cycles are new, under way, or netted, and only the last two have batches. *)
LEMMA CyclesSplit ==
  ASSUME ClearingTypeOK, CyclesNet, NEW f, \A c \in Cycles : f[c] \in Nat,
         \A c \in Cycles : cycle[c].batch = {} => f[c] = 0
  PROVE  /\ Total(f, CyclesIn({"started"})) \in Nat /\ Total(f, CyclesIn({"netted", "done"})) \in Nat
         /\ Total(f, Cycles) =
              Total(f, CyclesIn({"started"})) + Total(f, CyclesIn({"netted", "done"}))
<1> DEFINE S == CyclesIn({"started"})
           N == CyclesIn({"netted", "done"})
<1>1. S \subseteq Cycles /\ N \subseteq Cycles /\ S \cap N = {}
  BY DEF CyclesIn
<1>2. \A c \in Cycles \ (S \cup N) : cycle[c].state = "new"
  BY DEF CyclesIn, ClearingTypeOK
<1>3. \A c \in Cycles \ (S \cup N) : f[c] = 0
  BY <1>2 DEF CyclesNet
<1> HIDE DEF S, N
<1>4. IsFiniteSet(S) /\ IsFiniteSet(N)
  BY <1>1, FS_Subset, ClearingAssumption
<1>5. (\A c \in S : f[c] \in Nat) /\ (\A c \in N : f[c] \in Nat) /\ \A c \in S \cup N : f[c] \in Nat
  BY <1>1
<1>6. Total(f, S) \in Nat /\ Total(f, N) \in Nat
  BY <1>4, <1>5, TotalType
<1>7. Total(f, S \cup N) = Total(f, S) + Total(f, N)
  BY <1>1, <1>4, <1>5, TotalUnion
<1>8. S \cup N \in SUBSET Cycles
  BY <1>1
<1>9. Total(f, Cycles) = Total(f, S \cup N)
  BY <1>3, <1>8, TotalPositive
<1> QED
  BY <1>6, <1>7, <1>9 DEF S, N

(* Netted cycles were compressed or not. *)
LEMMA NettedSplit ==
  ASSUME ItemsCarry, NEW f, \A c \in Cycles : f[c] \in Nat
  PROVE  /\ Total(f, compressed) \in Nat /\ Total(f, CyclesIn({"netted", "done"}) \ compressed) \in Nat
         /\ Total(f, CyclesIn({"netted", "done"})) =
              Total(f, CyclesIn({"netted", "done"}) \ compressed) + Total(f, compressed)
<1> DEFINE N == CyclesIn({"netted", "done"})
           K == compressed
           M == N \ K
<1>1. K \subseteq N /\ N \subseteq Cycles
  BY DEF ItemsCarry, CyclesIn
<1> HIDE DEF N, K
<1>2. M \cap K = {} /\ M \cup K = N /\ M \subseteq Cycles /\ K \subseteq Cycles
  BY <1>1
<1> HIDE DEF M
<1>3. IsFiniteSet(M) /\ IsFiniteSet(K)
  BY <1>2, FS_Subset, ClearingAssumption
<1>4. (\A c \in M : f[c] \in Nat) /\ (\A c \in K : f[c] \in Nat) /\ \A c \in M \cup K : f[c] \in Nat
  BY <1>2
<1>5. Total(f, M) \in Nat /\ Total(f, K) \in Nat
  BY <1>3, <1>4, TotalType
<1>6. Total(f, M \cup K) = Total(f, M) + Total(f, K)
  BY <1>2, <1>3, <1>4, TotalUnion
<1> QED
  BY <1>2, <1>5, <1>6 DEF M, K, N

(* Every party's position is preserved. *)
LEMMA PositionsFollow == ClearingInv => PositionsPreserved
<1> SUFFICES ASSUME ClearingInv, \A c \in Cycles : \A o \in cycle[c].batch : o.source # o.destination,
                    NEW p \in Parties
             PROVE  Receivable(p) - Payable(p) = Owed(ingested, p) - Owing(ingested, p)
  BY DEF PositionsPreserved
<1>1. ClearingTypeOK /\ CyclesNet /\ NothingIsLost /\ ItemsCarry
  BY DEF ClearingInv
<1> DEFINE Qd == {o \in Obligations : o.destination = p}
           Qs == {o \in Obligations : o.source = p}
           B == [c \in Cycles |-> Owed(cycle[c].batch, p)]
           D == [c \in Cycles |-> Owing(cycle[c].batch, p)]
           N == [c \in Cycles |-> Owed(cycle[c].net, p)]
           M == [c \in Cycles |-> Owing(cycle[c].net, p)]
           X == CyclesIn({"netted", "done"})
           Y == CyclesIn({"started"})
<1>2. ingested \in SUBSET Obligations /\ unnetted \in SUBSET Obligations
      /\ \A c \in Cycles : cycle[c].batch \in SUBSET Obligations
  BY <1>1 DEF ClearingTypeOK
<1>3. Qd \in SUBSET Obligations /\ Qs \in SUBSET Obligations
  OBVIOUS
<1>4. /\ Sum(ingested \cap Qd) \in Nat /\ Sum(unnetted \cap Qd) \in Nat /\ Sum({} \cap Qd) = 0
      /\ \A c \in Cycles : BatchOf(c, Qd) \in Nat
      /\ Sum(ingested \cap Qs) \in Nat /\ Sum(unnetted \cap Qs) \in Nat /\ Sum({} \cap Qs) = 0
      /\ \A c \in Cycles : BatchOf(c, Qs) \in Nat
  BY <1>1, <1>3, SumsOf
<1>5. /\ Sum(ingested \cap Qd) = Sum(unnetted \cap Qd) + Total([c \in Cycles |-> BatchOf(c, Qd)], Cycles)
      /\ Sum(ingested \cap Qs) = Sum(unnetted \cap Qs) + Total([c \in Cycles |-> BatchOf(c, Qs)], Cycles)
  BY <1>1, <1>3 DEF NothingIsLost
<1>6. /\ Owed(ingested, p) = Sum(ingested \cap Qd) /\ Owing(ingested, p) = Sum(ingested \cap Qs)
      /\ Owed(unnetted, p) = Sum(unnetted \cap Qd) /\ Owing(unnetted, p) = Sum(unnetted \cap Qs)
  BY <1>2, OwedIsSum
<1>7. \A c \in Cycles : B[c] = BatchOf(c, Qd) /\ D[c] = BatchOf(c, Qs)
  <2> SUFFICES ASSUME NEW c \in Cycles
               PROVE  B[c] = BatchOf(c, Qd) /\ D[c] = BatchOf(c, Qs)
    OBVIOUS
  <2>1. cycle[c].batch \in SUBSET Obligations
    BY <1>2
  <2>2. /\ Owed(cycle[c].batch, p) = Sum(cycle[c].batch \cap Qd)
        /\ Owing(cycle[c].batch, p) = Sum(cycle[c].batch \cap Qs)
    BY <2>1, OwedIsSum
  <2>3. B[c] = Owed(cycle[c].batch, p) /\ D[c] = Owing(cycle[c].batch, p)
    OBVIOUS
  <2> QED
    BY <2>2, <2>3 DEF BatchOf
<1>8. \A c \in Cycles : cycle[c].batch = {} => B[c] = 0 /\ D[c] = 0
  BY <1>4, <1>7 DEF BatchOf
<1>9. \A c \in Cycles : N[c] \in Nat /\ M[c] \in Nat
  BY <1>1, NetsAreFinite
<1>10. \A c \in X : c \in Cycles /\ B[c] + M[c] = D[c] + N[c]
  <2> SUFFICES ASSUME NEW c \in X PROVE c \in Cycles /\ B[c] + M[c] = D[c] + N[c]
    OBVIOUS
  <2>1. c \in Cycles /\ cycle[c].state \in {"netted", "done"}
    BY DEF CyclesIn
  <2>2. PICK rank \in Rankings : cycle[c].net = NetObligations(cycle[c].batch, rank)
    BY <1>1, <2>1 DEF CyclesNet
  <2>3. cycle[c].batch \in SUBSET Obligations /\ \A o \in cycle[c].batch : o.source # o.destination
    BY <1>2, <2>1
  <2> DEFINE S == cycle[c].batch
  <2>4. S \in SUBSET Obligations /\ (\A o \in S : o.source # o.destination)
        /\ cycle[c].net = NetObligations(S, rank)
    BY <2>2, <2>3
  <2>5. B[c] = Owed(S, p) /\ D[c] = Owing(S, p)
    BY <2>1
  <2> HIDE DEF S
  <2>6. Owed(S, p) + Owing(NetObligations(S, rank), p) = Owing(S, p) + Owed(NetObligations(S, rank), p)
    BY <2>4, NettingPreserves
  <2> QED
    BY <2>1, <2>4, <2>5, <2>6
<1>11. /\ Total(B, Cycles) = Total([c \in Cycles |-> BatchOf(c, Qd)], Cycles)
       /\ Total(D, Cycles) = Total([c \in Cycles |-> BatchOf(c, Qs)], Cycles)
       /\ \A c \in Cycles : B[c] \in Nat /\ D[c] \in Nat
  <2> DEFINE f == [c \in Cycles |-> BatchOf(c, Qd)]
             g == [c \in Cycles |-> BatchOf(c, Qs)]
  <2>1. \A c \in Cycles : B[c] = f[c] /\ D[c] = g[c]
    BY <1>7
  <2>2. \A c \in Cycles : B[c] \in Nat /\ D[c] \in Nat
    BY <1>4, <1>7
  <2> HIDE DEF f, g, B, D
  <2>3. Total(B, Cycles) = Total(f, Cycles) /\ Total(D, Cycles) = Total(g, Cycles)
    BY <2>1, TotalSame
  <2> QED
    BY <2>2, <2>3 DEF f, g
<1>12. /\ ItemsTo(p) = Total(N, compressed) /\ ItemsFrom(p) = Total(M, compressed)
  BY <1>1 DEF ItemsCarry
<1>13. /\ Receivable(p) = Owed(unnetted, p) + Total(B, Y) + Total(N, X \ compressed) + ItemsTo(p)
       /\ Payable(p) = Owing(unnetted, p) + Total(D, Y) + Total(M, X \ compressed) + ItemsFrom(p)
  BY DEF Receivable, Payable, ItemsTo, ItemsFrom
<1>14. X \in SUBSET Cycles /\ IsFiniteSet(X)
  <2>1. X \in SUBSET Cycles
    BY DEF CyclesIn
  <2> HIDE DEF X
  <2> QED
    BY <2>1, FS_Subset, ClearingAssumption
<1> HIDE DEF B, D, N, M
<1>15. /\ Total(B, Y) \in Nat /\ Total(B, X) \in Nat /\ Total(B, Cycles) = Total(B, Y) + Total(B, X)
       /\ Total(D, Y) \in Nat /\ Total(D, X) \in Nat /\ Total(D, Cycles) = Total(D, Y) + Total(D, X)
  <2>1. \A c \in Cycles : cycle[c].batch = {} => B[c] = 0
    BY <1>8
  <2>2. \A c \in Cycles : cycle[c].batch = {} => D[c] = 0
    BY <1>8
  <2>3. (\A c \in Cycles : B[c] \in Nat) /\ \A c \in Cycles : D[c] \in Nat
    BY <1>11
  <2>4. Total(B, Y) \in Nat /\ Total(B, X) \in Nat /\ Total(B, Cycles) = Total(B, Y) + Total(B, X)
    BY <1>1, <2>1, <2>3, CyclesSplit
  <2>5. Total(D, Y) \in Nat /\ Total(D, X) \in Nat /\ Total(D, Cycles) = Total(D, Y) + Total(D, X)
    BY <1>1, <2>2, <2>3, CyclesSplit
  <2> QED
    BY <2>4, <2>5
<1>16. /\ Total(N, compressed) \in Nat /\ Total(N, X \ compressed) \in Nat
       /\ Total(N, X) = Total(N, X \ compressed) + Total(N, compressed)
       /\ Total(M, compressed) \in Nat /\ Total(M, X \ compressed) \in Nat
       /\ Total(M, X) = Total(M, X \ compressed) + Total(M, compressed)
  BY <1>1, <1>9, NettedSplit
<1> HIDE DEF X, Y
<1>17. Total(B, X) + Total(M, X) = Total(D, X) + Total(N, X)
  <2> DEFINE h == [c \in X |-> B[c] + M[c]]
  <2>1. \A c \in X : /\ B[c] \in Nat /\ M[c] \in Nat /\ D[c] \in Nat /\ N[c] \in Nat
                     /\ h[c] = B[c] + M[c] /\ h[c] = D[c] + N[c]
    BY <1>9, <1>10, <1>11
  <2> HIDE DEF h
  <2>2. Total(h, X) = Total(B, X) + Total(M, X)
    BY <1>14, <2>1, TotalPlus
  <2>3. Total(h, X) = Total(D, X) + Total(N, X)
    BY <1>14, <2>1, TotalPlus
  <2> QED
    BY <2>2, <2>3
<1> DEFINE b1 == Total(B, Y)
           b2 == Total(B, X)
           d1 == Total(D, Y)
           d2 == Total(D, X)
           n1 == Total(N, X \ compressed)
           n2 == Total(N, compressed)
           m1 == Total(M, X \ compressed)
           m2 == Total(M, compressed)
           u1 == Owed(unnetted, p)
           u2 == Owing(unnetted, p)
<1>18. /\ b1 \in Nat /\ b2 \in Nat /\ d1 \in Nat /\ d2 \in Nat
       /\ n1 \in Nat /\ n2 \in Nat /\ m1 \in Nat /\ m2 \in Nat /\ u1 \in Nat /\ u2 \in Nat
       /\ b2 + (m1 + m2) = d2 + (n1 + n2)
  BY <1>4, <1>6, <1>15, <1>16, <1>17
<1>19. /\ Owed(ingested, p) = u1 + (b1 + b2) /\ Owing(ingested, p) = u2 + (d1 + d2)
  BY <1>5, <1>6, <1>11, <1>15
<1>20. /\ Receivable(p) = u1 + b1 + n1 + n2 /\ Payable(p) = u2 + d1 + m1 + m2
  BY <1>12, <1>13
<1> HIDE DEF b1, b2, d1, d2, n1, n2, m1, m2, u1, u2
<1>21. (u1 + b1 + n1 + n2) - (u2 + d1 + m1 + m2) = (u1 + (b1 + b2)) - (u2 + (d1 + d2))
  BY <1>18
<1> QED
  BY <1>19, <1>20, <1>21

(* What a cycle finds is reduced: nobody pays and is paid. *)
LEMMA ReductionFollows == ClearingInv => PayersNeverReceive
<1> SUFFICES ASSUME ClearingInv, NEW c \in Cycles
             PROVE  LET net == cycle[c].net
                        payers == {n.source : n \in net}
                        payees == {n.destination : n \in net}
                    IN  /\ payers \cap payees = {}
                        /\ net = {} \/ Cardinality(net) < Cardinality(payers \cup payees)
  BY DEF PayersNeverReceive
<1>1. CyclesNet /\ cycle[c].batch \in SUBSET Obligations
      /\ cycle[c].state \in {"new", "started", "netted", "done"}
  BY DEF ClearingInv, ClearingTypeOK
<1>2. CASE cycle[c].state \in {"new", "started"}
  <2>1. cycle[c].net = {}
    BY <1>1, <1>2 DEF CyclesNet
  <2> QED
    BY <2>1
<1>3. CASE cycle[c].state \in {"netted", "done"}
  <2>1. PICK rank \in Rankings : cycle[c].net = NetObligations(cycle[c].batch, rank)
    BY <1>1, <1>3 DEF CyclesNet
  <2> DEFINE S == cycle[c].batch
  <2>2. S \in SUBSET Obligations /\ cycle[c].net = NetObligations(S, rank)
    BY <1>1, <2>1
  <2> HIDE DEF S
  <2>3. LET net == NetObligations(S, rank)
            payers == {n.source : n \in net}
            payees == {n.destination : n \in net}
        IN  /\ payers \cap payees = {}
            /\ net = {} \/ Cardinality(net) < Cardinality(payers \cup payees)
    BY <2>2, FewerPayments
  <2> QED
    BY <2>2, <2>3
<1> QED
  BY <1>1, <1>2, <1>3

(* What was netted is worth no more than what was taken in. *)
LEMMA VolumeFollows == ClearingInv => VolumeNeverGrows
<1> SUFFICES ASSUME ClearingInv PROVE VolumeNeverGrows
  OBVIOUS
<1>1. ClearingTypeOK /\ CyclesNet /\ NothingIsLost /\ VolumesAddUp
  BY DEF ClearingInv
<1> DEFINE f == [c \in Cycles |-> NetOf(c)]
           g == [c \in Cycles |-> BatchOf(c, Obligations)]
           X == CyclesIn({"done"})
<1>2. X \in SUBSET Cycles
  BY DEF CyclesIn
<1>3. \A c \in Cycles : f[c] \in Nat /\ g[c] \in Nat /\ f[c] <= g[c]
  <2> SUFFICES ASSUME NEW c \in Cycles PROVE f[c] \in Nat /\ g[c] \in Nat /\ f[c] <= g[c]
    OBVIOUS
  <2>1. NetOf(c) \in Nat /\ NetOf(c) <= Sum(cycle[c].batch)
        /\ cycle[c].batch \in SUBSET Obligations
    BY <1>1, NetsAreFinite
  <2>2. cycle[c].batch \cap Obligations = cycle[c].batch
    BY <2>1
  <2>3. BatchOf(c, Obligations) = Sum(cycle[c].batch) /\ BatchOf(c, Obligations) \in Nat
    BY <1>1, <2>2, SumsOf DEF BatchOf
  <2> QED
    BY <2>1, <2>3
<1>4. /\ Sum(ingested \cap Obligations) = Sum(unnetted \cap Obligations) + Total(g, Cycles)
      /\ Sum(unnetted \cap Obligations) \in Nat
  BY <1>1, SumsOf DEF NothingIsLost
<1>5. ingested \cap Obligations = ingested
  BY <1>1 DEF ClearingTypeOK
<1>6. volume.gross = Sum(ingested) /\ volume.net = Total(f, X)
  BY <1>1 DEF VolumesAddUp
<1>7. VolumeNeverGrows <=> volume.net <= volume.gross /\ volume.net = Total(f, X)
  BY DEF VolumeNeverGrows, NetOf
<1> HIDE DEF f, g, X
<1>8. IsFiniteSet(Cycles) /\ \A c \in Cycles : f[c] \in Nat
  BY <1>3, ClearingAssumption
<1>9. Total(f, X) <= Total(f, Cycles)
  BY <1>2, <1>8, TotalSubset
<1>10. Total(f, Cycles) <= Total(g, Cycles)
  BY <1>3, <1>8, TotalMonotone
<1>11. IsFiniteSet(X) /\ \A c \in X : f[c] \in Nat
  BY <1>2, <1>8, FS_Subset
<1>12. Total(f, X) \in Nat /\ Total(f, Cycles) \in Nat /\ Total(g, Cycles) \in Nat
  BY <1>3, <1>8, <1>11, TotalType
<1> DEFINE x == Total(f, X)
           y == Total(f, Cycles)
           z == Total(g, Cycles)
           u == Sum(unnetted \cap Obligations)
<1>13. x \in Nat /\ y \in Nat /\ z \in Nat /\ u \in Nat /\ x <= y /\ y <= z
  BY <1>4, <1>9, <1>10, <1>12
<1>14. volume.gross = u + z /\ volume.net = x
  BY <1>4, <1>5, <1>6
<1> HIDE DEF x, y, z, u
<1>15. x <= u + z
  BY <1>13
<1> QED
  BY <1>6, <1>7, <1>14, <1>15 DEF x

(* The invariant holds throughout. *)
THEOREM ClearingHolds == ClearingSpec => []ClearingInv
<1>1. ClearingInit => ClearingInv
  BY ClearingStarts
<1>2. ClearingInv /\ [ClearingNext]_cvars => ClearingInv'
  BY ClearingSteps
<1> QED
  BY <1>1, <1>2, PTL DEF ClearingSpec

(* Whatever overlaps, every party's position in the house is that of all    *)
(* the obligations that were taken in, so long as none that was netted is   *)
(* owed to oneself.                                                         *)
THEOREM PositionsStayPreserved == ClearingSpec => []PositionsPreserved
BY ClearingHolds, PositionsFollow, PTL

(* After a cycle nobody pays and is paid, there are fewer payments than     *)
(* parties, and netting added no volume: for every batch, and every order   *)
(* of parties of equal amounts.                                             *)
THEOREM CyclesAlwaysReduce == ClearingSpec => []CyclesReduce
<1>1. ClearingInv => CyclesReduce
  BY ReductionFollows, VolumeFollows DEF CyclesReduce, ClearingInv
<1> QED
  BY <1>1, ClearingHolds, PTL

(* The books of a limit are its reservations, and within the maximum, where *)
(* nothing was granted before it was set.                                   *)
THEOREM LimitsAreKept == ClearingSpec => []LimitKept
<1>1. ClearingInv => LimitKept
  BY DEF ClearingInv
<1> QED
  BY <1>1, ClearingHolds, PTL

===============================================================================
