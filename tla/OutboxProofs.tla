---------------------------- MODULE OutboxProofs ----------------------------
(***************************************************************************)
(* Proofs about Outbox, for any number of writers, polls, handlers and     *)
(* faults, about PaymentApi, and about RemittanceApp with its gateway:     *)
(* what is sent twice, and what runs once.                                 *)
(*                                                                         *)
(* The fetch takes rows by how many pending ones are older, so the first   *)
(* section counts: rows created at different times have all ranks from 0   *)
(* on, one row each.  The invariant ties each row to its unit of work, and *)
(* each poll's batch to what was pending when it fetched.  The payment     *)
(* API's counts the calls that a token was spent on, and ties each key to  *)
(* the one call that took it.  The application's says which exchanges a    *)
(* page waits for, and that a quote on show whose transfer is not under    *)
(* way and was not reported as failed was never transferred.               *)
(***************************************************************************)
EXTENDS Outbox, PaymentApi, RemittanceApp, FiniteSetTheorems, TLAPS

-----------------------------------------------------------------------------
(* Sets of rows ordered by the time they were created. *)

\* Rows that are numbered apart by their creation.
Stamped(rows) ==
  /\ IsFiniteSet(rows)
  /\ \A r \in rows : r.created \in Nat
  /\ \A r, s \in rows : r.created = s.created => r = s

Rank(r, rows) == Cardinality(Earlier(r, rows))

LEMMA RankType ==
  ASSUME NEW rows, Stamped(rows), NEW r \in rows
  PROVE  /\ Rank(r, rows) \in Nat /\ Rank(r, rows) < Cardinality(rows)
         /\ IsFiniteSet(Earlier(r, rows)) /\ Cardinality(rows) \in Nat
<1>1. Earlier(r, rows) \subseteq rows /\ r \notin Earlier(r, rows)
  BY DEF Earlier, Stamped
<1> QED
  BY <1>1, FS_Subset, FS_CardinalityType DEF Rank, Stamped

(* An older row has the lower rank. *)
LEMMA RankIsMonotone ==
  ASSUME NEW rows, Stamped(rows), NEW r \in rows, NEW s \in rows, r.created < s.created
  PROVE  Rank(r, rows) < Rank(s, rows)
<1>1. Earlier(r, rows) \subseteq Earlier(s, rows)
  BY DEF Earlier, Stamped
<1>2. r \in Earlier(s, rows) /\ r \notin Earlier(r, rows)
  BY DEF Earlier, Stamped
<1>3. /\ IsFiniteSet(Earlier(s, rows)) /\ Rank(r, rows) \in Nat /\ Rank(s, rows) \in Nat
  BY RankType
<1> HIDE DEF Earlier
<1>4. /\ Cardinality(Earlier(r, rows)) <= Cardinality(Earlier(s, rows))
      /\ Cardinality(Earlier(s, rows)) = Cardinality(Earlier(r, rows)) => Earlier(s, rows) = Earlier(r, rows)
  BY <1>1, <1>3, FS_Subset
<1> QED
  BY <1>2, <1>3, <1>4 DEF Rank

LEMMA RankIsInjective ==
  ASSUME NEW rows, Stamped(rows), NEW r \in rows, NEW s \in rows, Rank(r, rows) = Rank(s, rows)
  PROVE  r = s
<1>1. CASE r.created < s.created
  BY <1>1, RankIsMonotone, RankType
<1>2. CASE s.created < r.created
  BY <1>2, RankIsMonotone, RankType
<1> QED
  BY <1>1, <1>2 DEF Stamped

(* Every rank is some row's: an injection into a set of the same size is onto. *)
LEMMA RankExists ==
  ASSUME NEW rows, Stamped(rows), NEW i \in 1..Cardinality(rows)
  PROVE  \E r \in rows : Rank(r, rows) = i - 1
<1> DEFINE n == Cardinality(rows)
           ranks == 0..(n - 1)
           f == [r \in rows |-> Rank(r, rows)]
<1>1. n \in Nat /\ IsFiniteSet(rows)
  BY FS_CardinalityType DEF Stamped
<1>2. f \in [rows -> ranks]
  BY <1>1, RankType
<1>3. f \in Injection(rows, ranks)
  BY <1>2, RankIsInjective DEF Injection, IsInjective
<1>4. IsFiniteSet(ranks) /\ Cardinality(ranks) = n
  <2>1. n - 1 \in Int /\ 0 \in Int /\ n = (IF 0 > n - 1 THEN 0 ELSE (n - 1) - 0 + 1)
    BY <1>1
  <2> HIDE DEF n
  <2> QED
    BY <2>1, FS_Interval
<1>5. f \in Surjection(rows, ranks)
  BY <1>3, <1>4, FS_Injection
<1>6. i - 1 \in ranks
  BY <1>1
<1> QED
  BY <1>5, <1>6 DEF Surjection

-----------------------------------------------------------------------------
(* The inductive invariant. *)

\* What a unit of work has written so far, and when.
WriterFacts ==
  /\ \A w \in Writers : work[w].state \in {"saved", "boxed"} => work[w].journal
  /\ \A w \in Writers : work[w].state = "boxed" => work[w].created # None
  /\ \A w \in Writers : work[w].created # None => work[w].created < clock
  /\ \A v, w \in Writers : work[v].created # None /\ work[v].created = work[w].created => v = w

\* A row is of a unit of work that has ended, and each has one at most.
RowFacts ==
  /\ IsFiniteSet(outbox)
  /\ \A r \in outbox :
       work[r.event].state \in {"committed", "failed"} /\ r.created = work[r.event].created
  /\ \A r, s \in outbox : r.event = s.event => r = s

Reached(e) == (\A c \in Handlers : <<c, e>> \in received) \/ e \in deadLetters \cup forgotten

\* Whatever is pending, older than an event of the batch and was committed before
\* the fetch stands before it in the batch, or the poll has finished with it.
InOrder(p) ==
  \A i \in 1..Len(poll[p].batch) : \A s \in outbox : s.event = poll[p].batch[i] =>
    \A r \in Earlier(s, PendingRows) :
      r.committed < poll[p].seen =>
        r.event \in poll[p].done \/ \E j \in 1..(i - 1) : poll[p].batch[j] = r.event

\* What a poll has finished with reached everyone, and of what it is at the
\* handlers before the one it turns to know.
PollFacts(p) ==
  /\ poll[p].seen <= Cardinality(outbox)
  /\ \A e \in poll[p].done : Reached(e)
  /\ \A i \in 1..Len(poll[p].batch) : poll[p].batch[i] \in journals
  /\ \A c \in Handlers :
       poll[p].batch # <<>> /\ c < poll[p].consumer => <<c, poll[p].batch[1]>> \in received
  /\ InOrder(p)

OutboxInv ==
  /\ OutboxAgrees /\ ProcessedReachedEveryone
  /\ WriterFacts /\ RowFacts /\ \A p \in Polls : PollFacts(p)

-----------------------------------------------------------------------------
LEMMA RowParts ==
  ASSUME TypeOK, NEW r \in outbox
  PROVE  /\ r.event \in Writers /\ r.created \in Nat /\ r.committed \in Nat
         /\ r.status \in {"PENDING", "PROCESSED"} /\ r \in Row
BY DEF TypeOK, Row

LEMMA WorkParts ==
  ASSUME TypeOK, NEW w \in Writers
  PROVE  /\ work[w].state \in {"new", "begun", "saved", "boxed", "aborting", "committed", "failed"}
         /\ work[w].journal \in BOOLEAN /\ work[w].created \in Nat \cup {None}
BY DEF TypeOK

LEMMA PollParts ==
  ASSUME TypeOK, NEW p \in Polls
  PROVE  /\ poll[p] \in Pollings
         /\ poll[p].state \in {"idle", "busy"} /\ poll[p].batch \in Seq(Writers)
         /\ poll[p].done \subseteq Writers /\ poll[p].attempt \in 0..MaxRetries
         /\ poll[p].consumer \in Handlers \cup {1} /\ poll[p].seen \in Nat
BY DEF TypeOK, Pollings

(* The pending rows, which a fetch orders, were created at different times. *)
LEMMA PendingIsStamped ==
  ASSUME OutboxInv
  PROVE  Stamped(PendingRows)
<1>1. IsFiniteSet(PendingRows)
  <2>1. PendingRows \subseteq outbox
    BY DEF PendingRows
  <2> QED
    BY <2>1, FS_Subset DEF OutboxInv, RowFacts
<1>2. ASSUME NEW r \in PendingRows, NEW s \in PendingRows
      PROVE  r.created \in Nat /\ (r.created = s.created => r = s)
  <2>1. /\ r \in outbox /\ s \in outbox /\ TypeOK
        /\ r.created = work[r.event].created /\ s.created = work[s.event].created
        /\ r.event = s.event => r = s
    BY DEF PendingRows, OutboxInv, OutboxAgrees, RowFacts
  <2>2. r.event \in Writers /\ s.event \in Writers /\ r.created \in Nat
    BY <2>1, RowParts
  <2> QED
    BY <2>1, <2>2, OutboxAssumption DEF OutboxInv, WriterFacts
<1> QED
  BY <1>1, <1>2 DEF Stamped

(* A fetch takes the pending events by their rank. *)
LEMMA FetchByRank ==
  ASSUME OutboxInv
  PROVE  /\ Fetched \in Nat /\ FetchPendingEvents \in Seq(Writers)
         /\ Len(FetchPendingEvents) = Fetched
         /\ \A i \in 1..Fetched : \E r \in PendingRows :
              Rank(r, PendingRows) = i - 1 /\ FetchPendingEvents[i] = r.event
<1>1. Stamped(PendingRows)
  BY PendingIsStamped
<1>2. /\ Limit \in Nat /\ Cardinality(PendingRows) \in Nat
  BY <1>1, FS_CardinalityType, OutboxAssumption DEF Stamped
<1>3. Fetched \in Nat /\ Fetched <= Cardinality(PendingRows)
  BY <1>2 DEF Fetched
<1> DEFINE oldest(i) == CHOOSE r \in PendingRows : Rank(r, PendingRows) = i - 1
<1>4. FetchPendingEvents = [i \in 1..Fetched |-> oldest(i).event]
  BY DEF FetchPendingEvents, Rank
<1>5. ASSUME NEW i \in 1..Fetched
      PROVE  oldest(i) \in PendingRows /\ Rank(oldest(i), PendingRows) = i - 1
  <2>1. i \in 1..Cardinality(PendingRows)
    BY <1>2, <1>3
  <2>2. \E r \in PendingRows : Rank(r, PendingRows) = i - 1
    BY <1>1, <2>1, RankExists
  <2> HIDE DEF Rank, PendingRows
  <2> QED
    BY <2>2
<1> HIDE DEF oldest
<1>6. \A i \in 1..Fetched : oldest(i).event \in Writers
  <2>1. PendingRows \subseteq outbox /\ TypeOK
    BY DEF PendingRows, OutboxInv, OutboxAgrees
  <2> QED
    BY <1>5, <2>1, RowParts
<1>7. FetchPendingEvents \in Seq(Writers) /\ Len(FetchPendingEvents) = Fetched
  BY <1>3, <1>4, <1>6
<1> QED
  BY <1>3, <1>4, <1>5, <1>7

(* So a fetched event is preceded in the batch by every older pending one. *)
LEMMA FetchIsInOrder ==
  ASSUME OutboxInv, NEW i \in 1..Fetched, NEW s \in outbox, s.event = FetchPendingEvents[i],
         NEW r \in Earlier(s, PendingRows)
  PROVE  \E j \in 1..(i - 1) : FetchPendingEvents[j] = r.event
<1>1. Stamped(PendingRows) /\ Fetched \in Nat
  BY PendingIsStamped, FetchByRank
<1>2. PICK q \in PendingRows : Rank(q, PendingRows) = i - 1 /\ FetchPendingEvents[i] = q.event
  BY FetchByRank
<1>3. q = s
  BY <1>2 DEF PendingRows, OutboxInv, RowFacts
<1>4. r \in PendingRows /\ r.created < s.created
  BY DEF Earlier
<1>5. Rank(r, PendingRows) \in Nat /\ Rank(r, PendingRows) < i - 1
  BY <1>1, <1>2, <1>3, <1>4, RankType, RankIsMonotone
<1> DEFINE j == Rank(r, PendingRows) + 1
<1>6. j \in 1..(i - 1) /\ j \in 1..Fetched
  BY <1>1, <1>5
<1>7. PICK x \in PendingRows : Rank(x, PendingRows) = j - 1 /\ FetchPendingEvents[j] = x.event
  BY <1>6, FetchByRank
<1>8. x = r
  BY <1>1, <1>4, <1>5, <1>7, RankIsInjective
<1> QED
  BY <1>6, <1>7, <1>8

-----------------------------------------------------------------------------
(* Clients: the units of work that hold one. *)

Holders == {w \in Writers : work[w].state \in {"begun", "saved", "boxed", "aborting"}}

LEMMA HoldersType ==
  ASSUME OutboxInv
  PROVE  /\ IsFiniteSet(Holders) /\ Cardinality(Holders) \in Nat
         /\ free + leaked + Cardinality(Holders) = PoolSize
         /\ free \in Nat /\ leaked \in Nat /\ PoolSize \in Nat
<1>1. IsFiniteSet(Holders) /\ Cardinality(Holders) \in Nat
  <2>1. Holders \subseteq Writers
    BY DEF Holders
  <2> QED
    BY <2>1, OutboxAssumption, FS_Subset, FS_CardinalityType
<1> QED
  BY <1>1, OutboxAssumption DEF OutboxInv, OutboxAgrees, TypeOK, ClientsAccounted, Holders

(* A unit of work that takes a client, and one that gives it back. *)
LEMMA ClientTaken ==
  ASSUME OutboxInv, NEW w \in Writers, w \notin Holders, Holders' = Holders \cup {w},
         free > 0, free' = free - 1, leaked' = leaked
  PROVE  ClientsAccounted' /\ free' \in 0..PoolSize /\ leaked' \in 0..PoolSize
<1>1. Cardinality(Holders') = Cardinality(Holders) + 1
  BY HoldersType, FS_AddElement
<1> HIDE DEF Holders
<1>2. free' + leaked' + Cardinality(Holders') = PoolSize
  BY <1>1, HoldersType
<1>3. free' \in 0..PoolSize /\ leaked' \in 0..PoolSize
  BY HoldersType
<1> QED
  BY <1>2, <1>3 DEF ClientsAccounted, Holders

LEMMA ClientReturned ==
  ASSUME OutboxInv, NEW w \in Holders, Holders' = Holders \ {w},
         free' = free + 1, leaked' = leaked
  PROVE  ClientsAccounted' /\ free' \in 0..PoolSize /\ leaked' \in 0..PoolSize
<1>1. Cardinality(Holders') = Cardinality(Holders) - 1 /\ Cardinality(Holders') \in Nat
  BY HoldersType, FS_RemoveElement, FS_CardinalityType
<1> HIDE DEF Holders
<1>2. free' + leaked' + Cardinality(Holders') = PoolSize
  BY <1>1, HoldersType
<1>3. free' \in 0..PoolSize /\ leaked' \in 0..PoolSize
  BY <1>1, HoldersType
<1> QED
  BY <1>2, <1>3 DEF ClientsAccounted, Holders

-----------------------------------------------------------------------------
(* A step of a writer that commits nothing. *)

LEMMA ReadingStays ==
  ASSUME OutboxInv, UNCHANGED <<reading, outbox, journals>>
  PROVE  /\ JournalWithItsEvent' /\ ProcessedReachedEveryone'
         /\ \A p \in Polls : PollFacts(p)'
BY DEF reading, OutboxInv, OutboxAgrees, JournalWithItsEvent, ProcessedReachedEveryone,
       PollFacts, InOrder, Reached, Earlier, PendingRows

(* The others' units of work stay, and this one's has not ended before. *)
LEMMA RowsStay ==
  ASSUME OutboxInv, NEW w \in Writers, work[w].state \notin {"committed", "failed"},
         \A v \in Writers \ {w} : work'[v] = work[v], outbox' = outbox
  PROVE  RowFacts'
<1>1. \A r \in outbox : r.event \in Writers \ {w} /\ r.event \in Writers
  BY RowParts DEF OutboxInv, OutboxAgrees, RowFacts
<1> QED
  BY <1>1 DEF OutboxInv, RowFacts

LEMMA Enters ==
  ASSUME TypeOK, NEW w \in Writers, NEW from, NEW to, Enter(w, from, to),
         to \in {"begun", "saved", "boxed", "aborting", "committed", "failed"}
  PROVE  /\ work[w].state = from /\ work'[w].state = to
         /\ work'[w].journal = work[w].journal /\ work'[w].created = work[w].created
         /\ \A v \in Writers \ {w} : work'[v] = work[v]
         /\ work' \in [Writers ->
              [state : {"new", "begun", "saved", "boxed", "aborting", "committed", "failed"},
               journal : BOOLEAN, created : Nat \cup {None}]]
<1>1. work \in [Writers ->
        [state : {"new", "begun", "saved", "boxed", "aborting", "committed", "failed"},
         journal : BOOLEAN, created : Nat \cup {None}]]
  BY DEF TypeOK
<1> QED
  BY <1>1 DEF Enter

LEMMA StartStep ==
  ASSUME OutboxInv, NEW w \in Writers, Start(w)
  PROVE  OutboxInv'
<1>1. UNCHANGED <<shape, journals, clock, outbox, reading>> /\ TypeOK
  BY DEF Start, OutboxInv, OutboxAgrees
<1>2. PICK to \in {"begun", "failed"} :
        /\ Enter(w, "new", to)
        /\ \/ to = "begun" /\ free > 0 /\ free' = free - 1 /\ leaked' = leaked /\ faults' = faults
           \/ /\ to = "failed" /\ free > 0 /\ free' = free - 1 /\ leaked' = leaked + 1
              /\ faults < MaxFaults /\ faults' = faults + 1
           \/ to = "failed" /\ free' = free /\ leaked' = leaked /\ faults' = faults
  BY DEF Start, ClientFree, Fault, NoFault
<1>3. /\ work[w].state = "new" /\ work'[w].state = to
      /\ work'[w].journal = work[w].journal /\ work'[w].created = work[w].created
      /\ \A v \in Writers \ {w} : work'[v] = work[v]
      /\ work' \in [Writers ->
              [state : {"new", "begun", "saved", "boxed", "aborting", "committed", "failed"},
               journal : BOOLEAN, created : Nat \cup {None}]]
  BY <1>1, <1>2, Enters
<1>4. ClientsAccounted' /\ free' \in 0..PoolSize /\ leaked' \in 0..PoolSize
  <2>1. CASE to = "begun"
    <3>1. w \notin Holders /\ Holders' = Holders \cup {w}
      BY <1>3, <2>1 DEF Holders
    <3> QED
      BY <1>2, <2>1, <3>1, ClientTaken
  <2>2. CASE to = "failed"
    <3>1. Holders' = Holders
      BY <1>3, <2>2 DEF Holders
    <3>2. free' + leaked' = free + leaked /\ free' \in Nat /\ leaked' \in Nat
      BY <1>2, <2>2, HoldersType
    <3>3. free' + leaked' + Cardinality(Holders') = PoolSize
      BY <3>1, <3>2, HoldersType
    <3> QED
      BY <3>1, <3>2, <3>3, HoldersType DEF ClientsAccounted, Holders
  <2> QED
    BY <2>1, <2>2
<1>5. faults' \in 0..MaxFaults
  BY <1>1, <1>2, OutboxAssumption DEF TypeOK
<1>6. TypeOK'
  BY <1>1, <1>3, <1>4, <1>5 DEF TypeOK, reading
<1>7. WriterFacts'
  BY <1>1, <1>3 DEF OutboxInv, WriterFacts
<1>8. RowFacts'
  BY <1>1, <1>3, RowsStay
<1> QED
  BY <1>1, <1>4, <1>6, <1>7, <1>8, ReadingStays DEF OutboxInv, OutboxAgrees

LEMMA SaveStep ==
  ASSUME OutboxInv, NEW w \in Writers, SaveJournal(w) \/ SaveEvent(w)
  PROVE  OutboxInv'
<1>1. /\ UNCHANGED <<shape, free, leaked, journals, outbox, reading>> /\ TypeOK
      /\ clock' \in Nat /\ clock \in Nat /\ clock <= clock'
      /\ work[w].state \in {"begun", "saved"}
  BY DEF SaveJournal, SaveEvent, OutboxInv, OutboxAgrees, TypeOK
<1>2. faults' \in 0..MaxFaults
  BY <1>1, OutboxAssumption DEF SaveJournal, SaveEvent, Fault, NoFault, TypeOK
<1>3. /\ work' \in [Writers ->
           [state : {"new", "begun", "saved", "boxed", "aborting", "committed", "failed"},
            journal : BOOLEAN, created : Nat \cup {None}]]
      /\ \A v \in Writers \ {w} : work'[v] = work[v]
      /\ work'[w].state \in {"saved", "boxed", "aborting"}
      /\ work'[w].state \in {"saved", "boxed"} => work'[w].journal
      /\ work'[w].state = "boxed" => work'[w].created # None
      /\ work'[w].created = work[w].created \/ (work'[w].created = clock /\ clock' = clock + 1)
  <2>1. work \in [Writers ->
           [state : {"new", "begun", "saved", "boxed", "aborting", "committed", "failed"},
            journal : BOOLEAN, created : Nat \cup {None}]]
    BY <1>1 DEF TypeOK
  <2>2. clock # None /\ (work[w].state = "saved" => work[w].journal)
    BY <1>1, OutboxAssumption DEF OutboxInv, WriterFacts
  <2>3. CASE SaveJournal(w)
    BY <2>1, <2>2, <2>3 DEF SaveJournal
  <2>4. CASE SaveEvent(w)
    BY <2>1, <2>2, <2>4 DEF SaveEvent
  <2> QED
    BY <2>3, <2>4
<1>4. ClientsAccounted'
  <2>1. Holders' = Holders
    BY <1>1, <1>3 DEF Holders
  <2> QED
    BY <1>1, <2>1 DEF OutboxInv, OutboxAgrees, ClientsAccounted, Holders
<1>5. TypeOK'
  BY <1>1, <1>2, <1>3 DEF TypeOK, reading
<1>6. WriterFacts'
  <2>1. \A v \in Writers : work[v].created \in Nat \cup {None} /\ (work[v].created # None => work[v].created < clock)
    BY <1>1, WorkParts DEF OutboxInv, WriterFacts
  <2>2. None \notin Nat
    BY OutboxAssumption
  <2> QED
    BY <1>1, <1>3, <2>1, <2>2 DEF OutboxInv, WriterFacts
<1>7. RowFacts'
  BY <1>1, <1>3, RowsStay
<1> QED
  BY <1>1, <1>4, <1>5, <1>6, <1>7, ReadingStays DEF OutboxInv, OutboxAgrees

LEMMA RollbackStep ==
  ASSUME OutboxInv, NEW w \in Writers, Rollback(w)
  PROVE  OutboxInv'
<1>1. /\ UNCHANGED <<shape, leaked, journals, clock, outbox, reading, faults>> /\ TypeOK
      /\ Enter(w, "aborting", "failed") /\ free' = free + 1
  BY DEF Rollback, OutboxInv, OutboxAgrees
<1>2. /\ work[w].state = "aborting" /\ work'[w].state = "failed"
      /\ work'[w].journal = work[w].journal /\ work'[w].created = work[w].created
      /\ \A v \in Writers \ {w} : work'[v] = work[v]
      /\ work' \in [Writers ->
              [state : {"new", "begun", "saved", "boxed", "aborting", "committed", "failed"},
               journal : BOOLEAN, created : Nat \cup {None}]]
  BY <1>1, Enters
<1>3. ClientsAccounted' /\ free' \in 0..PoolSize /\ leaked' \in 0..PoolSize
  <2>1. w \in Holders /\ Holders' = Holders \ {w}
    BY <1>2 DEF Holders
  <2> QED
    BY <1>1, <2>1, ClientReturned
<1>4. TypeOK'
  BY <1>1, <1>2, <1>3 DEF TypeOK, reading
<1>5. WriterFacts'
  BY <1>1, <1>2 DEF OutboxInv, WriterFacts
<1>6. RowFacts'
  BY <1>1, <1>2, RowsStay
<1> QED
  BY <1>1, <1>3, <1>4, <1>5, <1>6, ReadingStays DEF OutboxInv, OutboxAgrees

-----------------------------------------------------------------------------
(* COMMIT. *)

NewRow(w) ==
  [event |-> w, created |-> work[w].created, committed |-> Cardinality(outbox), status |-> "PENDING"]

(* What becomes visible is the journal with its event, both of them new. *)
LEMMA PersistsBoth ==
  ASSUME OutboxInv, NEW w \in Writers, work[w].state = "boxed", Persist(w)
  PROVE  /\ journals' = journals \cup {w} /\ outbox' = outbox \cup {NewRow(w)}
         /\ w \notin journals /\ NewRow(w) \in Row /\ NewRow(w) \notin outbox
         /\ Cardinality(outbox) \in Nat /\ Cardinality(outbox') = Cardinality(outbox) + 1
         /\ IsFiniteSet(outbox')
<1>1. work[w].journal /\ work[w].created # None /\ work[w].created \in Nat /\ TypeOK
  BY WorkParts DEF OutboxInv, OutboxAgrees, WriterFacts
<1>2. journals' = journals \cup {w} /\ outbox' = outbox \cup {NewRow(w)}
  BY <1>1 DEF Persist, NewRow
<1>3. w \notin journals
  BY DEF OutboxInv, OutboxAgrees, JournalWithItsEvent, RowFacts
<1>4. NewRow(w) \notin outbox
  BY <1>3 DEF NewRow, OutboxInv, OutboxAgrees, JournalWithItsEvent
<1>5. IsFiniteSet(outbox) /\ Cardinality(outbox) \in Nat
  BY FS_CardinalityType DEF OutboxInv, RowFacts
<1>6. NewRow(w) \in Row
  BY <1>1, <1>5 DEF NewRow, Row
<1> HIDE DEF NewRow
<1>7. IsFiniteSet(outbox') /\ Cardinality(outbox') = Cardinality(outbox) + 1
  BY <1>2, <1>4, <1>5, FS_AddElement
<1> QED
  BY <1>2, <1>3, <1>4, <1>5, <1>6, <1>7

(* A row that is committed after a poll's fetch is not in that poll's way. *)
LEMMA PollsSeeNothingNew ==
  ASSUME OutboxInv, NEW w \in Writers, work[w].state = "boxed", Persist(w), UNCHANGED reading,
         NEW p \in Polls
  PROVE  PollFacts(p)'
<1>1. /\ UNCHANGED <<running, poll, received, deadLetters, forgotten>>
      /\ PollFacts(p) /\ TypeOK
  BY DEF reading, OutboxInv, OutboxAgrees
<1>2. /\ journals' = journals \cup {w} /\ outbox' = outbox \cup {NewRow(w)}
      /\ w \notin journals
      /\ Cardinality(outbox) \in Nat /\ Cardinality(outbox') = Cardinality(outbox) + 1
  BY PersistsBoth
<1>3. /\ NewRow(w).event = w /\ NewRow(w).committed = Cardinality(outbox)
  BY DEF NewRow
<1>4. poll[p].seen \in Nat /\ poll[p].seen <= Cardinality(outbox)
  BY <1>1, PollParts DEF PollFacts
<1>5. InOrder(p)'
  <2>1. ASSUME NEW i \in 1..Len(poll[p].batch), NEW s \in outbox', s.event = poll[p].batch[i],
               NEW r \in outbox', r.status = "PENDING", r.created < s.created, r.committed < poll[p].seen
        PROVE  r.event \in poll[p].done \/ \E j \in 1..(i - 1) : poll[p].batch[j] = r.event
    <3>1. s \in outbox
      BY <1>1, <1>2, <1>3, <2>1 DEF PollFacts
    <3>2. r \in outbox
      BY <1>2, <1>3, <1>4, <2>1
    <3> QED
      BY <1>1, <2>1, <3>1, <3>2 DEF PollFacts, InOrder, Earlier, PendingRows
  <2> QED
    BY <1>1, <2>1 DEF InOrder, Earlier, PendingRows
<1> QED
  BY <1>1, <1>2, <1>4, <1>5 DEF PollFacts, Reached

LEMMA CommitStep ==
  ASSUME OutboxInv, NEW w \in Writers, Commit(w)
  PROVE  OutboxInv'
<1>1. /\ UNCHANGED <<shape, leaked, clock, reading>> /\ free' = free + 1 /\ TypeOK
  BY DEF Commit, OutboxInv, OutboxAgrees
<1>2. PICK to \in {"committed", "failed"} : Enter(w, "boxed", to)
  BY DEF Commit
<1>3. /\ work[w].state = "boxed" /\ work'[w].state = to
      /\ work'[w].journal = work[w].journal /\ work'[w].created = work[w].created
      /\ \A v \in Writers \ {w} : work'[v] = work[v]
      /\ work' \in [Writers ->
              [state : {"new", "begun", "saved", "boxed", "aborting", "committed", "failed"},
               journal : BOOLEAN, created : Nat \cup {None}]]
  BY <1>1, <1>2, Enters
<1>4. ClientsAccounted' /\ free' \in 0..PoolSize /\ leaked' \in 0..PoolSize
  <2>1. w \in Holders /\ Holders' = Holders \ {w}
    BY <1>3 DEF Holders
  <2> QED
    BY <1>1, <2>1, ClientReturned
<1>5. faults' \in 0..MaxFaults
  BY <1>1, OutboxAssumption DEF Commit, Fault, NoFault, TypeOK
<1>6. WriterFacts'
  BY <1>1, <1>3 DEF OutboxInv, WriterFacts
<1>7. CASE UNCHANGED <<journals, outbox>>
  <2>1. TypeOK'
    BY <1>1, <1>3, <1>4, <1>5, <1>7 DEF TypeOK, reading
  <2>2. RowFacts'
    BY <1>3, <1>7, RowsStay
  <2> QED
    BY <1>1, <1>4, <1>6, <1>7, <2>1, <2>2, ReadingStays DEF OutboxInv, OutboxAgrees
<1>8. CASE Persist(w)
  <2>1. /\ journals' = journals \cup {w} /\ outbox' = outbox \cup {NewRow(w)}
        /\ w \notin journals /\ NewRow(w) \in Row /\ IsFiniteSet(outbox')
    BY <1>3, <1>8, PersistsBoth
  <2>2. /\ NewRow(w).event = w /\ NewRow(w).created = work[w].created
        /\ NewRow(w).status = "PENDING"
    BY DEF NewRow
  <2>3. TypeOK'
    BY <1>1, <1>3, <1>4, <1>5, <2>1 DEF TypeOK, reading
  <2>4. JournalWithItsEvent'
    BY <1>1, <2>1, <2>2 DEF OutboxInv, OutboxAgrees, JournalWithItsEvent, reading
  <2>5. ProcessedReachedEveryone'
    BY <1>1, <2>1, <2>2 DEF OutboxInv, ProcessedReachedEveryone, reading
  <2>6. RowFacts'
    <3>1. \A r \in outbox : r.event # w /\ r.event \in Writers
      BY <1>1, <2>1, RowParts DEF OutboxInv, OutboxAgrees, JournalWithItsEvent
    <3>2. \A r \in outbox : work'[r.event] = work[r.event]
      BY <1>3, <3>1
    <3> QED
      BY <1>3, <2>1, <2>2, <3>1, <3>2 DEF OutboxInv, RowFacts
  <2>7. \A p \in Polls : PollFacts(p)'
    BY <1>1, <1>3, <1>8, PollsSeeNothingNew
  <2> QED
    BY <1>4, <1>6, <2>3, <2>4, <2>5, <2>6, <2>7 DEF OutboxInv, OutboxAgrees
<1> QED
  BY <1>7, <1>8 DEF Commit

-----------------------------------------------------------------------------
(* Steps of a poll that write no row. *)

LEMMA WritingStays ==
  ASSUME OutboxInv, UNCHANGED <<writing, outbox>>
  PROVE  /\ WriterFacts' /\ RowFacts' /\ ClientsAccounted'
         /\ UNCHANGED <<shape, free, leaked, work, journals, clock>>
BY DEF writing, OutboxInv, OutboxAgrees, WriterFacts, RowFacts, ClientsAccounted

(* What was reached stays reached when more is received or dead. *)
LEMMA ReachedGrows ==
  ASSUME received \subseteq received', deadLetters \subseteq deadLetters', forgotten' = forgotten, NEW e,
         Reached(e)
  PROVE  Reached(e)'
BY DEF Reached

LEMMA OtherPollsStay ==
  ASSUME OutboxInv, UNCHANGED <<writing, outbox>>, NEW q \in Polls, poll'[q] = poll[q],
         received \subseteq received', deadLetters \subseteq deadLetters', forgotten' = forgotten
  PROVE  PollFacts(q)'
<1>1. PollFacts(q) /\ journals' = journals /\ outbox' = outbox
  BY DEF OutboxInv, writing
<1>2. InOrder(q)'
  BY <1>1 DEF PollFacts, InOrder, Earlier, PendingRows
<1> QED
  BY <1>1, <1>2, ReachedGrows DEF PollFacts

LEMMA ProcessedStays ==
  ASSUME OutboxInv, outbox' = outbox,
         received \subseteq received', deadLetters \subseteq deadLetters', forgotten' = forgotten
  PROVE  ProcessedReachedEveryone'
BY DEF OutboxInv, ProcessedReachedEveryone

LEMMA BeginPollStep ==
  ASSUME OutboxInv, NEW p \in Polls, BeginPoll(p)
  PROVE  OutboxInv'
<1> DEFINE b == FetchPendingEvents
           n == Cardinality(outbox)
           begun == [state |-> "busy", batch |-> b, done |-> {}, attempt |-> 0, consumer |-> 1, seen |-> n]
<1>1. /\ UNCHANGED <<writing, outbox, running, received, deadLetters, forgotten, faults>> /\ TypeOK
      /\ poll' = [poll EXCEPT ![p] = begun]
  BY DEF BeginPoll, Fresh, OutboxInv, OutboxAgrees
<1>2. /\ b \in Seq(Writers) /\ Len(b) = Fetched /\ n \in Nat
      /\ \A i \in 1..Len(b) : b[i] \in journals
  <2>1. n \in Nat
    BY FS_CardinalityType DEF OutboxInv, RowFacts
  <2>2. /\ b \in Seq(Writers) /\ Len(b) = Fetched
        /\ \A i \in 1..Fetched : \E r \in PendingRows : b[i] = r.event
    BY FetchByRank
  <2>3. \A r \in PendingRows : r.event \in journals
    BY DEF PendingRows, OutboxInv, OutboxAgrees, JournalWithItsEvent
  <2> QED
    BY <2>1, <2>2, <2>3
<1>3. \A i \in 1..Len(b) : \A s \in outbox : s.event = b[i] =>
         \A r \in Earlier(s, PendingRows) : \E j \in 1..(i - 1) : b[j] = r.event
  BY <1>2, FetchIsInOrder
<1> HIDE DEF b, n
<1>4. begun \in Pollings
  BY <1>2, OutboxAssumption DEF Pollings
<1>5. poll' \in [Polls -> Pollings] /\ poll'[p] = begun /\ \A q \in Polls \ {p} : poll'[q] = poll[q]
  BY <1>1, <1>4 DEF TypeOK
<1>6. /\ poll'[p].batch = b /\ poll'[p].done = {} /\ poll'[p].consumer = 1 /\ poll'[p].seen = n
  BY <1>5
<1>7. TypeOK'
  BY <1>1, <1>5 DEF TypeOK, writing
<1>8. PollFacts(p)'
  <2>1. InOrder(p)'
    BY <1>1, <1>3, <1>6 DEF InOrder, Earlier, PendingRows
  <2>2. journals' = journals /\ outbox' = outbox
    BY <1>1 DEF writing
  <2>3. \A c \in Handlers : ~(c < 1)
    BY DEF Handlers
  <2>4. n <= Cardinality(outbox')
    BY <1>2, <2>2 DEF n
  <2> QED
    BY <1>2, <1>6, <2>1, <2>2, <2>3, <2>4 DEF PollFacts
<1>9. \A q \in Polls : PollFacts(q)'
  BY <1>1, <1>5, <1>8, OtherPollsStay
<1>10. JournalWithItsEvent'
  BY <1>1 DEF OutboxInv, OutboxAgrees, JournalWithItsEvent, writing
<1> QED
  BY <1>1, <1>7, <1>9, <1>10, WritingStays, ProcessedStays DEF OutboxInv, OutboxAgrees

(* The batch a poll handles is its first event and the rest. *)
LEMMA HandledBatch ==
  ASSUME TypeOK, NEW p \in Polls, Handling(p)
  PROVE  /\ Len(poll[p].batch) \in Nat \ {0} /\ Current(p) = poll[p].batch[1]
         /\ Current(p) \in Writers /\ Tail(poll[p].batch) \in Seq(Writers)
         /\ Len(Tail(poll[p].batch)) = Len(poll[p].batch) - 1
         /\ \A i \in 1..Len(Tail(poll[p].batch)) : Tail(poll[p].batch)[i] = poll[p].batch[i + 1]
<1>1. poll[p].batch \in Seq(Writers) /\ poll[p].batch # <<>>
  BY PollParts DEF Handling
<1> QED
  BY <1>1 DEF Current

(* A poll turns to the next event once the one it handled was reached. *)
LEMMA AdvanceStep ==
  ASSUME OutboxInv, NEW p \in Polls, Handling(p), Advance(p), UNCHANGED <<writing, outbox>>,
         received \subseteq received', deadLetters \subseteq deadLetters', forgotten' = forgotten,
         NEW e, e = Current(p), Reached(e)'
  PROVE  poll' \in [Polls -> Pollings] /\ \A q \in Polls : PollFacts(q)'
<1> DEFINE b == poll[p].batch
           next == [poll[p] EXCEPT !.batch = Tail(b), !.done = @ \cup {e}, !.attempt = 0, !.consumer = 1]
<1>1. /\ TypeOK /\ PollFacts(p) /\ journals' = journals /\ outbox' = outbox
      /\ poll \in [Polls -> Pollings] /\ poll[p] \in Pollings
  BY DEF OutboxInv, OutboxAgrees, TypeOK, writing
<1>2. poll' = [poll EXCEPT ![p] = next]
  BY DEF Advance
<1>3. /\ Len(b) \in Nat \ {0} /\ e = b[1] /\ e \in Writers /\ Tail(b) \in Seq(Writers)
      /\ Len(Tail(b)) = Len(b) - 1 /\ \A i \in 1..Len(Tail(b)) : Tail(b)[i] = b[i + 1]
  BY <1>1, HandledBatch
<1>4. next \in Pollings
  <2>1. /\ poll[p].done \cup {e} \in SUBSET Writers
        /\ 0 \in 0..MaxRetries /\ 1 \in Handlers \cup {1}
    BY <1>1, <1>3, OutboxAssumption DEF Pollings
  <2> HIDE DEF Handlers, b
  <2> QED
    BY <1>1, <1>3, <2>1 DEF Pollings
<1>5. /\ poll' \in [Polls -> Pollings] /\ \A q \in Polls \ {p} : poll'[q] = poll[q]
      /\ poll'[p] = next
  BY <1>1, <1>2, <1>4
<1>6. /\ poll'[p].batch = Tail(b) /\ poll'[p].done = poll[p].done \cup {e} /\ poll'[p].consumer = 1
      /\ poll'[p].seen = poll[p].seen
  BY <1>1, <1>5 DEF Pollings
<1> HIDE DEF next
<1>7. InOrder(p)'
  <2>1. ASSUME NEW i \in 1..Len(Tail(b)), NEW s \in outbox, s.event = Tail(b)[i],
               NEW r \in Earlier(s, PendingRows), r.committed < poll[p].seen
        PROVE  r.event \in poll[p].done \cup {e} \/ \E j \in 1..(i - 1) : Tail(b)[j] = r.event
    <3>1. i + 1 \in 1..Len(b) /\ s.event = b[i + 1]
      BY <1>3, <2>1
    <3>2. r.event \in poll[p].done \/ \E j \in 1..((i + 1) - 1) : b[j] = r.event
      BY <1>1, <2>1, <3>1 DEF PollFacts, InOrder
    <3>3. ASSUME NEW j \in 1..((i + 1) - 1), b[j] = r.event, j # 1
          PROVE  j - 1 \in 1..(i - 1) /\ Tail(b)[j - 1] = r.event
      BY <1>3, <3>1, <3>3
    <3> QED
      BY <1>3, <3>2, <3>3
  <2>2. ASSUME NEW i \in 1..Len(poll'[p].batch), NEW s \in outbox', s.event = poll'[p].batch[i],
               NEW r \in Earlier(s, PendingRows)', r.committed < poll'[p].seen
        PROVE  r.event \in poll'[p].done \/ \E j \in 1..(i - 1) : poll'[p].batch[j] = r.event
    <3>1. r \in Earlier(s, PendingRows)
      BY <1>1, <2>2 DEF Earlier, PendingRows
    <3> HIDE DEF b
    <3> QED
      BY <1>1, <1>6, <2>1, <2>2, <3>1
  <2> HIDE DEF b
  <2> QED
    BY <2>2 DEF InOrder
<1>8. PollFacts(p)'
  <2>1. \A i \in 1..Len(Tail(b)) : Tail(b)[i] \in journals
    <3>1. \A i \in 1..Len(b) : b[i] \in journals
      BY <1>1 DEF PollFacts
    <3> QED
      BY <1>3, <3>1
  <2>2. \A d \in poll[p].done \cup {e} : Reached(d)'
    BY <1>1, ReachedGrows DEF PollFacts
  <2>3. \A c \in Handlers : ~(c < 1)
    BY DEF Handlers
  <2>4. poll[p].seen <= Cardinality(outbox)
    BY <1>1 DEF PollFacts
  <2> HIDE DEF b
  <2> QED
    BY <1>1, <1>6, <1>7, <2>1, <2>2, <2>3, <2>4 DEF PollFacts
<1> QED
  BY <1>5, <1>8, OtherPollsStay

(* A poll stays at its event: at the next handler, or at the first one again. *)
LEMMA StayStep ==
  ASSUME OutboxInv, NEW p \in Polls, Handling(p), UNCHANGED <<writing, outbox>>,
         NEW attempt \in 0..MaxRetries, NEW consumer \in Handlers \cup {1},
         poll' = [poll EXCEPT ![p].attempt = attempt, ![p].consumer = consumer],
         received \subseteq received', deadLetters \subseteq deadLetters', forgotten' = forgotten,
         \A c \in Handlers : c < consumer => <<c, Current(p)>> \in received'
  PROVE  poll' \in [Polls -> Pollings] /\ \A q \in Polls : PollFacts(q)'
<1> DEFINE next == [poll[p] EXCEPT !.attempt = attempt, !.consumer = consumer]
<1>1. /\ TypeOK /\ PollFacts(p) /\ journals' = journals /\ outbox' = outbox
      /\ poll \in [Polls -> Pollings] /\ poll[p] \in Pollings
  BY DEF OutboxInv, OutboxAgrees, TypeOK, writing
<1>2. poll' = [poll EXCEPT ![p] = next] /\ next \in Pollings
  BY <1>1 DEF Pollings
<1>3. /\ poll' \in [Polls -> Pollings] /\ \A q \in Polls \ {p} : poll'[q] = poll[q]
      /\ poll'[p] = next
  BY <1>1, <1>2
<1>4. /\ poll'[p].batch = poll[p].batch /\ poll'[p].done = poll[p].done
      /\ poll'[p].consumer = consumer /\ poll'[p].seen = poll[p].seen
  BY <1>1, <1>3 DEF Pollings
<1> HIDE DEF next
<1>5. InOrder(p)'
  BY <1>1, <1>4 DEF PollFacts, InOrder, Earlier, PendingRows
<1>6. Current(p) = poll[p].batch[1]
  BY <1>1, HandledBatch
<1>7. PollFacts(p)'
  BY <1>1, <1>4, <1>5, <1>6, ReachedGrows DEF PollFacts
<1> QED
  BY <1>3, <1>7, OtherPollsStay

(* A poll is done with an event that it gives up. *)
LEMMA GiveUpStep ==
  ASSUME OutboxInv, NEW p \in Polls, Handling(p), GiveUp(p), UNCHANGED <<writing, outbox>>,
         received \subseteq received', forgotten' = forgotten
  PROVE  /\ poll' \in [Polls -> Pollings] /\ \A q \in Polls : PollFacts(q)'
         /\ deadLetters \subseteq deadLetters' /\ deadLetters' \subseteq Writers
<1>1. deadLetters \subseteq Writers /\ Current(p) \in Writers
  BY HandledBatch DEF OutboxInv, OutboxAgrees, TypeOK
<1> PICK e : e = Current(p)
  OBVIOUS
<1>2. Advance(p) /\ deadLetters' = deadLetters \cup {e}
  BY DEF GiveUp
<1>3. Reached(e)'
  BY <1>2 DEF Reached
<1> QED
  BY <1>1, <1>2, <1>3, AdvanceStep

(* A poll whose attempt failed stays, until its retries are used up. *)
LEMMA AttemptFailedStep ==
  ASSUME OutboxInv, NEW p \in Polls, Handling(p), AttemptFailed(p), UNCHANGED <<writing, outbox>>,
         received \subseteq received', forgotten' = forgotten
  PROVE  /\ poll' \in [Polls -> Pollings] /\ \A q \in Polls : PollFacts(q)'
         /\ deadLetters \subseteq deadLetters' /\ deadLetters' \subseteq Writers
<1>1. /\ TypeOK /\ poll[p].attempt \in 0..MaxRetries /\ poll \in [Polls -> Pollings]
      /\ deadLetters \subseteq Writers /\ Current(p) \in Writers
  BY PollParts, HandledBatch DEF OutboxInv, OutboxAgrees, TypeOK
<1>2. CASE /\ poll[p].attempt < MaxRetries
           /\ poll' = [poll EXCEPT ![p].attempt = @ + 1, ![p].consumer = 1]
           /\ UNCHANGED deadLetters
  <2>1. poll[p].attempt + 1 \in 0..MaxRetries
    BY <1>1, <1>2, OutboxAssumption
  <2>2. poll' = [poll EXCEPT ![p].attempt = poll[p].attempt + 1, ![p].consumer = 1]
    BY <1>2
  <2>3. \A c \in Handlers : ~(c < 1)
    BY DEF Handlers
  <2> QED
    BY <1>1, <1>2, <2>1, <2>2, <2>3, StayStep
<1>3. CASE GiveUp(p)
  BY <1>3, GiveUpStep
<1> QED
  BY <1>2, <1>3 DEF AttemptFailed

(* A publish: refused for the topic, refused by the validator, or delivered. *)
LEMMA PublishStep ==
  ASSUME OutboxInv, NEW p \in Polls, Unroutable(p) \/ Invalid(p) \/ Deliver(p)
  PROVE  OutboxInv'
<1>1. /\ UNCHANGED <<writing, outbox, running, forgotten>> /\ TypeOK /\ Handling(p)
      /\ received \subseteq received'
  BY DEF Unroutable, Invalid, Deliver, OutboxInv, OutboxAgrees
<1>2. /\ Current(p) \in Writers /\ Current(p) \in journals
      /\ poll[p].consumer \in Handlers \cup {1} /\ poll[p].attempt \in 0..MaxRetries
      /\ deadLetters \subseteq Writers
      /\ \A c \in Handlers : c < poll[p].consumer => <<c, Current(p)>> \in received
  <2>1. PollFacts(p) /\ poll[p].batch # <<>>
    BY <1>1 DEF OutboxInv, Handling
  <2>2. 1 \in 1..Len(poll[p].batch) /\ Current(p) = poll[p].batch[1]
    BY <1>1, HandledBatch
  <2> QED
    BY <1>1, <2>1, <2>2, PollParts, HandledBatch DEF PollFacts, TypeOK
<1>3. received' \subseteq Handlers \X Writers /\ \A m \in received' : m[2] \in journals
  <2>1. received \subseteq Handlers \X Writers /\ \A m \in received : m[2] \in journals
    BY <1>1 DEF OutboxInv, OutboxAgrees, JournalWithItsEvent, TypeOK
  <2>2. received' = received \/ received' = received \cup ((Handlers \cap {poll[p].consumer}) \X {Current(p)})
    BY DEF Unroutable, Invalid, Deliver
  <2> QED
    BY <1>2, <2>1, <2>2
<1>4. faults' \in 0..MaxFaults
  BY <1>1, OutboxAssumption DEF Unroutable, Invalid, Deliver, Fault, NoFault, TypeOK
<1>5. /\ poll' \in [Polls -> Pollings] /\ \A q \in Polls : PollFacts(q)'
      /\ deadLetters \subseteq deadLetters' /\ deadLetters' \subseteq Writers
  <2>1. CASE Unroutable(p)
    BY <1>1, <2>1, GiveUpStep DEF Unroutable
  <2>2. CASE AttemptFailed(p) \/ GiveUp(p)
    BY <1>1, <2>2, AttemptFailedStep, GiveUpStep
  <2>3. CASE Deliver(p) /\ ~AttemptFailed(p) /\ ~GiveUp(p)
    <3> PICK c : c = poll[p].consumer
      OBVIOUS
    <3> PICK e : e = Current(p)
      OBVIOUS
    <3>1. /\ received' = received \cup ((Handlers \cap {c}) \X {e})
          /\ IF c < Len(Consumers) THEN poll' = [poll EXCEPT ![p].consumer = c + 1] ELSE Advance(p)
          /\ UNCHANGED deadLetters
      BY <2>3 DEF Deliver
    <3>2. \A d \in Handlers : d < c => <<d, e>> \in received'
      BY <1>2, <3>1
    <3>3. Len(Consumers) \in Nat /\ c \in Nat \ {0}
      BY <1>2, OutboxAssumption DEF Handlers
    <3>4. c \in Handlers => <<c, e>> \in received'
      BY <3>1
    <3>5. CASE c < Len(Consumers)
      <4>1. poll' = [poll EXCEPT ![p].attempt = poll[p].attempt, ![p].consumer = c + 1]
        <5>1. poll[p] \in Pollings /\ poll \in [Polls -> Pollings]
          BY <1>1, PollParts DEF TypeOK
        <5>2. [poll[p] EXCEPT !.consumer = c + 1]
                = [poll[p] EXCEPT !.attempt = poll[p].attempt, !.consumer = c + 1]
          BY <5>1 DEF Pollings
        <5> QED
          BY <3>1, <3>5, <5>1, <5>2
      <4>2. c + 1 \in Handlers \cup {1}
        BY <3>3, <3>5 DEF Handlers
      <4>3. \A d \in Handlers : d < c + 1 => <<d, e>> \in received'
        BY <3>2, <3>3, <3>4 DEF Handlers
      <4> QED
        BY <1>1, <1>2, <3>1, <4>1, <4>2, <4>3, StayStep
    <3>6. CASE ~(c < Len(Consumers))
      <4>1. \A d \in Handlers : <<d, e>> \in received'
        BY <3>2, <3>3, <3>4, <3>6 DEF Handlers
      <4>2. Reached(e)'
        BY <4>1 DEF Reached, Handlers
      <4> QED
        BY <1>1, <1>2, <3>1, <3>6, <4>2, AdvanceStep
    <3> QED
      BY <3>5, <3>6
  <2> QED
    BY <2>1, <2>2, <2>3 DEF Invalid
<1>6. TypeOK'
  BY <1>1, <1>3, <1>4, <1>5 DEF TypeOK, writing
<1>7. JournalWithItsEvent'
  BY <1>1, <1>3 DEF OutboxInv, OutboxAgrees, JournalWithItsEvent, writing
<1> QED
  BY <1>1, <1>5, <1>6, <1>7, WritingStays, ProcessedStays DEF OutboxInv, OutboxAgrees

-----------------------------------------------------------------------------
(* The end of a poll. *)

Marked(r, events) == IF r.event \in events THEN [r EXCEPT !.status = "PROCESSED"] ELSE r

LEMMA MarkedParts ==
  ASSUME TypeOK, NEW r \in outbox, NEW events
  PROVE  /\ Marked(r, events) \in Row
         /\ Marked(r, events).event = r.event /\ Marked(r, events).created = r.created
         /\ Marked(r, events).committed = r.committed
         /\ Marked(r, events).status = IF r.event \in events THEN "PROCESSED" ELSE r.status
<1>1. r \in Row
  BY RowParts
<1> QED
  BY <1>1 DEF Marked, Row

(* Marking keeps one row for each event. *)
LEMMA MarkingIsABijection ==
  ASSUME OutboxInv, NEW events, outbox' = {Marked(r, events) : r \in outbox}
  PROVE  IsFiniteSet(outbox') /\ Cardinality(outbox') = Cardinality(outbox)
<1> DEFINE f == [r \in outbox |-> Marked(r, events)]
<1> PICK rows, marked : rows = outbox /\ marked = outbox'
  OBVIOUS
<1>1. \A r, s \in outbox : Marked(r, events) = Marked(s, events) => r = s
  BY MarkedParts DEF OutboxInv, OutboxAgrees, RowFacts
<1>2. f \in [rows -> marked] /\ \A m \in marked : \E r \in rows : f[r] = m
  OBVIOUS
<1>3. f \in Bijection(rows, marked)
  BY <1>1, <1>2 DEF Bijection, Injection, Surjection, IsInjective
<1>4. IsFiniteSet(rows)
  BY DEF OutboxInv, RowFacts
<1> HIDE DEF f
<1> QED
  BY <1>3, <1>4, FS_Surjection DEF Bijection

LEMMA MarkProcessedStep ==
  ASSUME OutboxInv, NEW p \in Polls, MarkProcessed(p)
  PROVE  OutboxInv'
<1> PICK events : events = poll[p].done
  OBVIOUS
<1>1. /\ UNCHANGED <<writing, running, received, deadLetters, forgotten>> /\ TypeOK
      /\ poll' = [poll EXCEPT ![p] = NoPoll]
      /\ outbox' = outbox \/ outbox' = {Marked(r, events) : r \in outbox}
  BY DEF MarkProcessed, Processed, Marked, OutboxInv, OutboxAgrees
<1>2. faults' \in 0..MaxFaults
  BY <1>1, OutboxAssumption DEF MarkProcessed, Fault, NoFault, TypeOK
<1>3. NoPoll \in Pollings
  BY OutboxAssumption DEF NoPoll, Fresh, Pollings
<1>4. /\ poll' \in [Polls -> Pollings] /\ poll'[p] = NoPoll
      /\ \A q \in Polls \ {p} : poll'[q] = poll[q]
  BY <1>1, <1>3 DEF TypeOK
<1>5. /\ UNCHANGED <<shape, free, leaked, work, journals, clock>>
      /\ WriterFacts' /\ ClientsAccounted'
  BY <1>1 DEF writing, OutboxInv, OutboxAgrees, WriterFacts, ClientsAccounted
<1>6. /\ IsFiniteSet(outbox') /\ Cardinality(outbox') = Cardinality(outbox)
      /\ Cardinality(outbox) \in Nat
  BY <1>1, MarkingIsABijection, FS_CardinalityType DEF OutboxInv, RowFacts
(* Each row is one from before, perhaps marked. *)
<1>7. /\ \A m \in outbox' : \E r \in outbox :
           /\ m.event = r.event /\ m.created = r.created /\ m.committed = r.committed /\ m \in Row
           /\ m.status = r.status \/ (m.status = "PROCESSED" /\ r.event \in events)
           /\ m = r \/ m = Marked(r, events)
      /\ \A r \in outbox : \E m \in outbox' : m.event = r.event
  <2>1. CASE outbox' = outbox
    BY <1>1, <2>1, RowParts
  <2>2. CASE outbox' = {Marked(r, events) : r \in outbox}
    BY <1>1, <2>2, MarkedParts
  <2> QED
    BY <1>1, <2>1, <2>2
<1>8. TypeOK'
  BY <1>1, <1>2, <1>4, <1>5, <1>7 DEF TypeOK
<1>9. JournalWithItsEvent'
  BY <1>1, <1>5, <1>7 DEF OutboxInv, OutboxAgrees, JournalWithItsEvent
<1>10. ProcessedReachedEveryone'
  <2>1. \A e \in events : Reached(e)
    BY DEF OutboxInv, PollFacts
  <2>2. ASSUME NEW m \in outbox', m.status = "PROCESSED"
        PROVE  Reached(m.event)
    <3>1. PICK r \in outbox :
            m.event = r.event /\ (m.status = r.status \/ (m.status = "PROCESSED" /\ r.event \in events))
      BY <1>7
    <3>2. CASE r.event \in events
      BY <2>1, <3>1, <3>2
    <3>3. CASE r.status = "PROCESSED"
      BY <3>1, <3>3 DEF OutboxInv, ProcessedReachedEveryone, Reached
    <3> QED
      BY <2>2, <3>1, <3>2, <3>3
  <2> QED
    BY <1>1, <2>2 DEF ProcessedReachedEveryone, Reached
<1>11. RowFacts'
  <2>1. \A m, n \in outbox' : m.event = n.event => m = n
    <3>1. CASE outbox' = outbox
      BY <3>1 DEF OutboxInv, RowFacts
    <3>2. CASE outbox' = {Marked(r, events) : r \in outbox}
      BY <1>1, <3>2, MarkedParts DEF OutboxInv, RowFacts
    <3> QED
      BY <1>1, <3>1, <3>2
  <2>2. \A m \in outbox' : work'[m.event].state \in {"committed", "failed"} /\ m.created = work'[m.event].created
    BY <1>5, <1>7 DEF OutboxInv, RowFacts
  <2> QED
    BY <1>6, <2>1, <2>2 DEF RowFacts
<1>12. ASSUME NEW q \in Polls PROVE PollFacts(q)'
  <2>1. CASE q = p
    <3>1. /\ poll'[q].batch = <<>> /\ poll'[q].done = {} /\ poll'[q].seen = 0
      BY <1>4, <2>1 DEF NoPoll, Fresh
    <3> QED
      BY <1>6, <3>1 DEF PollFacts, InOrder
  <2>2. CASE q # p
    <3>1. poll'[q] = poll[q] /\ PollFacts(q)
      BY <1>4, <2>2 DEF OutboxInv
    <3>2. ASSUME NEW i \in 1..Len(poll[q].batch), NEW s \in outbox', s.event = poll[q].batch[i],
                 NEW r \in outbox', r.status = "PENDING", r.created < s.created, r.committed < poll[q].seen
          PROVE  r.event \in poll[q].done \/ \E j \in 1..(i - 1) : poll[q].batch[j] = r.event
      <4>1. PICK x \in outbox : x.event = s.event /\ x.created = s.created
        BY <1>7
      <4>2. PICK y \in outbox : /\ y.event = r.event /\ y.created = r.created /\ y.committed = r.committed
                                /\ y.status = "PENDING"
        BY <1>7, <3>2
      <4> QED
        BY <3>1, <3>2, <4>1, <4>2 DEF PollFacts, InOrder, Earlier, PendingRows
    <3>3. InOrder(q)'
      BY <3>1, <3>2 DEF InOrder, Earlier, PendingRows
    <3> QED
      BY <1>1, <1>5, <1>6, <3>1, <3>3 DEF PollFacts, Reached
  <2> QED
    BY <2>1, <2>2
<1> QED
  BY <1>5, <1>8, <1>9, <1>10, <1>11, <1>12 DEF OutboxInv, OutboxAgrees

-----------------------------------------------------------------------------
(* The dispatcher is stopped and started, and the process ends. *)

LEMMA PollingStep ==
  ASSUME OutboxInv, StopPolling \/ StartPolling
  PROVE  OutboxInv'
<1>1. /\ UNCHANGED <<writing, outbox, poll, received, deadLetters, forgotten>> /\ TypeOK
      /\ running' \in BOOLEAN
  BY DEF StopPolling, StartPolling, OutboxInv, OutboxAgrees
<1>2. faults' \in 0..MaxFaults
  BY <1>1, OutboxAssumption DEF StopPolling, StartPolling, Fault, TypeOK
<1>3. TypeOK'
  BY <1>1, <1>2 DEF TypeOK, writing
<1>4. JournalWithItsEvent'
  BY <1>1 DEF OutboxInv, OutboxAgrees, JournalWithItsEvent, writing
<1>5. \A q \in Polls : PollFacts(q)'
  BY <1>1, OtherPollsStay
<1> QED
  BY <1>1, <1>3, <1>4, <1>5, WritingStays, ProcessedStays DEF OutboxInv, OutboxAgrees

LEMMA CrashStep ==
  ASSUME OutboxInv, Crash
  PROVE  OutboxInv'
<1>1. /\ UNCHANGED <<shape, journals, clock, outbox, received>> /\ TypeOK
      /\ running' = FALSE /\ free' = PoolSize /\ leaked' = 0
      /\ poll' = [p \in Polls |-> NoPoll]
      /\ deadLetters' = {} /\ forgotten' = forgotten \cup deadLetters
      /\ work' = [w \in Writers |->
                    IF work[w].state \in {"begun", "saved", "boxed", "aborting"}
                    THEN [work[w] EXCEPT !.state = "failed"] ELSE work[w]]
  BY DEF Crash, OutboxInv, OutboxAgrees
<1>2. ASSUME NEW w \in Writers
      PROVE  /\ work'[w] \in [state : {"new", "begun", "saved", "boxed", "aborting", "committed", "failed"},
                              journal : BOOLEAN, created : Nat \cup {None}]
             /\ work'[w].state \notin {"begun", "saved", "boxed", "aborting"}
             /\ work'[w].created = work[w].created
             /\ work[w].state \in {"committed", "failed"} => work'[w] = work[w]
  <2>1. work[w] \in [state : {"new", "begun", "saved", "boxed", "aborting", "committed", "failed"},
                     journal : BOOLEAN, created : Nat \cup {None}]
    BY <1>1 DEF TypeOK
  <2> QED
    BY <1>1, <2>1
<1>3. work' \in [Writers -> [state : {"new", "begun", "saved", "boxed", "aborting", "committed", "failed"},
                             journal : BOOLEAN, created : Nat \cup {None}]]
  BY <1>1, <1>2
<1>4. ClientsAccounted'
  <2>1. Holders' = {}
    BY <1>2 DEF Holders
  <2>2. Cardinality(Holders') = 0 /\ PoolSize \in Nat
    BY <2>1, FS_EmptySet, OutboxAssumption
  <2> QED
    BY <1>1, <2>2 DEF ClientsAccounted, Holders
<1>5. faults' \in 0..MaxFaults
  BY <1>1, OutboxAssumption DEF Crash, Fault, TypeOK
<1>6. NoPoll \in Pollings
  BY OutboxAssumption DEF NoPoll, Fresh, Pollings
<1>7. TypeOK'
  <2>1. /\ free' \in 0..PoolSize /\ leaked' \in 0..PoolSize
        /\ poll' \in [Polls -> Pollings] /\ deadLetters' \subseteq Writers /\ forgotten' \subseteq Writers
    BY <1>1, <1>6, OutboxAssumption DEF TypeOK
  <2>2. /\ shape' \in [Writers -> Shapes] /\ clock' \in Nat /\ journals' \subseteq Writers
        /\ outbox' \subseteq Row /\ received' \subseteq Handlers \X Writers
    BY <1>1 DEF TypeOK
  <2> QED
    BY <1>1, <1>3, <1>5, <2>1, <2>2 DEF TypeOK
<1>8. WriterFacts'
  BY <1>1, <1>2 DEF OutboxInv, WriterFacts
<1>9. RowFacts'
  <2>1. \A r \in outbox : work'[r.event] = work[r.event]
    BY <1>1, <1>2, RowParts DEF OutboxInv, RowFacts
  <2> QED
    BY <1>1, <2>1 DEF OutboxInv, RowFacts
<1>10. \A q \in Polls : PollFacts(q)'
  <2>1. /\ NoPoll.batch = <<>> /\ NoPoll.done = {} /\ NoPoll.seen = 0
    BY DEF NoPoll, Fresh
  <2>2. Cardinality(outbox) \in Nat
    BY FS_CardinalityType DEF OutboxInv, RowFacts
  <2> QED
    BY <1>1, <2>1, <2>2 DEF PollFacts, InOrder
<1>11. JournalWithItsEvent' /\ ProcessedReachedEveryone'
  BY <1>1 DEF OutboxInv, OutboxAgrees, JournalWithItsEvent, ProcessedReachedEveryone
<1> QED
  BY <1>4, <1>7, <1>8, <1>9, <1>10, <1>11 DEF OutboxInv, OutboxAgrees

-----------------------------------------------------------------------------
LEMMA OutboxInitInv == Init => OutboxInv
<1> SUFFICES ASSUME Init PROVE OutboxInv
  OBVIOUS
<1>1. NoPoll \in Pollings
  BY OutboxAssumption DEF NoPoll, Fresh, Pollings
<1>2. TypeOK
  <2>1. /\ free \in 0..PoolSize /\ leaked \in 0..PoolSize /\ faults \in 0..MaxFaults /\ clock \in Nat
    BY OutboxAssumption DEF Init
  <2>2. work \in [Writers ->
          [state : {"new", "begun", "saved", "boxed", "aborting", "committed", "failed"},
           journal : BOOLEAN, created : Nat \cup {None}]]
    BY DEF Init
  <2>3. poll \in [Polls -> Pollings]
    BY <1>1 DEF Init
  <2> QED
    BY <2>1, <2>2, <2>3 DEF Init, TypeOK
<1>3. JournalWithItsEvent /\ ProcessedReachedEveryone
  BY DEF Init, JournalWithItsEvent, ProcessedReachedEveryone
<1>4. ClientsAccounted
  <2>1. Holders = {}
    BY DEF Init, Holders
  <2>2. Cardinality(Holders) = 0 /\ PoolSize \in Nat
    BY <2>1, FS_EmptySet, OutboxAssumption
  <2> QED
    BY <2>2 DEF Init, ClientsAccounted, Holders
<1>5. WriterFacts
  BY DEF Init, WriterFacts
<1>6. RowFacts
  BY FS_EmptySet DEF Init, RowFacts
<1>7. \A p \in Polls : PollFacts(p)
  <2>1. /\ NoPoll.batch = <<>> /\ NoPoll.done = {} /\ NoPoll.seen = 0
    BY DEF NoPoll, Fresh
  <2>2. Cardinality(outbox) = 0
    BY FS_EmptySet DEF Init
  <2> QED
    BY <2>1, <2>2 DEF Init, PollFacts, InOrder
<1> QED
  BY <1>2, <1>3, <1>4, <1>5, <1>6, <1>7 DEF OutboxInv, OutboxAgrees

LEMMA OutboxInvStep == OutboxInv /\ [Next]_vars => OutboxInv'
<1> SUFFICES ASSUME OutboxInv, [Next]_vars PROVE OutboxInv'
  OBVIOUS
<1>1. CASE \E w \in Writers : WriterStep(w)
  BY <1>1, StartStep, SaveStep, CommitStep, RollbackStep DEF WriterStep
<1>2. CASE \E p \in Polls : PollStep(p)
  BY <1>2, BeginPollStep, PublishStep, MarkProcessedStep DEF PollStep
<1>3. CASE StopPolling \/ StartPolling
  BY <1>3, PollingStep
<1>4. CASE Crash
  BY <1>4, CrashStep
<1>5. CASE UNCHANGED vars
  <2>1. /\ UNCHANGED <<writing, outbox, running, poll, received, deadLetters, forgotten, faults>> /\ TypeOK
    BY <1>5 DEF vars, OutboxInv, OutboxAgrees
  <2>2. TypeOK'
    BY <2>1 DEF TypeOK, writing
  <2>3. JournalWithItsEvent'
    BY <2>1 DEF OutboxInv, OutboxAgrees, JournalWithItsEvent, writing
  <2>4. \A q \in Polls : PollFacts(q)'
    BY <2>1, OtherPollsStay
  <2> QED
    BY <2>1, <2>2, <2>3, <2>4, WritingStays, ProcessedStays DEF OutboxInv, OutboxAgrees
<1> QED
  BY <1>1, <1>2, <1>3, <1>4, <1>5 DEF Next

(* Whatever the inductive invariant says holds in every reachable state. *)
LEMMA OutboxInvariance == Spec => []OutboxInv
BY OutboxInitInv, OutboxInvStep, PTL DEF Spec

(* For any number of writers, polls, handlers, clients and faults: a journal is
   visible exactly with its event, no handler hears of one that is not, and
   every client is free, lost to a failed BEGIN or held by one transaction. *)
THEOREM OutboxKeepsAgreeing == Spec => []OutboxAgrees
<1>1. OutboxInv => OutboxAgrees
  BY DEF OutboxInv
<1> QED
  BY <1>1, OutboxInvariance, PTL

(* An event that left the queue reached every handler or is a dead letter, for
   any number of overlapping polls, however handlers and updates fail. *)
THEOREM ProcessedWasDelivered == Spec => []ProcessedReachedEveryone
<1>1. OutboxInv => ProcessedReachedEveryone
  BY DEF OutboxInv
<1> QED
  BY <1>1, OutboxInvariance, PTL

(* A poll that handles an event has finished with every older one that was
   pending when it fetched: the ranks of the pending rows are all taken, so a
   batch cut at the limit leaves out the youngest only. *)
THEOREM NothingIsOvertaken == Spec => []NoOvertaking
<1>1. OutboxInv => NoOvertaking
  <2> SUFFICES ASSUME OutboxInv, NEW p \in Polls, Handling(p)
               PROVE  LET current == CHOOSE r \in outbox : r.event = Current(p)
                      IN  \A r \in Earlier(current, PendingRows) :
                            r.committed < poll[p].seen => r.event \in poll[p].done
    BY DEF NoOvertaking
  <2>1. /\ TypeOK /\ PollFacts(p) /\ 1 \in 1..Len(poll[p].batch) /\ Current(p) = poll[p].batch[1]
    BY HandledBatch DEF OutboxInv, OutboxAgrees
  <2>2. \E r \in outbox : r.event = Current(p)
    BY <2>1 DEF PollFacts, OutboxInv, OutboxAgrees, JournalWithItsEvent
  <2> DEFINE current == CHOOSE r \in outbox : r.event = Current(p)
  <2>3. current \in outbox /\ current.event = Current(p)
    BY <2>2
  <2> HIDE DEF current
  <2>4. ASSUME NEW r \in Earlier(current, PendingRows), r.committed < poll[p].seen
        PROVE  r.event \in poll[p].done
    <3>1. r.event \in poll[p].done \/ \E j \in 1..(1 - 1) : poll[p].batch[j] = r.event
      BY <2>1, <2>3, <2>4 DEF PollFacts, InOrder
    <3> QED
      BY <3>1
  <2> QED
    BY <2>4 DEF current
<1> QED
  BY <1>1, OutboxInvariance, PTL

-----------------------------------------------------------------------------
(* The outbox keeps its promise: every step of it records one fact, tells  *)
(* of one, drops some, or is unseen.                                       *)

\* The refinement mapping of Promise, by name.
WriterTold == {w \in Writers : work[w].state = "committed"}
MayBeMissed == deadLetters \cup forgotten
OffQueue == {r.event : r \in {x \in outbox : x.status = "PROCESSED"}}

Unseen == UNCHANGED <<journals, WriterTold, received, MayBeMissed, OffQueue>>

LEMMA UnseenStutters == Unseen => UNCHANGED Promise!vars
BY Zenon DEF Unseen, Promise!vars, WriterTold, MayBeMissed, OffQueue

(* Until COMMIT, nothing that a unit of work does is seen. *)
LEMMA WorkIsUnseen ==
  ASSUME TypeOK, NEW w \in Writers, UNCHANGED <<journals, outbox, reading>>,
         work[w].state # "committed", work'[w].state # "committed",
         \A v \in Writers \ {w} : work'[v] = work[v]
  PROVE  Unseen
<1>1. WriterTold' = WriterTold
  BY DEF WriterTold
<1> QED
  BY <1>1 DEF Unseen, MayBeMissed, OffQueue, reading

LEMMA WritingIsUnseen ==
  ASSUME OutboxInv, NEW w \in Writers,
         Start(w) \/ SaveJournal(w) \/ SaveEvent(w) \/ Rollback(w)
  PROVE  Unseen
<1>1. UNCHANGED <<journals, outbox, reading>> /\ TypeOK
  BY DEF Start, SaveJournal, SaveEvent, Rollback, OutboxInv, OutboxAgrees, reading
<1>2. /\ work[w].state # "committed" /\ work'[w].state # "committed"
      /\ \A v \in Writers \ {w} : work'[v] = work[v]
  BY <1>1 DEF Start, SaveJournal, SaveEvent, Rollback, Enter, TypeOK
<1> QED
  BY <1>1, <1>2, WorkIsUnseen

(* COMMIT records the journal whether or not its answer arrives. *)
LEMMA CommitRecords ==
  ASSUME OutboxInv, NEW w \in Writers, Commit(w)
  PROVE  Promise!Record(w) \/ Unseen
<1>1. UNCHANGED reading /\ TypeOK
  BY DEF Commit, OutboxInv, OutboxAgrees
<1>2. PICK to \in {"committed", "failed"} :
        /\ Enter(w, "boxed", to)
        /\ \/ Persist(w)
           \/ to = "failed" /\ UNCHANGED <<journals, outbox>>
  BY DEF Commit
<1>3. /\ work[w].state = "boxed" /\ work'[w].state = to
      /\ \A v \in Writers \ {w} : work'[v] = work[v]
  BY <1>1, <1>2, Enters
<1>4. CASE to = "failed" /\ UNCHANGED <<journals, outbox>>
  BY <1>1, <1>3, <1>4, WorkIsUnseen
<1>5. CASE Persist(w)
  <2>1. /\ journals' = journals \cup {w} /\ w \notin journals
        /\ outbox' = outbox \cup {NewRow(w)}
    BY <1>3, <1>5, PersistsBoth
  <2>2. WriterTold' \in {WriterTold, WriterTold \cup {w}}
    <3>1. CASE to = "committed"
      <4>1. WriterTold' = WriterTold \cup {w}
        BY <1>3, <3>1 DEF WriterTold
      <4> QED
        BY <4>1
    <3>2. CASE to = "failed"
      <4>1. WriterTold' = WriterTold
        BY <1>3, <3>2 DEF WriterTold
      <4> QED
        BY <4>1
    <3> QED
      BY <3>1, <3>2
  <2>3. OffQueue' = OffQueue
    <3>1. NewRow(w).status # "PROCESSED"
      BY DEF NewRow
    <3> HIDE DEF NewRow
    <3> QED
      BY <2>1, <3>1 DEF OffQueue
  <2>4. UNCHANGED <<received, MayBeMissed, OffQueue>>
    BY <1>1, <2>3 DEF reading, MayBeMissed
  <2> QED
    BY <2>1, <2>2, <2>4, Zenon DEF Promise!Record, WriterTold, MayBeMissed, OffQueue
<1> QED
  BY <1>2, <1>4, <1>5

(* The event a poll handles was recorded. *)
LEMMA HandledWasRecorded ==
  ASSUME OutboxInv, NEW p \in Polls, Handling(p)
  PROVE  Current(p) \in journals /\ Current(p) \in Writers
<1>1. TypeOK /\ PollFacts(p)
  BY DEF OutboxInv, OutboxAgrees
<1>2. Len(poll[p].batch) \in Nat \ {0} /\ Current(p) = poll[p].batch[1] /\ Current(p) \in Writers
  BY <1>1, HandledBatch
<1> QED
  BY <1>1, <1>2 DEF PollFacts

LEMMA PublishTells ==
  ASSUME OutboxInv, NEW p \in Polls, Unroutable(p) \/ Invalid(p) \/ Deliver(p)
  PROVE  Promise!Tell(Current(p))
<1> DEFINE e == Current(p)
<1>1. /\ Handling(p) /\ UNCHANGED <<writing, outbox, forgotten>>
  BY DEF Unroutable, Invalid, Deliver
<1>2. e \in journals /\ e \in Writers
  BY <1>1, HandledWasRecorded
<1>3. deadLetters' \in {deadLetters, deadLetters \cup {e}}
  BY DEF Unroutable, Invalid, Deliver, AttemptFailed, GiveUp
<1>4. received' \in {received} \cup {received \cup {<<h, e>>} : h \in Handlers}
  <2>1. CASE Deliver(p)
    <3> DEFINE c == poll[p].consumer
    <3>1. received' = received \cup ((Handlers \cap {c}) \X {e})
      BY <2>1 DEF Deliver
    <3> HIDE DEF e, c
    <3>2. CASE c \in Handlers
      <4>1. (Handlers \cap {c}) \X {e} = {<<c, e>>}
        BY <3>2
      <4> QED
        BY <3>1, <3>2, <4>1
    <3>3. CASE c \notin Handlers
      <4>1. (Handlers \cap {c}) \X {e} = {}
        BY <3>3
      <4> QED
        BY <3>1, <4>1
    <3> QED
      BY <3>2, <3>3
  <2>2. CASE Unroutable(p) \/ Invalid(p)
    BY <2>2 DEF Unroutable, Invalid
  <2> QED
    BY <2>1, <2>2
<1>5. MayBeMissed' \in {MayBeMissed, MayBeMissed \cup {e}}
  BY <1>1, <1>3 DEF MayBeMissed
<1>6. UNCHANGED <<journals, WriterTold, OffQueue>>
  BY <1>1 DEF writing, WriterTold, OffQueue
<1> QED
  BY <1>2, <1>4, <1>5, <1>6, Zenon DEF Promise!Tell, WriterTold, MayBeMissed, OffQueue

(* What a poll marks, it had finished with. *)
LEMMA MarkDrops ==
  ASSUME OutboxInv, NEW p \in Polls, MarkProcessed(p)
  PROVE  (\E facts \in SUBSET Writers : Promise!Drop(facts)) \/ Unseen
<1>1. /\ UNCHANGED <<writing, running, received, deadLetters, forgotten>> /\ TypeOK
      /\ Processed(poll[p].done) \/ UNCHANGED outbox
  BY DEF MarkProcessed, OutboxInv, OutboxAgrees
<1>2. UNCHANGED <<journals, WriterTold, received, MayBeMissed>>
  BY <1>1 DEF writing, WriterTold, MayBeMissed
<1>3. CASE UNCHANGED outbox
  BY <1>2, <1>3 DEF Unseen, OffQueue
<1>4. CASE Processed(poll[p].done)
  <2> DEFINE done == poll[p].done
             facts == {e \in done : \E r \in outbox : r.event = e}
  <2>1. outbox' = {Marked(r, done) : r \in outbox}
    BY <1>4 DEF Processed, Marked
  <2>2. \A e \in done : Reached(e) /\ e \in Writers
    BY <1>1, PollParts DEF OutboxInv, PollFacts
  <2>3. \A e \in facts : e \in journals /\ (e \in MayBeMissed \/ \A c \in Handlers : <<c, e>> \in received)
    BY <2>2 DEF Reached, MayBeMissed, OutboxInv, OutboxAgrees, JournalWithItsEvent
  <2>4. OffQueue' = OffQueue \cup facts
    <3>1. \A r \in outbox : /\ Marked(r, done).event = r.event
                            /\ Marked(r, done).status = IF r.event \in done THEN "PROCESSED" ELSE r.status
      BY <1>1, MarkedParts
    <3> HIDE DEF done
    <3>2. ASSUME NEW e \in OffQueue' PROVE e \in OffQueue \cup facts
      <4>1. PICK r \in outbox : Marked(r, done).event = e /\ Marked(r, done).status = "PROCESSED"
        BY <2>1 DEF OffQueue
      <4> QED
        BY <3>1, <4>1 DEF OffQueue
    <3>3. ASSUME NEW e \in OffQueue \cup facts PROVE e \in OffQueue'
      <4>1. PICK r \in outbox : r.event = e /\ (r.status = "PROCESSED" \/ e \in done)
        BY DEF OffQueue
      <4>2. Marked(r, done) \in outbox' /\ Marked(r, done).event = e
            /\ Marked(r, done).status = "PROCESSED"
        BY <2>1, <3>1, <4>1
      <4> QED
        BY <4>2 DEF OffQueue
    <3> QED
      BY <3>2, <3>3
  <2>5. facts \in SUBSET Writers
    BY <2>2
  <2> HIDE DEF facts
  <2>6. PICK told \in SUBSET Writers : told = facts
    BY <2>5
  <2>7. Promise!Drop(told)
    BY <1>2, <2>3, <2>4, <2>6, Zenon DEF Promise!Drop, WriterTold, MayBeMissed, OffQueue
  <2> QED
    BY <2>7
<1> QED
  BY <1>1, <1>3, <1>4

(* What a restart forgets had been given up: nobody sees it happen. *)
LEMMA CrashIsUnseen ==
  ASSUME OutboxInv, Crash
  PROVE  Unseen
<1>1. /\ UNCHANGED <<journals, outbox, received>> /\ TypeOK
      /\ deadLetters' = {} /\ forgotten' = forgotten \cup deadLetters
      /\ work' = [w \in Writers |->
                    IF work[w].state \in {"begun", "saved", "boxed", "aborting"}
                    THEN [work[w] EXCEPT !.state = "failed"] ELSE work[w]]
  BY DEF Crash, OutboxInv, OutboxAgrees
<1>2. WriterTold' = WriterTold
  <2>1. \A w \in Writers : work'[w].state = "committed" <=> work[w].state = "committed"
    BY <1>1 DEF TypeOK
  <2> QED
    BY <2>1 DEF WriterTold
<1>3. MayBeMissed' = MayBeMissed /\ OffQueue' = OffQueue
  BY <1>1 DEF MayBeMissed, OffQueue
<1> QED
  BY <1>1, <1>2, <1>3 DEF Unseen

LEMMA PromiseInit == Init => Promise!Init
<1> SUFFICES ASSUME Init PROVE Promise!Init
  OBVIOUS
<1>1. WriterTold = {} /\ MayBeMissed = {} /\ OffQueue = {}
  BY DEF Init, WriterTold, MayBeMissed, OffQueue
<1>2. journals = {} /\ received = {}
  BY DEF Init
<1> QED
  BY <1>1, <1>2, Zenon DEF Promise!Init, WriterTold, MayBeMissed, OffQueue

LEMMA PromiseStep == OutboxInv /\ [Next]_vars => [Promise!Next]_(Promise!vars)
<1> SUFFICES ASSUME OutboxInv, [Next]_vars PROVE [Promise!Next]_(Promise!vars)
  OBVIOUS
<1>1. ASSUME NEW w \in Writers, WriterStep(w) PROVE Promise!Record(w) \/ Unseen
  BY <1>1, WritingIsUnseen, CommitRecords DEF WriterStep
<1>2. ASSUME NEW p \in Polls, BeginPoll(p) PROVE Unseen
  BY <1>2 DEF BeginPoll, writing, Unseen, WriterTold, MayBeMissed, OffQueue
<1>3. ASSUME NEW p \in Polls, Unroutable(p) \/ Invalid(p) \/ Deliver(p)
      PROVE  \E f \in Writers : Promise!Tell(f)
  <2>1. Handling(p)
    BY <1>3 DEF Unroutable, Invalid, Deliver
  <2> QED
    BY <1>3, <2>1, PublishTells, HandledWasRecorded
<1>4. ASSUME StopPolling \/ StartPolling PROVE Unseen
  BY <1>4 DEF StopPolling, StartPolling, writing, Unseen, WriterTold, MayBeMissed, OffQueue
<1>5. ASSUME UNCHANGED vars PROVE Unseen
  BY <1>5 DEF vars, writing, Unseen, WriterTold, MayBeMissed, OffQueue
<1>6. \/ \E w \in Writers : Promise!Record(w)
      \/ \E f \in Writers : Promise!Tell(f)
      \/ \E facts \in SUBSET Writers : Promise!Drop(facts)
      \/ Unseen
  BY <1>1, <1>2, <1>3, <1>4, <1>5, MarkDrops, CrashIsUnseen DEF Next, PollStep
<1> QED
  BY <1>6, UnseenStutters DEF Promise!Next

(* For any number of writers, polls, handlers and faults, every behaviour  *)
(* of the outbox is one of at-least-once delivery: what is told was        *)
(* recorded, what leaves the queue was told to every handler or was made a *)
(* dead letter, and none of it is undone, also by a restart                *)
(* (DeliveryPromise).                                                      *)
THEOREM DeliveryIsKept == Spec => KeepsPromise
BY PromiseInit, PromiseStep, OutboxInvariance, PTL DEF Spec, KeepsPromise, Promise!Spec

-----------------------------------------------------------------------------
(* The gateway and its idempotency keys. *)

\* A call took its key when it was acquired, and keeps it.
Took(c) == calls[c].state = "acquired" \/ calls[c].ran

\* What the answer of a call tells of: a run that was answered under its key, in
\* its life of the process.
Answers(c, ran) ==
  /\ ran \in ApiCalls /\ calls[ran].ran /\ calls[ran].state = "200"
  /\ Key(ran) = Key(c) /\ calls[ran].life = calls[c].life

CallFacts(c) ==
  /\ calls[c].life <= life
  /\ calls[c].state = "new" => calls[c].life = 0 /\ ~calls[c].ran
  /\ calls[c].state \in Waiting => calls[c].life = life
  /\ calls[c].state \in {"admitted", "known", "acquired", "401", "404", "409", "429"} => ~calls[c].ran
  /\ calls[c].state = "running" => calls[c].ran
  /\ calls[c].state \in {"known", "acquired"} => HasKey(c)
  /\ calls[c].state = "200" => Answers(c, calls[c].response)
  /\ HasKey(c) /\ Took(c) /\ calls[c].life = life =>
       /\ records[Key(c)].status # "none"
       /\ calls[c].state \in {"acquired", "running"} => records[Key(c)].status = "STARTED"

TookOnce ==
  \A c, d \in ApiCalls :
    Took(c) /\ Took(d) /\ HasKey(c) /\ Key(c) = Key(d) /\ calls[c].life = calls[d].life => c = d

RecordFacts(k) ==
  /\ records[k].response # "none" =>
       LET ran == records[k].response
       IN  /\ calls[ran].ran /\ calls[ran].state = "200" /\ Key(ran) = k /\ calls[ran].life = life
  /\ records[k].status = "STARTED" =>
       \E c \in Now : Key(c) = k /\ calls[c].state \in {"acquired", "running"}

\* The calls that a token was spent on in this life.
Served == {c \in Now : calls[c].state # "429"}

TokensAreCounted == bucket + Cardinality(Served) <= Capacity + Refill * ticks

KeysInv ==
  /\ ApiTypeOK
  /\ \A c \in ApiCalls : CallFacts(c)
  /\ TookOnce
  /\ \A k \in Keys : RecordFacts(k)
  /\ TokensAreCounted

LEMMA NewCallType == NewCall \in Call
<1>1. (CHOOSE p \in Paths : TRUE) \in Paths
  BY ApiAssumption
<1> QED
  BY <1>1 DEF NewCall, Call, Waiting, StatusCodes

(* A call that goes on is a call. *)
LEMMA CallGoes ==
  ASSUME NEW x \in Call, NEW state \in Waiting \cup StatusCodes \cup {"new", "lost"}
  PROVE  /\ [x EXCEPT !.state = state] \in Call
         /\ \A ran \in BOOLEAN : [x EXCEPT !.state = state, !.ran = ran] \in Call
         /\ \A born \in Nat : [x EXCEPT !.state = state, !.life = born] \in Call
         /\ \A response \in ApiCalls \cup {"none"} : [x EXCEPT !.state = state, !.response = response] \in Call
<1> DEFINE States == Waiting \cup StatusCodes \cup {"new", "lost"}
           Names == Keys \cup {NoKey}
           Responses == ApiCalls \cup {"none"}
<1>1. Call = [state : States, life : Nat, path : Paths, key : Names, authorised : BOOLEAN,
              response : Responses, ran : BOOLEAN]
  BY DEF Call
<1>2. state \in States
  OBVIOUS
<1> HIDE DEF States, Names, Responses
<1>3. /\ [x EXCEPT !.state = state] \in Call
      /\ \A ran \in BOOLEAN : [x EXCEPT !.state = state, !.ran = ran] \in Call
      /\ \A born \in Nat : [x EXCEPT !.state = state, !.life = born] \in Call
      /\ \A response \in Responses : [x EXCEPT !.state = state, !.response = response] \in Call
  BY <1>1, <1>2
<1> QED
  BY <1>3 DEF Responses

LEMMA CallMade ==
  ASSUME NEW x \in Call, NEW born \in Nat, NEW path \in Paths, NEW key \in Keys \cup {NoKey},
         NEW authorised \in BOOLEAN
  PROVE  [x EXCEPT !.state = "admitted", !.life = born, !.path = path, !.key = key,
                   !.authorised = authorised] \in Call
<1> DEFINE States == Waiting \cup StatusCodes \cup {"new", "lost"}
           Names == Keys \cup {NoKey}
           Responses == ApiCalls \cup {"none"}
<1>1. Call = [state : States, life : Nat, path : Paths, key : Names, authorised : BOOLEAN,
              response : Responses, ran : BOOLEAN]
  BY DEF Call
<1>2. "admitted" \in States
  BY DEF Waiting
<1>3. key \in Names
  OBVIOUS
<1> HIDE DEF States, Names, Responses
<1> QED
  BY <1>1, <1>2, <1>3

\* A step of call c that leaves it the call e, and nothing else but records.
Becomes(c, e) ==
  /\ c \in ApiCalls /\ e \in Call /\ calls' = [calls EXCEPT ![c] = e]
  /\ e.key = calls[c].key /\ e.life = calls[c].life
  /\ calls[c].state \in Waiting /\ calls[c].life = life
  /\ e.state \notin {"new", "429"}
  /\ life' = life /\ bucket' = bucket /\ ticks' = ticks

\* What those steps leave as it is.
Remains(c, e) ==
  /\ calls' \in [ApiCalls -> Call] /\ calls'[c] = e
  /\ \A d \in ApiCalls : d # c => calls'[d] = calls[d]
  /\ \A d \in ApiCalls : calls'[d].key = calls[d].key /\ calls'[d].life = calls[d].life

LEMMA BecomesRemains ==
  ASSUME ApiTypeOK, NEW c, NEW e, Becomes(c, e)
  PROVE  Remains(c, e)
<1> USE DEF ApiTypeOK, Becomes, Remains
<1> HIDE DEF Call
<1> QED
  OBVIOUS

LEMMA TokensStay ==
  ASSUME KeysInv, NEW c, NEW e, Becomes(c, e)
  PROVE  TokensAreCounted'
<1>1. Remains(c, e)
  BY BecomesRemains DEF KeysInv
<1>2. calls[c].state # "429"
  BY DEF Becomes, Waiting
<1>3. \A d \in ApiCalls : (calls'[d].life = life' /\ calls'[d].state # "429") <=> (calls[d].life = life /\ calls[d].state # "429")
  BY <1>1, <1>2 DEF Becomes, Remains
<1>4. Served' = Served
  BY <1>3 DEF Served, Now
<1> QED
  BY <1>4 DEF KeysInv, TokensAreCounted, Becomes

(* How each step of a call leaves it. *)
LEMMA UnauthorisedGoes ==
  ASSUME KeysInv, NEW c \in ApiCalls, Unauthorised(c)
  PROVE  \E e : Becomes(c, e) /\ e.state = "401" /\ e.ran = calls[c].ran /\ e.response = calls[c].response
<1> DEFINE x == calls[c]
           e == [x EXCEPT !.state = "401"]
<1>1. x \in Call /\ x.state = "admitted"
  BY DEF KeysInv, ApiTypeOK, Unauthorised
<1>2. x.life = life
  BY <1>1 DEF KeysInv, CallFacts, Waiting
<1>3. calls' = [calls EXCEPT ![c] = e]
  BY DEF Unauthorised, Goes
<1>4. e \in Call
  BY <1>1, CallGoes DEF StatusCodes, Waiting
<1>5. e.key = x.key /\ e.life = x.life /\ e.state = "401" /\ e.ran = calls[c].ran /\ e.response = calls[c].response
  BY <1>1 DEF Call
<1> HIDE DEF e
<1> QED
  BY <1>1, <1>2, <1>3, <1>4, <1>5 DEF Becomes, Unauthorised, Waiting

LEMMA NotFoundGoes ==
  ASSUME KeysInv, NEW c \in ApiCalls, NotFound(c)
  PROVE  \E e : Becomes(c, e) /\ e.state = "404" /\ e.ran = calls[c].ran
<1> DEFINE x == calls[c]
           e == [x EXCEPT !.state = "404"]
<1>1. x \in Call /\ x.state \in {"admitted", "acquired"}
  BY DEF KeysInv, ApiTypeOK, NotFound, ReadyToRoute
<1>2. x.life = life
  BY <1>1 DEF KeysInv, CallFacts, Waiting
<1>3. calls' = [calls EXCEPT ![c] = e]
  BY DEF NotFound, Goes
<1>4. e \in Call
  BY <1>1, CallGoes DEF StatusCodes, Waiting
<1>5. e.key = x.key /\ e.life = x.life /\ e.state = "404" /\ e.ran = calls[c].ran
  BY <1>1 DEF Call
<1> HIDE DEF e
<1> QED
  BY <1>1, <1>2, <1>3, <1>4, <1>5 DEF Becomes, NotFound, Waiting

LEMMA CallHandlerGoes ==
  ASSUME KeysInv, NEW c \in ApiCalls, CallHandler(c)
  PROVE  \E e : Becomes(c, e) /\ e.state = "running" /\ e.ran
<1> DEFINE x == calls[c]
           e == [x EXCEPT !.state = "running", !.ran = TRUE]
<1>1. x \in Call /\ x.state \in {"admitted", "acquired"}
  BY DEF KeysInv, ApiTypeOK, CallHandler, ReadyToRoute
<1>2. x.life = life
  BY <1>1 DEF KeysInv, CallFacts, Waiting
<1>3. calls' = [calls EXCEPT ![c] = e]
  BY DEF CallHandler
<1>4. e \in Call
  BY <1>1, CallGoes DEF StatusCodes, Waiting
<1>5. e.key = x.key /\ e.life = x.life /\ e.state = "running" /\ e.ran
  BY <1>1 DEF Call
<1> HIDE DEF e
<1> QED
  BY <1>1, <1>2, <1>3, <1>4, <1>5 DEF Becomes, CallHandler, Waiting

LEMMA HandlerReturnsGoes ==
  ASSUME KeysInv, NEW c \in ApiCalls, HandlerReturns(c)
  PROVE  \E e : Becomes(c, e) /\ e.state = "200" /\ e.ran = calls[c].ran /\ e.response = c
<1> DEFINE x == calls[c]
           e == [x EXCEPT !.state = "200", !.response = c]
<1>1. x \in Call /\ x.state = "running"
  BY DEF KeysInv, ApiTypeOK, HandlerReturns
<1>2. x.life = life
  BY <1>1 DEF KeysInv, CallFacts, Waiting
<1>3. calls' = [calls EXCEPT ![c] = e]
  BY DEF HandlerReturns
<1>4. e \in Call
  BY <1>1, CallGoes DEF StatusCodes, Waiting
<1>5. e.key = x.key /\ e.life = x.life /\ e.state = "200" /\ e.ran = calls[c].ran /\ e.response = c
  BY <1>1 DEF Call
<1> HIDE DEF e
<1> QED
  BY <1>1, <1>2, <1>3, <1>4, <1>5 DEF Becomes, HandlerReturns, Waiting

LEMMA HandlerThrowsGoes ==
  ASSUME KeysInv, NEW c \in ApiCalls, HandlerThrows(c)
  PROVE  \E e : Becomes(c, e) /\ e.state = "500" /\ e.ran = calls[c].ran
<1> DEFINE x == calls[c]
           e == [x EXCEPT !.state = "500"]
<1>1. x \in Call /\ x.state = "running"
  BY DEF KeysInv, ApiTypeOK, HandlerThrows
<1>2. x.life = life
  BY <1>1 DEF KeysInv, CallFacts, Waiting
<1>3. calls' = [calls EXCEPT ![c] = e]
  BY DEF HandlerThrows, Goes
<1>4. e \in Call
  BY <1>1, CallGoes DEF StatusCodes, Waiting
<1>5. e.key = x.key /\ e.life = x.life /\ e.state = "500" /\ e.ran = calls[c].ran
  BY <1>1 DEF Call
<1> HIDE DEF e
<1> QED
  BY <1>1, <1>2, <1>3, <1>4, <1>5 DEF Becomes, HandlerThrows, Waiting


LEMMA AcquireGoes ==
  ASSUME KeysInv, NEW c \in ApiCalls, Acquire(c)
  PROVE  \E e : /\ Becomes(c, e) /\ e.ran = calls[c].ran
                /\ CASE records[Key(c)].status = "none" -> e.state = "acquired"
                     [] records[Key(c)].status = "STARTED" -> e.state = "threw"
                     [] OTHER -> e.state = "known"
<1> DEFINE x == calls[c]
           state == CASE records[Key(c)].status = "none" -> "acquired"
                      [] records[Key(c)].status = "STARTED" -> "threw"
                      [] OTHER -> "known"
           e == [x EXCEPT !.state = state]
<1>1. x \in Call /\ x.state = "admitted"
  BY DEF KeysInv, ApiTypeOK, Acquire
<1>2. x.life = life
  BY <1>1 DEF KeysInv, CallFacts, Waiting
<1>3. calls' = [calls EXCEPT ![c] = e]
  BY DEF Acquire, Goes
<1>4. state \in {"acquired", "threw", "known"}
  OBVIOUS
<1>5. e \in Call
  <2> HIDE DEF state
  <2> QED
    BY <1>1, <1>4, CallGoes DEF StatusCodes, Waiting
<1>6. e.key = x.key /\ e.life = x.life /\ e.state = state /\ e.ran = x.ran
  <2> HIDE DEF state
  <2> QED
    BY <1>1 DEF Call
<1>7. Becomes(c, e)
  <2> HIDE DEF e, state
  <2> QED
    BY <1>1, <1>2, <1>3, <1>4, <1>5, <1>6 DEF Becomes, Acquire, Waiting
<1>8. CASE records[Key(c)].status = "none"
  BY <1>6, <1>7, <1>8
<1>9. CASE records[Key(c)].status = "STARTED"
  BY <1>6, <1>7, <1>9
<1>10. CASE records[Key(c)].status \notin {"none", "STARTED"}
  BY <1>6, <1>7, <1>10
<1> QED
  BY <1>8, <1>9, <1>10

LEMMA GetResponseGoes ==
  ASSUME KeysInv, NEW c \in ApiCalls, GetResponse(c)
  PROVE  \E e : /\ Becomes(c, e) /\ e.ran = calls[c].ran /\ e.response = records[Key(c)].response
                /\ e.state = IF records[Key(c)].response = "none" THEN "409" ELSE "200"
<1> DEFINE x == calls[c]
           response == records[Key(c)].response
           state == IF response = "none" THEN "409" ELSE "200"
           e == [x EXCEPT !.state = state, !.response = response]
<1>1. x \in Call /\ x.state = "known"
  BY DEF KeysInv, ApiTypeOK, GetResponse
<1>2. x.life = life /\ HasKey(c)
  BY <1>1 DEF KeysInv, CallFacts, Waiting
<1>3. calls' = [calls EXCEPT ![c] = e]
  BY DEF GetResponse
<1>4. state \in {"409", "200"}
  OBVIOUS
<1>5. Key(c) \in Keys
  BY <1>1, <1>2 DEF HasKey, Key, Call
<1>6. response \in ApiCalls \cup {"none"}
  BY <1>5 DEF KeysInv, ApiTypeOK
<1>7. e \in Call
  <2> HIDE DEF state, response
  <2> QED
    BY <1>1, <1>4, <1>6, CallGoes DEF StatusCodes, Waiting
<1>8. e.key = x.key /\ e.life = x.life /\ e.state = state /\ e.ran = x.ran /\ e.response = response
  <2> HIDE DEF state, response
  <2> QED
    BY <1>1 DEF Call
<1>9. Becomes(c, e)
  <2> HIDE DEF e, state, response
  <2> QED
    BY <1>1, <1>2, <1>3, <1>4, <1>7, <1>8 DEF Becomes, GetResponse, Waiting
<1> QED
  BY <1>8, <1>9

(* An answered run stays what it is while other calls go on. *)
LEMMA AnswersStay ==
  ASSUME KeysInv, NEW c, NEW e, Becomes(c, e), NEW d \in ApiCalls, NEW ran, Answers(d, ran)
  PROVE  /\ ran # c /\ calls'[ran] = calls[ran]
         /\ Key(ran)' = Key(d)' /\ calls'[ran].life = calls'[d].life
<1>1. Remains(c, e) /\ ran # c
  BY BecomesRemains DEF KeysInv, Becomes, Answers, Waiting
<1> QED
  BY <1>1 DEF Remains, Answers, Key


\* What a step of call c may do to the records: nothing that is taken is free
\* again, and it ends only what it took.
RecordsMove(c) ==
  /\ records' \in [Keys -> [status : {"none", "STARTED", "COMPLETED", "FAILED"},
                            response : ApiCalls \cup {"none"}]]
  /\ \A k \in Keys : records[k].status # "none" => records'[k].status # "none"
  /\ \A k \in Keys : records[k].status = "STARTED" /\ records'[k].status # "STARTED" =>
       HasKey(c) /\ Key(c) = k /\ Took(c)

LEMMA OthersKeepTheirFacts ==
  ASSUME KeysInv, NEW c, NEW e, Becomes(c, e), RecordsMove(c), NEW d \in ApiCalls, d # c
  PROVE  CallFacts(d)'
<1>1. Remains(c, e) /\ CallFacts(d)
  BY BecomesRemains DEF KeysInv
<1>2. calls'[d] = calls[d] /\ (Answers(d, calls[d].response) => Answers(d, calls[d].response)')
  BY <1>1, AnswersStay DEF Remains, Answers
<1>3. ASSUME HasKey(d), Took(d), calls[d].life = life
      PROVE  /\ records'[Key(d)].status # "none"
             /\ calls[d].state \in {"acquired", "running"} => records'[Key(d)].status = "STARTED"
  <2>1. Key(d) \in Keys
    BY <1>3 DEF KeysInv, ApiTypeOK, Call, HasKey, Key
  <2>2. ~(HasKey(c) /\ Key(c) = Key(d) /\ Took(c))
    BY <1>3 DEF KeysInv, TookOnce, Becomes
  <2> QED
    BY <1>1, <1>3, <2>1, <2>2 DEF RecordsMove, CallFacts
<1> QED
  BY <1>1, <1>2, <1>3 DEF CallFacts, HasKey, Key, Took, Waiting, Becomes

(* If it took no key, who took one is unchanged; nor does it matter that it runs *)
(* when it took its key before, or has none.                                   *)
LEMMA TookStays ==
  ASSUME KeysInv, NEW c, NEW e, Becomes(c, e),
         e.state = "acquired" \/ e.ran => Took(c) \/ ~HasKey(c)
  PROVE  TookOnce'
<1>1. Remains(c, e)
  BY BecomesRemains DEF KeysInv
<1> QED
  BY <1>1 DEF KeysInv, TookOnce, Remains, Took, HasKey, Key

(* A record that a step leaves alone stays as true as it was, unless the step *)
(* ends the call that holds it.                                               *)
LEMMA RecordFactsStay ==
  ASSUME KeysInv, NEW c, NEW e, Becomes(c, e), NEW k \in Keys, records'[k].response = records[k].response,
         records'[k].status = "STARTED" =>
           \/ records[k].status = "STARTED" /\ (HasKey(c) /\ Key(c) = k => ~Took(c))
           \/ e.key = k /\ e.state \in {"acquired", "running"}
  PROVE  RecordFacts(k)'
<1>1. Remains(c, e) /\ RecordFacts(k)
  BY BecomesRemains DEF KeysInv
<1>2. ASSUME records[k].response # "none"
      PROVE  LET ran == records[k].response
             IN  /\ calls'[ran].ran /\ calls'[ran].state = "200" /\ calls'[ran].key = k
                 /\ calls'[ran].life = life
  <2> DEFINE ran == records[k].response
  <2>1. ran \in ApiCalls /\ calls[ran].ran /\ calls[ran].state = "200" /\ Key(ran) = k /\ calls[ran].life = life
    BY <1>1, <1>2 DEF RecordFacts, KeysInv, ApiTypeOK
  <2>2. ran # c
    BY <2>1 DEF Becomes, Waiting
  <2> QED
    BY <1>1, <2>1, <2>2 DEF Remains, Key
<1>3. ASSUME records'[k].status = "STARTED"
      PROVE  \E d \in ApiCalls : /\ calls'[d].life = life /\ calls'[d].key = k
                                 /\ calls'[d].state \in {"acquired", "running"}
  <2>1. CASE records[k].status = "STARTED" /\ (HasKey(c) /\ Key(c) = k => ~Took(c))
    <3>1. PICK d \in Now : Key(d) = k /\ calls[d].state \in {"acquired", "running"}
      BY <1>1, <2>1 DEF RecordFacts
    <3>2. d \in ApiCalls /\ calls[d].life = life /\ CallFacts(d)
      BY DEF Now, KeysInv
    <3>3. Took(d) /\ k # NoKey
      BY <3>1, <3>2, ApiAssumption DEF Took, CallFacts
    <3>4. d # c
      BY <2>1, <3>1, <3>3 DEF HasKey, Key
    <3> QED
      BY <1>1, <3>1, <3>2, <3>4 DEF Remains, Key
  <2>2. CASE e.key = k /\ e.state \in {"acquired", "running"}
    BY <1>1, <2>2 DEF Becomes, Remains
  <2> QED
    BY <1>3, <2>1, <2>2
<1> QED
  BY <1>2, <1>3 DEF RecordFacts, Now, Key, Becomes

(* What is left to show of a step: the facts of its own call and the records. *)
LEMMA StepKeeps ==
  ASSUME KeysInv, NEW c, NEW e, Becomes(c, e), RecordsMove(c), CallFacts(c)', TookOnce',
         \A k \in Keys : RecordFacts(k)'
  PROVE  KeysInv'
<1>1. Remains(c, e) /\ TokensAreCounted'
  BY BecomesRemains, TokensStay DEF KeysInv
<1>2. \A d \in ApiCalls : CallFacts(d)'
  BY OthersKeepTheirFacts
<1>3. ApiTypeOK'
  BY <1>1 DEF KeysInv, ApiTypeOK, Becomes, Remains, RecordsMove
<1> QED
  BY <1>1, <1>2, <1>3 DEF KeysInv


LEMMA UnauthorisedStep ==
  ASSUME KeysInv, NEW c \in ApiCalls, Unauthorised(c)
  PROVE  KeysInv'
<1>1. PICK e : Becomes(c, e) /\ e.state = "401" /\ e.ran = calls[c].ran /\ e.response = calls[c].response
  BY UnauthorisedGoes
<1>2. Remains(c, e) /\ records' = records /\ CallFacts(c) /\ ~Took(c)
  BY <1>1, BecomesRemains DEF KeysInv, Unauthorised, CallFacts, Took
<1>3. CallFacts(c)'
  BY <1>1, <1>2 DEF CallFacts, Remains, Becomes, HasKey, Key, Took, Waiting, Unauthorised
<1>4. TookOnce' /\ RecordsMove(c) /\ \A k \in Keys : RecordFacts(k)'
  BY <1>1, <1>2, TookStays, RecordFactsStay DEF KeysInv, ApiTypeOK, RecordsMove, Took
<1> QED
  BY <1>1, <1>3, <1>4, StepKeeps

LEMMA AcquireStep ==
  ASSUME KeysInv, NEW c \in ApiCalls, Acquire(c)
  PROVE  KeysInv'
<1> DEFINE status == records[Key(c)].status
<1>1. PICK e : /\ Becomes(c, e) /\ e.ran = calls[c].ran
               /\ CASE status = "none" -> e.state = "acquired" [] status = "STARTED" -> e.state = "threw"
                    [] OTHER -> e.state = "known"
  BY AcquireGoes
<1>2. /\ Remains(c, e) /\ CallFacts(c) /\ ~Took(c) /\ HasKey(c) /\ Key(c) \in Keys
      /\ calls[c].state = "admitted"
  <2>1. Remains(c, e) /\ CallFacts(c) /\ HasKey(c) /\ calls[c].state = "admitted"
    BY <1>1, BecomesRemains DEF KeysInv, Acquire
  <2>2. Key(c) \in Keys
    BY <2>1 DEF KeysInv, ApiTypeOK, Call, HasKey, Key
  <2> QED
    BY <2>1, <2>2 DEF CallFacts, Took
<1>3. CASE status = "none"
  <2>1. records' = [records EXCEPT ![Key(c)].status = "STARTED"] /\ e.state = "acquired"
    BY <1>1, <1>3 DEF Acquire
  <2>2. RecordsMove(c)
    BY <1>2, <1>3, <2>1 DEF RecordsMove, KeysInv, ApiTypeOK
  <2>3. /\ records'[Key(c)].status = "STARTED" /\ e.key = Key(c)
        /\ \A k \in Keys : records'[k].response = records[k].response
        /\ \A k \in Keys \ {Key(c)} : records'[k].status = records[k].status
    BY <1>1, <1>2, <2>1 DEF KeysInv, ApiTypeOK, Becomes, Key
  <2>4. CallFacts(c)'
    BY <1>1, <1>2, <2>1, <2>3 DEF CallFacts, Remains, Becomes, HasKey, Key, Took, Waiting
  <2>5. TookOnce'
    <3>1. \A d \in ApiCalls : d # c /\ Key(d) = Key(c) /\ calls[d].life = calls[c].life => ~Took(d)
      BY <1>1, <1>2, <1>3 DEF KeysInv, CallFacts, HasKey, Key, Becomes
    <3> QED
      BY <1>1, <1>2, <3>1 DEF KeysInv, TookOnce, Remains, Took, HasKey, Key
  <2>6. ASSUME NEW k \in Keys PROVE RecordFacts(k)'
    BY <1>1, <1>2, <2>1, <2>3, RecordFactsStay
  <2> QED
    BY <1>1, <2>2, <2>4, <2>5, <2>6, StepKeeps
<1>4. CASE status # "none"
  <2>1. records' = records /\ e.state \in {"threw", "known"}
    BY <1>1, <1>4 DEF Acquire
  <2>2. CallFacts(c)'
    BY <1>1, <1>2, <2>1 DEF CallFacts, Remains, Becomes, HasKey, Key, Took, Waiting
  <2>3. TookOnce' /\ RecordsMove(c) /\ \A k \in Keys : RecordFacts(k)'
    BY <1>1, <1>2, <2>1, TookStays, RecordFactsStay DEF KeysInv, ApiTypeOK, RecordsMove, Took
  <2> QED
    BY <1>1, <2>2, <2>3, StepKeeps
<1> QED
  BY <1>3, <1>4

LEMMA GetResponseStep ==
  ASSUME KeysInv, NEW c \in ApiCalls, GetResponse(c)
  PROVE  KeysInv'
<1>1. PICK e : /\ Becomes(c, e) /\ e.ran = calls[c].ran /\ e.response = records[Key(c)].response
               /\ e.state = IF records[Key(c)].response = "none" THEN "409" ELSE "200"
  BY GetResponseGoes
<1>2. /\ Remains(c, e) /\ records' = records /\ CallFacts(c) /\ ~Took(c) /\ HasKey(c)
      /\ calls[c].state = "known"
  BY <1>1, BecomesRemains DEF KeysInv, GetResponse, CallFacts, Took
<1>3. Key(c) \in Keys
  BY <1>2 DEF KeysInv, ApiTypeOK, Call, HasKey, Key
<1>4. e.state = "200" => Answers(c, e.response)
  <2>1. ASSUME e.state = "200" PROVE e.response # "none" /\ e.response \in ApiCalls
    BY <1>1, <1>3, <2>1 DEF KeysInv, ApiTypeOK
  <2> QED
    BY <1>1, <1>3, <2>1 DEF KeysInv, RecordFacts, Answers, Becomes
<1>5. e.state = "200" => Answers(c, calls[c].response)'
  BY <1>1, <1>2, <1>4, AnswersStay DEF Remains, Answers
<1>6. CallFacts(c)'
  BY <1>1, <1>2, <1>5 DEF CallFacts, Remains, Becomes, HasKey, Key, Took, Waiting
<1>7. TookOnce' /\ RecordsMove(c) /\ \A k \in Keys : RecordFacts(k)'
  BY <1>1, <1>2, TookStays, RecordFactsStay DEF KeysInv, ApiTypeOK, RecordsMove, Took
<1> QED
  BY <1>1, <1>6, <1>7, StepKeeps

(* A call that has taken its key, and holds it, is its only holder. *)
LEMMA HeldByOne ==
  ASSUME KeysInv, NEW c \in ApiCalls, HasKey(c), calls[c].state \in {"acquired", "running"}
  PROVE  Took(c) /\ records[Key(c)].status = "STARTED" /\ Key(c) \in Keys
<1>1. Key(c) \in Keys
  BY DEF KeysInv, ApiTypeOK, Call, HasKey, Key
<1> QED
  BY <1>1 DEF KeysInv, CallFacts, Took, Waiting

(* A request that fails ends the hold on its key. *)
LEMMA FailKeeps ==
  ASSUME KeysInv, NEW c, NEW e, Becomes(c, e), Fail(c), e.ran = calls[c].ran, e.state \in {"404", "500"},
         HasKey(c) => calls[c].state \in {"acquired", "running"}, e.state = "404" => ~calls[c].ran
  PROVE  /\ RecordsMove(c) /\ \A k \in Keys : RecordFacts(k)'
         /\ TookOnce' /\ CallFacts(c)'
<1>1. Remains(c, e) /\ CallFacts(c) /\ c \in ApiCalls
  BY BecomesRemains DEF KeysInv, Becomes
<1>2. HasKey(c) => Took(c) /\ records[Key(c)].status = "STARTED" /\ Key(c) \in Keys
  BY <1>1, HeldByOne
<1>3. /\ \A k \in Keys : records'[k].response = records[k].response
      /\ \A k \in Keys : ~(HasKey(c) /\ k = Key(c)) => records'[k].status = records[k].status
      /\ HasKey(c) => records'[Key(c)].status = "FAILED"
      /\ RecordsMove(c)
  <2>1. CASE HasKey(c)
    <3>1. records' = [records EXCEPT ![Key(c)].status = "FAILED"]
      BY <2>1 DEF Fail
    <3> QED
      BY <1>2, <2>1, <3>1 DEF RecordsMove, KeysInv, ApiTypeOK
  <2>2. CASE ~HasKey(c)
    BY <2>2 DEF Fail, RecordsMove, KeysInv, ApiTypeOK
  <2> QED
    BY <2>1, <2>2
<1>4. TookOnce'
  BY <1>1, <1>2, TookStays DEF Took
<1>5. \A k \in Keys : RecordFacts(k)'
  BY <1>1, <1>2, <1>3, RecordFactsStay
<1>6. calls[c].state = "running" => calls[c].ran
  BY <1>1 DEF CallFacts
<1>7. CallFacts(c)'
  BY <1>1, <1>2, <1>3, <1>6 DEF CallFacts, Remains, Becomes, HasKey, Key, Took, Waiting
<1> QED
  BY <1>3, <1>4, <1>5, <1>7

LEMMA NotFoundStep ==
  ASSUME KeysInv, NEW c \in ApiCalls, NotFound(c)
  PROVE  KeysInv'
<1>1. PICK e : Becomes(c, e) /\ e.state = "404" /\ e.ran = calls[c].ran
  BY NotFoundGoes
<1>2. Fail(c) /\ ~calls[c].ran /\ (HasKey(c) => calls[c].state \in {"acquired", "running"})
  BY DEF NotFound, ReadyToRoute, KeysInv, CallFacts
<1> QED
  BY <1>1, <1>2, FailKeeps, StepKeeps

LEMMA HandlerThrowsStep ==
  ASSUME KeysInv, NEW c \in ApiCalls, HandlerThrows(c)
  PROVE  KeysInv'
<1>1. PICK e : Becomes(c, e) /\ e.state = "500" /\ e.ran = calls[c].ran
  BY HandlerThrowsGoes
<1>2. Fail(c) /\ calls[c].state = "running"
  BY DEF HandlerThrows
<1> QED
  BY <1>1, <1>2, FailKeeps, StepKeeps

LEMMA CallHandlerStep ==
  ASSUME KeysInv, NEW c \in ApiCalls, CallHandler(c)
  PROVE  KeysInv'
<1>1. PICK e : Becomes(c, e) /\ e.state = "running" /\ e.ran
  BY CallHandlerGoes
<1>2. /\ Remains(c, e) /\ records' = records /\ CallFacts(c)
      /\ HasKey(c) => calls[c].state = "acquired"
  BY <1>1, BecomesRemains DEF KeysInv, CallHandler, ReadyToRoute
<1>3. HasKey(c) => Took(c)
  BY <1>2 DEF Took
<1>4. TookOnce' /\ RecordsMove(c)
  BY <1>1, <1>2, <1>3, TookStays DEF KeysInv, ApiTypeOK, RecordsMove
<1>5. CallFacts(c)'
  BY <1>1, <1>2, <1>3 DEF CallFacts, Remains, Becomes, HasKey, Key, Took, Waiting
<1>6. ASSUME NEW k \in Keys PROVE RecordFacts(k)'
  <2>1. records[k].status = "STARTED" /\ HasKey(c) /\ Key(c) = k => e.key = k
    BY <1>1 DEF Becomes, Key
  <2> QED
    BY <1>1, <1>2, <2>1, RecordFactsStay
<1> QED
  BY <1>1, <1>4, <1>5, <1>6, StepKeeps

LEMMA HandlerReturnsStep ==
  ASSUME KeysInv, NEW c \in ApiCalls, HandlerReturns(c)
  PROVE  KeysInv'
<1>1. PICK e : Becomes(c, e) /\ e.state = "200" /\ e.ran = calls[c].ran /\ e.response = c
  BY HandlerReturnsGoes
<1>2. /\ Remains(c, e) /\ CallFacts(c) /\ calls[c].state = "running" /\ Complete(c)
      /\ calls[c].ran /\ Took(c)
  BY <1>1, BecomesRemains DEF KeysInv, HandlerReturns, CallFacts, Took
<1>3. HasKey(c) => Key(c) \in Keys /\ records[Key(c)].status = "STARTED"
  BY <1>2, HeldByOne
<1>4. /\ \A k \in Keys : ~(HasKey(c) /\ k = Key(c)) => records'[k] = records[k]
      /\ HasKey(c) => records'[Key(c)].status = "COMPLETED" /\ records'[Key(c)].response = c
      /\ RecordsMove(c)
  BY <1>2, <1>3 DEF Complete, RecordsMove, KeysInv, ApiTypeOK
<1>5. TookOnce'
  BY <1>1, <1>2, TookStays
<1>6. CallFacts(c)'
  <2>1. Answers(c, c)'
    BY <1>1, <1>2 DEF Answers, Remains, Key
  <2>2. calls'[c].response = c
    BY <1>1, <1>2 DEF Remains
  <2>3. Answers(c, calls[c].response)'
    BY <2>1, <2>2
  <2> QED
    BY <1>1, <1>2, <1>3, <1>4, <2>3 DEF CallFacts, Remains, Becomes, HasKey, Key, Took, Waiting
<1>7. ASSUME NEW k \in Keys PROVE RecordFacts(k)'
  <2>1. CASE HasKey(c) /\ Key(c) = k
    BY <1>1, <1>2, <1>4, <2>1 DEF RecordFacts, Remains, Becomes, Key
  <2>2. CASE ~(HasKey(c) /\ Key(c) = k)
    BY <1>1, <1>2, <1>4, <2>2, RecordFactsStay
  <2> QED
    BY <2>1, <2>2
<1> QED
  BY <1>1, <1>4, <1>5, <1>6, <1>7, StepKeeps

(* Steps that admit or refuse a call, and that fill or empty the bucket. *)
LEMMA RefillStep ==
  ASSUME KeysInv, RefillBucket
  PROVE  KeysInv'
<1> USE ApiAssumption DEF KeysInv, ApiTypeOK
<1>1. ApiTypeOK'
  BY DEF RefillBucket
<1>2. (\A c \in ApiCalls : CallFacts(c)') /\ TookOnce' /\ (\A k \in Keys : RecordFacts(k)') /\ Served' = Served
  BY DEF RefillBucket, CallFacts, TookOnce, RecordFacts, Served, Now, Answers, Took, HasKey, Key
<1>3. Refill * (ticks + 1) = Refill * ticks + Refill /\ Refill * ticks \in Nat
  OBVIOUS
<1>4. Cardinality(Served) \in Nat
  BY FS_Subset, FS_CardinalityType DEF Served, Now
<1>5. TokensAreCounted'
  BY <1>2, <1>3, <1>4 DEF TokensAreCounted, RefillBucket
<1> QED
  BY <1>1, <1>2, <1>5

LEMMA RestartStep ==
  ASSUME KeysInv, ApiRestart
  PROVE  KeysInv'
<1> USE ApiAssumption
<1>1. /\ calls' \in [ApiCalls -> Call]
      /\ \A c \in ApiCalls : /\ calls'[c].key = calls[c].key /\ calls'[c].life = calls[c].life
                            /\ calls'[c].ran = calls[c].ran /\ calls'[c].response = calls[c].response
                            /\ calls'[c].state = IF calls[c].state \in Waiting THEN "lost" ELSE calls[c].state
  <2>1. ASSUME NEW c \in ApiCalls
        PROVE  [calls[c] EXCEPT !.state = "lost"] \in Call
    BY CallGoes DEF KeysInv, ApiTypeOK
  <2>2. \A c \in ApiCalls :
          calls'[c] = IF calls[c].state \in Waiting THEN [calls[c] EXCEPT !.state = "lost"] ELSE calls[c]
    BY DEF ApiRestart
  <2>3. \A c \in ApiCalls : calls[c] \in Call
    BY DEF KeysInv, ApiTypeOK
  <2>4. ASSUME NEW c \in ApiCalls
        PROVE  /\ calls'[c].key = calls[c].key /\ calls'[c].life = calls[c].life
               /\ calls'[c].ran = calls[c].ran /\ calls'[c].response = calls[c].response
               /\ calls'[c].state = IF calls[c].state \in Waiting THEN "lost" ELSE calls[c].state
    BY <2>2, <2>3 DEF Call
  <2>5. calls' \in [ApiCalls -> Call]
    <3> HIDE DEF Call
    <3> QED
      BY <2>1, <2>3 DEF ApiRestart
  <2> QED
    BY <2>4, <2>5
<1>2. ApiTypeOK'
  BY <1>1 DEF KeysInv, ApiTypeOK, ApiRestart, NoRecord
<1>3. life \in Nat /\ life' = life + 1 /\ \A c \in ApiCalls : calls[c].life \in Nat /\ calls[c].life <= life
  BY DEF KeysInv, ApiTypeOK, Call, ApiRestart, CallFacts
<1>4. \A k \in Keys : records'[k] = NoRecord
  BY DEF ApiRestart
<1>5. Served' = {}
  BY <1>1, <1>3 DEF Served, Now
<1>6. TokensAreCounted'
  BY <1>5, FS_EmptySet DEF TokensAreCounted, ApiRestart
<1>7. \A k \in Keys : RecordFacts(k)'
  BY <1>4 DEF RecordFacts, NoRecord
<1>8. ASSUME NEW c \in ApiCalls PROVE CallFacts(c)'
  <2>1. CallFacts(c)
    BY DEF KeysInv
  <2>2. ASSUME calls[c].state = "200" PROVE Answers(c, calls[c].response)'
    BY <1>1, <2>1, <2>2 DEF CallFacts, Answers, Key, Waiting
  <2> QED
    BY <1>1, <1>3, <2>1, <2>2 DEF CallFacts, HasKey, Key, Took, Waiting
<1>9. TookOnce'
  <2>1. \A c \in ApiCalls : Took(c)' => Took(c)
    BY <1>1 DEF Took, Waiting
  <2> QED
    BY <1>1, <2>1 DEF KeysInv, TookOnce, HasKey, Key
<1> QED
  BY <1>2, <1>6, <1>7, <1>8, <1>9 DEF KeysInv

\* A new call that becomes e, which took nothing.
Starts(c, e) ==
  /\ c \in ApiCalls /\ e \in Call /\ calls' = [calls EXCEPT ![c] = e]
  /\ calls[c].state = "new" /\ e.state \in {"admitted", "429"} /\ e.life = life /\ ~e.ran
  /\ life' = life /\ ticks' = ticks /\ records' = records

LEMMA StartKeeps ==
  ASSUME KeysInv, NEW c, NEW e, Starts(c, e), bucket' \in 0..Capacity, TokensAreCounted'
  PROVE  KeysInv'
<1>1. /\ calls' \in [ApiCalls -> Call] /\ calls'[c] = e
      /\ \A d \in ApiCalls : d # c => calls'[d] = calls[d]
  <2> HIDE DEF Call
  <2> QED
    BY DEF KeysInv, ApiTypeOK, Starts
<1>2. ApiTypeOK'
  BY <1>1 DEF KeysInv, ApiTypeOK, Starts
<1>3. CallFacts(c) /\ life \in Nat \ {0}
  BY DEF KeysInv, ApiTypeOK, Starts
<1>4. ~Took(c) /\ ~Took(c)'
  BY <1>1, <1>3 DEF Took, CallFacts, Starts
<1>5. \A d, ran \in ApiCalls : Answers(d, ran) => ran # c
  BY DEF Answers, Starts
<1>6. ASSUME NEW d \in ApiCalls PROVE CallFacts(d)'
  <2>1. CASE d = c
    BY <1>1, <1>3, <1>4, <2>1 DEF CallFacts, Starts, Waiting
  <2>2. CASE d # c
    <3>1. CallFacts(d) /\ calls'[d] = calls[d]
      BY <1>1, <2>2 DEF KeysInv
    <3>2. ASSUME Answers(d, calls[d].response) PROVE Answers(d, calls[d].response)'
      BY <1>1, <1>5, <3>1, <3>2 DEF Answers, Key
    <3> QED
      BY <3>1, <3>2 DEF CallFacts, HasKey, Key, Took, Waiting, Starts
  <2> QED
    BY <2>1, <2>2
<1>7. TookOnce'
  BY <1>1, <1>4 DEF KeysInv, TookOnce, Took, HasKey, Key
<1>8. ASSUME NEW k \in Keys PROVE RecordFacts(k)'
  <2>1. RecordFacts(k) /\ records[k].response \in ApiCalls \cup {"none"}
    BY DEF KeysInv, ApiTypeOK
  <2>2. ASSUME records[k].response # "none" PROVE records[k].response # c
    BY <2>1, <2>2 DEF RecordFacts, Starts
  <2> QED
    BY <1>1, <2>1, <2>2 DEF RecordFacts, Now, Key, Starts
<1> QED
  BY <1>2, <1>6, <1>7, <1>8 DEF KeysInv

LEMMA ConsumeStep ==
  ASSUME KeysInv, NEW c \in ApiCalls, Consume(c)
  PROVE  KeysInv'
<1> DEFINE x == calls[c]
<1>1. PICK path \in Paths, key \in Keys \cup {NoKey}, authorised \in BOOLEAN :
        calls' = [calls EXCEPT ![c] = [@ EXCEPT !.state = "admitted", !.life = life, !.path = path,
                                                !.key = key, !.authorised = authorised]]
  BY DEF Consume
<1>2. x \in Call /\ life \in Nat /\ CallFacts(c) /\ x.state = "new"
  BY DEF KeysInv, ApiTypeOK, Consume
<1> DEFINE e == [x EXCEPT !.state = "admitted", !.life = life, !.path = path, !.key = key,
                          !.authorised = authorised]
<1>3. e \in Call
  BY <1>2, CallMade
<1>4. e.state = "admitted" /\ e.life = life /\ e.ran = x.ran
  BY <1>2 DEF Call
<1>5. Starts(c, e)
  <2>1. calls' = [calls EXCEPT ![c] = e]
    BY <1>1
  <2> HIDE DEF e
  <2> QED
    BY <1>2, <1>3, <1>4, <2>1 DEF Starts, Consume, CallFacts
<1> HIDE DEF e
<1>6. bucket \in Nat /\ bucket' = bucket - 1 /\ bucket' \in 0..Capacity /\ Refill * ticks \in Nat
  BY ApiAssumption DEF Consume, Allowed, KeysInv, ApiTypeOK
<1>7. c \notin Served /\ IsFiniteSet(Served)
  BY <1>2, ApiAssumption, FS_Subset DEF Served, Now, CallFacts, KeysInv, ApiTypeOK
<1>8. Served' = Served \cup {c}
  BY <1>4, <1>5 DEF Served, Now, Starts, KeysInv, ApiTypeOK
<1>9. Cardinality(Served') = Cardinality(Served) + 1 /\ Cardinality(Served) \in Nat
  BY <1>7, <1>8, FS_AddElement, FS_CardinalityType
<1>10. TokensAreCounted'
  BY <1>5, <1>6, <1>9, ApiAssumption DEF TokensAreCounted, KeysInv, Starts
<1> QED
  BY <1>5, <1>6, <1>10, StartKeeps

LEMMA TooManyStep ==
  ASSUME KeysInv, NEW c \in ApiCalls, TooMany(c)
  PROVE  KeysInv'
<1> DEFINE x == calls[c]
           e == [x EXCEPT !.state = "429", !.life = life]
<1>1. x \in Call /\ life \in Nat /\ CallFacts(c) /\ x.state = "new"
  BY DEF KeysInv, ApiTypeOK, TooMany
<1>2. e \in Call
  BY <1>1, CallGoes DEF StatusCodes
<1>3. e.state = "429" /\ e.life = life /\ e.ran = x.ran
  BY <1>1 DEF Call
<1>4. Starts(c, e)
  <2>1. calls' = [calls EXCEPT ![c] = e]
    BY DEF TooMany
  <2> HIDE DEF e
  <2> QED
    BY <1>1, <1>2, <1>3, <2>1 DEF Starts, TooMany, CallFacts
<1> HIDE DEF e
<1>5. Served' = Served /\ bucket' = bucket
  BY <1>1, <1>3, <1>4 DEF Served, Now, Starts, CallFacts, TooMany, KeysInv, ApiTypeOK
<1>6. TokensAreCounted' /\ bucket' \in 0..Capacity
  BY <1>4, <1>5 DEF TokensAreCounted, KeysInv, ApiTypeOK, Starts
<1> QED
  BY <1>4, <1>6, StartKeeps

LEMMA KeysInvInit == ApiInit => KeysInv
<1> SUFFICES ASSUME ApiInit PROVE KeysInv
  OBVIOUS
<1> USE ApiAssumption DEF ApiInit
<1>1. \A c \in ApiCalls : /\ calls[c].state = "new" /\ calls[c].life = 0 /\ ~calls[c].ran
                         /\ calls[c] \in Call
  BY NewCallType DEF NewCall
<1>2. calls \in [ApiCalls -> Call]
  BY <1>1
<1>3. ApiTypeOK
  BY <1>2 DEF ApiTypeOK, NoRecord
<1>4. \A c \in ApiCalls : CallFacts(c)
  BY <1>1 DEF CallFacts, Took, Waiting
<1>5. TookOnce /\ \A k \in Keys : RecordFacts(k)
  BY <1>1 DEF TookOnce, Took, RecordFacts, NoRecord
<1>6. Served = {}
  BY <1>1 DEF Served, Now
<1>7. TokensAreCounted
  BY <1>6, FS_EmptySet DEF TokensAreCounted
<1> QED
  BY <1>3, <1>4, <1>5, <1>7 DEF KeysInv

LEMMA KeysInvStep == KeysInv /\ [ApiNext]_papi => KeysInv'
<1> SUFFICES ASSUME KeysInv, [ApiNext]_papi PROVE KeysInv'
  OBVIOUS
<1>1. CASE ApiNext
  BY <1>1, RefillStep, RestartStep, ConsumeStep, TooManyStep, UnauthorisedStep, AcquireStep,
     GetResponseStep, NotFoundStep, CallHandlerStep, HandlerReturnsStep, HandlerThrowsStep DEF ApiNext
<1>2. CASE UNCHANGED papi
  BY <1>2 DEF papi, KeysInv, ApiTypeOK, CallFacts, TookOnce, RecordFacts, TokensAreCounted, Served, Now,
              Answers, Took, HasKey, Key
<1> QED
  BY <1>1, <1>2

LEMMA KeysInvImplies == KeysInv => KeysAreKept
<1> SUFFICES ASSUME KeysInv PROVE KeysAreKept
  OBVIOUS
<1>1. \A c \in ApiCalls : CallFacts(c)
  BY DEF KeysInv
<1>2. \A c, d \in ApiCalls :
        calls[c].ran /\ calls[d].ran /\ HasKey(c) /\ Key(c) = Key(d) /\ calls[c].life = calls[d].life => c = d
  BY DEF KeysInv, TookOnce, Took
<1>3. \A c \in ApiCalls : calls[c].state = "200" => Answers(c, calls[c].response)
  BY <1>1 DEF CallFacts
<1>4. \A k \in Keys : records[k].status = "STARTED" =>
        \E c \in Now : Key(c) = k /\ calls[c].state \in {"acquired", "running"}
  BY DEF KeysInv, RecordFacts
<1>5. Cardinality({c \in Now : calls[c].state # "429"}) <= Capacity + Refill * ticks
  <2>1. IsFiniteSet(Served)
    BY ApiAssumption, FS_Subset DEF Served, Now
  <2>2. Cardinality(Served) \in Nat /\ bucket \in Nat /\ Refill * ticks \in Nat
    BY <2>1, FS_CardinalityType, ApiAssumption DEF KeysInv, ApiTypeOK
  <2> QED
    BY <2>2, ApiAssumption DEF KeysInv, TokensAreCounted, Served
<1> QED
  BY <1>2, <1>3, <1>4, <1>5 DEF KeysInv, KeysAreKept, Answers

(* For any number of calls, keys and restarts, and any bucket: a key's handler *)
(* runs once in a life of the process, a 200 tells of that run, no key stays   *)
(* taken by a request that ended, and no more calls are served than there were *)
(* tokens (ApiGateway.handleRequest, IdempotencyManager).                      *)
THEOREM KeysStayKept == ApiSpec => []KeysAreKept
BY KeysInvInit, KeysInvStep, KeysInvImplies, PTL DEF ApiSpec

-----------------------------------------------------------------------------
(* RemittanceApp: the pages, the exchanges they wait for, and the gateway. *)

Kinds == {"login", "signup", "list", "detail", "quote", "transfer"}

\* The fields of an exchange and of a page; what a body or an answer may be is
\* said where it matters.
IsExchange(m) ==
  /\ m = [kind |-> m.kind, auth |-> m.auth, body |-> m.body, mounted |-> m.mounted,
          open |-> m.open, answer |-> m.answer]
  /\ m.kind \in Kinds /\ m.auth \in UserOrNone /\ m.mounted \in BOOLEAN /\ m.open \in BOOLEAN
  /\ m.kind \in {"quote", "transfer"} => m.body.amount \in Nat

IsView(v) ==
  /\ v = [page |-> v.page, order |-> v.order, step |-> v.step, loading |-> v.loading,
          quote |-> v.quote, receipt |-> v.receipt, shown |-> v.shown]
  /\ v.page \in Pages /\ v.step \in 1 .. 3 /\ v.loading \in BOOLEAN

Told(m) == m.answer # Nothing /\ m.answer # Refused

\* What a page may wait for.
Awaited(page) ==
  {k \in Kinds : \/ k \in {"login", "signup"} /\ page = k
                 \/ k = "list" /\ page = "dashboard"
                 \/ k = "detail" /\ page = "tx"
                 \/ k \in {"quote", "transfer"} /\ page = "send"}

FormsFit ==
  /\ \A m \in net : IsExchange(m)
  /\ IsView(view)
  /\ \A m \in net : m.mounted => m.open /\ m.kind \in Awaited(view.page)
  /\ \A m, n \in net :
       m.mounted /\ n.mounted /\ m.kind \notin {"list", "detail"} /\ n.kind \notin {"list", "detail"}
         => m = n

UsersFit ==
  /\ issued = [users |-> issued.users, quotes |-> issued.quotes, orders |-> issued.orders]
  /\ issued.users \in Nat /\ issued.quotes \in Nat /\ issued.orders \in Nat
  /\ \A u \in users : u.id \in 1 .. MaxUsers
  /\ \A m \in net : m.kind \in {"login", "signup"} /\ Told(m) => m.answer.id \in 1 .. MaxUsers

\* The quotes that somebody has: the gateway, the network and the page.
Priced ==
  quotes \cup {m.answer : m \in {x \in net : x.kind = "quote" /\ Told(x)}}
         \cup ({view.quote} \ {Nothing})

QuotesFit ==
  /\ \A q \in Priced : q.id \in 1 .. issued.quotes /\ q.amount \in Nat /\ q.dest = Converted(q.amount)
  /\ \A q, r \in Priced : q.id = r.id => q = r

IsTransfer(m, id) == m \in net /\ m.kind = "transfer" /\ m.body.quote = id

\* A transfer is of a quote and repeats its amount, and so does its answer.
TransfersFit ==
  /\ \A m \in net : m.kind = "transfer" =>
       /\ m.body.quote \in 1 .. issued.quotes
       /\ \A q \in Priced : q.id = m.body.quote => q.amount = m.body.amount
       /\ Told(m) => /\ m.answer.quote = m.body.quote
                     /\ m.answer.amount = m.body.amount
                     /\ m.answer.dest = Converted(m.body.amount)
  /\ \A o \in orders : o.quote \in 1 .. issued.quotes

\* Only the page for sending has a quote, and it keeps it while it waits.
PagesFit ==
  /\ view.page # "send" => view.quote = Nothing
  /\ \A m \in net : m.kind = "transfer" /\ m.mounted =>
       view.quote # Nothing /\ view.quote.id = m.body.quote

Unused(id) == (\A o \in orders : o.quote # id) /\ \A m \in net : ~IsTransfer(m, id)

\* Unless its customer was told of a failure a quote has one order, and none
\* while its transfer is not answered.
OrderedOnce ==
  \A id \in (1 .. issued.quotes) \ failed :
    /\ \A o, p \in orders : o.quote = id /\ p.quote = id => o = p
    /\ \A m \in net : IsTransfer(m, id) /\ m.answer = Nothing => \A o \in orders : o.quote # id

SentOnce ==
  \A id \in (1 .. issued.quotes) \ failed :
    \A m, n \in net : IsTransfer(m, id) /\ IsTransfer(n, id) => m = n

\* A quote that arrives was not transferred, nor was the one that the page shows
\* and waits for nobody to transfer.
QuotesAreNew == \A m \in net : m.kind = "quote" /\ Told(m) => Unused(m.answer.id)

PageIsNew ==
  \/ view.quote = Nothing \/ view.step = 3 \/ \E m \in net : m.kind = "transfer" /\ m.mounted
  \/ view.quote.id \in failed \/ Unused(view.quote.id)

DataInv == UsersFit /\ QuotesFit /\ TransfersFit /\ OrderedOnce /\ QuotesAreNew
PageInv == AppTypeOK /\ FormsFit /\ PagesFit /\ SentOnce /\ PageIsNew /\ ReceiptMatchesReview

AppInv == DataInv /\ PageInv

-----------------------------------------------------------------------------
(* An exchange whose page was left. *)
Kept(m, stays) ==
  [kind |-> m.kind, auth |-> m.auth, body |-> m.body, mounted |-> FALSE,
   open |-> IF stays THEN m.open ELSE FALSE, answer |-> m.answer]

(* What an answer changes of an exchange, and what leaving its page does. *)
LEMMA AnswerFacts ==
  ASSUME NEW m, IsExchange(m), NEW a, NEW n, n = [m EXCEPT !.answer = a]
  PROVE  /\ IsExchange(n) /\ n.kind = m.kind /\ n.body = m.body /\ n.auth = m.auth
         /\ n.mounted = m.mounted /\ n.open = m.open /\ n.answer = a
         /\ a = m.answer => n = m
<1>1. n = [kind |-> m.kind, auth |-> m.auth, body |-> m.body, mounted |-> m.mounted,
           open |-> m.open, answer |-> a]
  BY DEF IsExchange
<1> QED
  BY <1>1 DEF IsExchange

LEMMA KeptFacts ==
  ASSUME NEW m, IsExchange(m), NEW stays \in BOOLEAN
  PROVE  /\ IsExchange(Kept(m, stays)) /\ Kept(m, stays).kind = m.kind
         /\ Kept(m, stays).body = m.body /\ Kept(m, stays).answer = m.answer
         /\ Kept(m, stays).mounted = FALSE
BY DEF IsExchange, Kept

LEMMA LeftIsKept ==
  ASSUME NEW m, IsExchange(m), NEW n, n = [m EXCEPT !.mounted = FALSE]
  PROVE  n = Kept(m, TRUE)
BY DEF IsExchange, Kept

LEMMA ClosedIsKept ==
  ASSUME NEW m, IsExchange(m), NEW n, n = [m EXCEPT !.mounted = FALSE, !.open = FALSE]
  PROVE  n = Kept(m, FALSE)
BY DEF IsExchange, Kept

(* What the handlers of a page change of its state. *)
LEMMA LoadingFacts ==
  ASSUME NEW v, IsView(v), NEW b \in BOOLEAN, NEW w, w = [v EXCEPT !.loading = b]
  PROVE  /\ IsView(w) /\ w.page = v.page /\ w.step = v.step /\ w.quote = v.quote
         /\ w.receipt = v.receipt /\ w.loading = b
<1>1. w = [page |-> v.page, order |-> v.order, step |-> v.step, loading |-> b,
           quote |-> v.quote, receipt |-> v.receipt, shown |-> v.shown]
  BY DEF IsView
<1> QED
  BY <1>1 DEF IsView

LEMMA BackFacts ==
  ASSUME NEW v, IsView(v), NEW w, w = [v EXCEPT !.step = 1]
  PROVE  /\ IsView(w) /\ w.page = v.page /\ w.step = 1 /\ w.quote = v.quote
         /\ w.receipt = v.receipt /\ w.loading = v.loading
<1>1. w = [page |-> v.page, order |-> v.order, step |-> 1, loading |-> v.loading,
           quote |-> v.quote, receipt |-> v.receipt, shown |-> v.shown]
  BY DEF IsView
<1> QED
  BY <1>1 DEF IsView

LEMMA ShownFacts ==
  ASSUME NEW v, IsView(v), NEW x, NEW w, w = [v EXCEPT !.shown = x]
  PROVE  /\ IsView(w) /\ w.page = v.page /\ w.step = v.step /\ w.quote = v.quote
         /\ w.receipt = v.receipt /\ w.loading = v.loading
<1>1. w = [page |-> v.page, order |-> v.order, step |-> v.step, loading |-> v.loading,
           quote |-> v.quote, receipt |-> v.receipt, shown |-> x]
  BY DEF IsView
<1> QED
  BY <1>1 DEF IsView

LEMMA QuotedFacts ==
  ASSUME NEW v, IsView(v), NEW x, NEW w,
         w = [page |-> v.page, order |-> v.order, step |-> 2, loading |-> FALSE,
              quote |-> x, receipt |-> v.receipt, shown |-> v.shown]
  PROVE  /\ IsView(w) /\ w.page = v.page /\ w.step = 2 /\ w.quote = x
         /\ w.receipt = v.receipt /\ w.loading = FALSE
<1>2. /\ w.page = v.page /\ w.step = 2 /\ w.quote = x /\ w.receipt = v.receipt
      /\ w.loading = FALSE /\ w.order = v.order /\ w.shown = v.shown
  OBVIOUS
<1>3. w.page \in Pages /\ w.step \in 1 .. 3 /\ w.loading \in BOOLEAN
  BY <1>2 DEF IsView
<1>4. w = [page |-> w.page, order |-> w.order, step |-> w.step, loading |-> w.loading,
           quote |-> w.quote, receipt |-> w.receipt, shown |-> w.shown]
  BY <1>2, Zenon
<1>5. IsView(w)
  BY <1>3, <1>4, Zenon DEF IsView
<1> QED
  BY <1>2, <1>5

LEMMA ReceivedFacts ==
  ASSUME NEW v, IsView(v), NEW x, NEW w,
         w = [page |-> v.page, order |-> v.order, step |-> 3, loading |-> FALSE,
              quote |-> v.quote, receipt |-> x, shown |-> v.shown]
  PROVE  /\ IsView(w) /\ w.page = v.page /\ w.step = 3 /\ w.quote = v.quote
         /\ w.receipt = x /\ w.loading = FALSE
<1>2. /\ w.page = v.page /\ w.step = 3 /\ w.quote = v.quote /\ w.receipt = x
      /\ w.loading = FALSE /\ w.order = v.order /\ w.shown = v.shown
  OBVIOUS
<1>3. w.page \in Pages /\ w.step \in 1 .. 3 /\ w.loading \in BOOLEAN
  BY <1>2 DEF IsView
<1>4. w = [page |-> w.page, order |-> w.order, step |-> w.step, loading |-> w.loading,
           quote |-> w.quote, receipt |-> w.receipt, shown |-> w.shown]
  BY <1>2, Zenon
<1>5. IsView(w)
  BY <1>3, <1>4, Zenon DEF IsView
<1> QED
  BY <1>2, <1>5

(* The page that is mounted anew. *)
LEMMA NewViewFacts ==
  ASSUME NEW page \in Pages, NEW order
  PROVE  /\ IsView(NewView(page, order)) /\ NewView(page, order).page = page
         /\ NewView(page, order).step = 1 /\ NewView(page, order).quote = Nothing
         /\ NewView(page, order).loading = FALSE
BY DEF IsView, NewView

-----------------------------------------------------------------------------
(* What the gateway and the network hold. *)

(* Steps that ask, answer without an order, drop or leave keep the data: a  *)
(* new exchange is no transfer, an old one keeps its answer or is refused.  *)
LEMMA DataKept ==
  ASSUME DataInv, orders' \subseteq orders, quotes' \subseteq quotes,
         issued'.quotes = issued.quotes, failed \subseteq failed',
         view'.quote \in Priced \cup {Nothing},
         \A n \in net' :
           \/ n.kind \in {"list", "detail", "login", "signup"}
           \/ n.kind = "quote" /\ n.answer = Nothing
           \/ \E m \in net : /\ n.kind = m.kind /\ n.body = m.body
                             /\ n.answer \in {m.answer, Refused}
  PROVE  /\ QuotesFit' /\ TransfersFit' /\ OrderedOnce' /\ QuotesAreNew'
         /\ \A id : Unused(id) => Unused(id)'
<1>1. Priced' \subseteq Priced
  <2> SUFFICES ASSUME NEW q \in Priced' PROVE q \in Priced
    OBVIOUS
  <2>1. CASE q \in quotes'
    BY <2>1 DEF Priced
  <2>2. CASE q \in {view'.quote} \ {Nothing}
    BY <2>2
  <2>3. CASE \E n \in net' : n.kind = "quote" /\ n.answer # Nothing /\ n.answer # Refused /\ q = n.answer
    BY <2>3 DEF Priced, Told
  <2> QED
    BY <2>1, <2>2, <2>3 DEF Priced, Told
<1>2. QuotesFit'
  BY <1>1 DEF DataInv, QuotesFit
<1>3. \A n \in net' : n.kind = "transfer" =>
        \E m \in net : /\ m.kind = "transfer" /\ n.body = m.body
                       /\ n.answer \in {m.answer, Refused}
  OBVIOUS
<1>4. TransfersFit'
  <2>1. \A o \in orders' : o.quote \in 1 .. issued'.quotes
    BY DEF DataInv, TransfersFit
  <2>2. ASSUME NEW n \in net', n.kind = "transfer"
        PROVE  /\ n.body.quote \in 1 .. issued'.quotes
               /\ \A q \in Priced' : q.id = n.body.quote => q.amount = n.body.amount
               /\ n.answer # Nothing /\ n.answer # Refused =>
                    /\ n.answer.quote = n.body.quote
                    /\ n.answer.amount = n.body.amount
                    /\ n.answer.dest = Converted(n.body.amount)
    <3>1. PICK m \in net : m.kind = "transfer" /\ n.body = m.body /\ n.answer \in {m.answer, Refused}
      BY <1>3, <2>2
    <3>2. /\ m.body.quote \in 1 .. issued.quotes
          /\ \A q \in Priced : q.id = m.body.quote => q.amount = m.body.amount
          /\ m.answer # Nothing /\ m.answer # Refused =>
               /\ m.answer.quote = m.body.quote
               /\ m.answer.amount = m.body.amount
               /\ m.answer.dest = Converted(m.body.amount)
      BY <3>1 DEF DataInv, TransfersFit, Told
    <3> QED
      BY <1>1, <3>1, <3>2
  <2> QED
    BY <2>1, <2>2 DEF TransfersFit, Told
<1>5. \A id : Unused(id) => Unused(id)'
  BY <1>3 DEF Unused, IsTransfer
<1>6. OrderedOnce'
  <2> SUFFICES ASSUME NEW id \in (1 .. issued.quotes) \ failed
               PROVE  /\ \A o, p \in orders' : o.quote = id /\ p.quote = id => o = p
                      /\ \A n \in net' : n.kind = "transfer" /\ n.body.quote = id /\ n.answer = Nothing
                           => \A o \in orders' : o.quote # id
    BY DEF OrderedOnce, IsTransfer
  <2>1. /\ \A o, p \in orders : o.quote = id /\ p.quote = id => o = p
        /\ \A m \in net : m.kind = "transfer" /\ m.body.quote = id /\ m.answer = Nothing
             => \A o \in orders : o.quote # id
    BY DEF DataInv, OrderedOnce, IsTransfer
  <2> QED
    BY <1>3, <2>1, GatewayAssumption
<1>7. QuotesAreNew'
  <2> SUFFICES ASSUME NEW n \in net', n.kind = "quote", n.answer # Nothing, n.answer # Refused
               PROVE  Unused(n.answer.id)'
    BY DEF QuotesAreNew, Told
  <2>1. PICK m \in net : m.kind = "quote" /\ n.answer = m.answer
    OBVIOUS
  <2> QED
    BY <1>5, <2>1 DEF DataInv, QuotesAreNew, Told
<1> QED
  BY <1>2, <1>4, <1>5, <1>6, <1>7

(* Users are known by what they were answered. *)
LEMMA UsersKept ==
  ASSUME UsersFit, users' \subseteq users, issued' = issued,
         \A n \in net' : \/ n.kind \notin {"login", "signup"} \/ n.answer = Nothing
                         \/ \E m \in net : /\ n.kind = m.kind
                                           /\ n.answer \in {m.answer, Refused}
  PROVE  UsersFit'
BY DEF UsersFit, Told

-----------------------------------------------------------------------------
(* The page and the exchanges it waits for. *)

(* Exchanges are answered, and neither the client nor the page changes. *)
LEMMA Answering ==
  ASSUME DataInv, PageInv, token' = token, view' = view, failed' = failed,
         issued'.quotes = issued.quotes \/ issued'.quotes = issued.quotes + 1,
         NEW f, net' = {f[m] : m \in net}, \A m \in net : \E a : f[m] = [m EXCEPT !.answer = a],
         \A id : Unused(id) => Unused(id)'
  PROVE  PageInv'
<1>1. \A m \in net : /\ IsExchange(f[m]) /\ f[m].kind = m.kind /\ f[m].body = m.body
                     /\ f[m].mounted = m.mounted /\ f[m].open = m.open
  <2> TAKE m \in net
  <2>1. PICK a : f[m] = [m EXCEPT !.answer = a]
    OBVIOUS
  <2>2. IsExchange(m)
    BY DEF PageInv, FormsFit
  <2> QED
    BY <2>1, <2>2, AnswerFacts
<1>2. \A n \in net' : \E m \in net : n = f[m]
  OBVIOUS
<1>3. token' = token /\ view' = view /\ failed' = failed
  OBVIOUS
<1>4. view'.loading <=> \E n \in net' : n.mounted /\ n.kind \notin {"list", "detail"}
  BY <1>1, <1>3 DEF PageInv, AppTypeOK
<1>5. AppTypeOK'
  <2>1. \A n \in net' : n.kind \in {"list", "detail", "quote"} => n.mounted
    BY <1>1, <1>2 DEF PageInv, AppTypeOK
  <2> QED
    BY <1>3, <1>4, <2>1 DEF PageInv, AppTypeOK
<1>6. FormsFit'
  <2>1. \A m, n \in net' :
          m.mounted /\ n.mounted /\ m.kind \notin {"list", "detail"} /\ n.kind \notin {"list", "detail"}
            => m = n
    BY <1>1, <1>2 DEF PageInv, FormsFit
  <2>2. \A n \in net' : n.mounted => n.open /\ n.kind \in Awaited(view.page)
    BY <1>1, <1>2 DEF PageInv, FormsFit
  <2> QED
    BY <1>1, <1>2, <1>3, <2>1, <2>2 DEF PageInv, FormsFit
<1>7. PagesFit'
  BY <1>1, <1>2, <1>3 DEF PageInv, PagesFit
<1>8. SentOnce'
  <2> SUFFICES ASSUME NEW id \in (1 .. issued'.quotes) \ failed, NEW x \in net', NEW y \in net',
                      x.kind = "transfer", y.kind = "transfer",
                      x.body.quote = id, y.body.quote = id
               PROVE  x = y
    BY <1>3 DEF SentOnce, IsTransfer
  <2>1. PICK m \in net, n \in net : x = f[m] /\ y = f[n]
    OBVIOUS
  <2>2. IsTransfer(m, id) /\ IsTransfer(n, id)
    BY <1>1, <2>1 DEF IsTransfer
  <2>3. id \in 1 .. issued.quotes
    BY <2>2 DEF DataInv, TransfersFit, IsTransfer
  <2>4. m = n
    BY <2>2, <2>3 DEF PageInv, SentOnce
  <2> QED
    BY <2>1, <2>4
<1>9. PageIsNew'
  <2>1. ASSUME NEW m \in net, m.kind = "transfer", m.mounted
        PROVE  \E n \in net' : n.kind = "transfer" /\ n.mounted
    BY <1>1, <2>1
  <2> QED
    BY <1>3, <2>1 DEF PageInv, PageIsNew
<1>10. ReceiptMatchesReview'
  BY <1>3 DEF PageInv, ReceiptMatchesReview
<1> QED
  BY <1>5, <1>6, <1>7, <1>8, <1>9, <1>10 DEF PageInv

(* What a page asks for when it is mounted, it waits for and nobody answered. *)
LEMMA OnMountFacts ==
  ASSUME NEW page, NEW order, NEW auth \in UserOrNone, NEW n \in OnMount(page, order, auth)
  PROVE  /\ IsExchange(n) /\ n.mounted = TRUE /\ n.open = TRUE /\ n.answer = Nothing
         /\ n.kind \in {"list", "detail"} /\ n.kind \in Awaited(page)
<1>1. \/ page = "dashboard" /\ n = Request("list", auth, Nothing)
      \/ page = "tx" /\ n = Request("detail", auth, [order |-> order])
  BY DEF OnMount
<1>2. CASE page = "dashboard" /\ n = Request("list", auth, Nothing)
  <2>1. "list" \in Kinds
    BY DEF Kinds
  <2>2. IsExchange(n) /\ n.mounted = TRUE /\ n.open = TRUE /\ n.answer = Nothing /\ n.kind = "list"
    BY <1>2, <2>1 DEF Request, IsExchange
  <2> QED
    BY <1>2, <2>1, <2>2 DEF Awaited
<1>3. CASE page = "tx" /\ n = Request("detail", auth, [order |-> order])
  <2>1. "detail" \in Kinds
    BY DEF Kinds
  <2>2. IsExchange(n) /\ n.mounted = TRUE /\ n.open = TRUE /\ n.answer = Nothing /\ n.kind = "detail"
    BY <1>3, <2>1 DEF Request, IsExchange
  <2> QED
    BY <1>3, <2>1, <2>2 DEF Awaited
<1> QED
  BY <1>1, <1>2, <1>3

(* Another page is mounted. *)
LEMMA NewPage ==
  ASSUME DataInv, PageInv, NEW page \in Pages, NEW order, NEW auth \in UserOrNone,
         NEW stays \in BOOLEAN,
         view' = NewView(page, order), token' \in UserOrNone, page \in Protected => token' # Nothing,
         failed' = failed, issued' = issued,
         \A n \in net' : \/ n \in OnMount(page, order, auth)
                         \/ \E m \in net : n = Kept(m, stays) /\ m.kind \in {"login", "signup", "transfer"}
  PROVE  PageInv'
<1>1. IsView(view') /\ view'.page = page /\ view'.step = 1 /\ view'.quote = Nothing
      /\ view'.loading = FALSE
  BY NewViewFacts
<1>2. \A n \in OnMount(page, order, auth) :
        /\ IsExchange(n) /\ n.mounted = TRUE /\ n.open = TRUE /\ n.answer = Nothing
        /\ n.kind \in {"list", "detail"} /\ n.kind \in Awaited(page)
  BY OnMountFacts
<1>3. \A m \in net : /\ IsExchange(Kept(m, stays)) /\ Kept(m, stays).kind = m.kind
                     /\ Kept(m, stays).body = m.body /\ Kept(m, stays).mounted = FALSE
  BY KeptFacts DEF PageInv, FormsFit
<1>4. \A n \in net' : /\ IsExchange(n) /\ (n.mounted => n.open /\ n.kind \in Awaited(page))
                      /\ (n.mounted <=> n.kind \in {"list", "detail"})
                      /\ n.kind \in {"list", "detail", "login", "signup", "transfer"}
  BY <1>2, <1>3
<1>5. AppTypeOK'
  BY <1>1, <1>4 DEF AppTypeOK
<1>6. FormsFit'
  BY <1>1, <1>4 DEF FormsFit
<1>7. PagesFit'
  BY <1>1, <1>4 DEF PagesFit
<1>8. SentOnce'
  <2> SUFFICES ASSUME NEW id \in (1 .. issued.quotes) \ failed, NEW x \in net', NEW y \in net',
                      x.kind = "transfer", y.kind = "transfer",
                      x.body.quote = id, y.body.quote = id
               PROVE  x = y
    BY DEF SentOnce, IsTransfer
  <2>1. PICK m \in net, n \in net : x = Kept(m, stays) /\ y = Kept(n, stays)
    BY <1>2
  <2>2. IsTransfer(m, id) /\ IsTransfer(n, id)
    BY <1>3, <2>1 DEF IsTransfer
  <2>3. m = n
    BY <2>2 DEF PageInv, SentOnce
  <2> QED
    BY <2>1, <2>3
<1>9. PageIsNew'
  BY <1>1 DEF PageIsNew
<1>10. ReceiptMatchesReview'
  BY <1>1 DEF ReceiptMatchesReview
<1> QED
  BY <1>5, <1>6, <1>7, <1>8, <1>9, <1>10 DEF PageInv

(* What waits does not: nobody waits for a page that is not loading. *)
LEMMA NobodyWaits ==
  ASSUME PageInv, ~view.loading
  PROVE  \A m \in net : m.mounted => m.kind \in {"list", "detail"}
BY DEF PageInv, AppTypeOK

(* An exchange that no button waits for is over. *)
LEMMA Dropped ==
  ASSUME PageInv, NEW m \in net, net' = net \ {m}, issued' = issued, orders' = orders,
         m.mounted => m.kind \in {"list", "detail"},
         IsView(view'), view'.page = view.page, view'.step = view.step, view'.quote = view.quote,
         view'.receipt = view.receipt, view'.loading = view.loading,
         token' \in UserOrNone, token # Nothing => token' # Nothing, failed \subseteq failed'
  PROVE  PageInv'
<1>1. view'.loading <=> \E n \in net' : n.mounted /\ n.kind \notin {"list", "detail"}
  BY DEF PageInv, AppTypeOK
<1>2. AppTypeOK'
  BY <1>1 DEF PageInv, AppTypeOK
<1>3. FormsFit'
  BY DEF PageInv, FormsFit
<1>4. PagesFit'
  BY DEF PageInv, PagesFit
<1>5. SentOnce'
  BY DEF PageInv, SentOnce, IsTransfer
<1>6. PageIsNew'
  <2>1. \A id : Unused(id) => Unused(id)'
    BY DEF Unused, IsTransfer
  <2>2. \A n \in net : n.kind = "transfer" /\ n.mounted => n \in net'
    OBVIOUS
  <2> QED
    BY <2>1, <2>2 DEF PageInv, PageIsNew
<1>7. ReceiptMatchesReview'
  BY DEF PageInv, ReceiptMatchesReview
<1> QED
  BY <1>2, <1>3, <1>4, <1>5, <1>6, <1>7 DEF PageInv

(* The exchange that a button waits for is over, and the button can be used. *)
LEMMA Finished ==
  ASSUME PageInv, NEW m \in net, net' = net \ {m}, issued' = issued,
         m.mounted, m.kind \notin {"list", "detail"},
         IsView(view'), view'.page = view.page, view'.loading = FALSE, token' = token,
         failed \subseteq failed',
         view.page # "send" => view'.quote = Nothing,
         view.page = "send" => /\ view'.step >= 2 => view'.quote # Nothing
                               /\ view'.step = 3 => view'.receipt # Nothing
  PROVE  AppTypeOK' /\ FormsFit' /\ PagesFit' /\ SentOnce'
<1>1. \A n \in net' : n.mounted => n.kind \in {"list", "detail"}
  BY DEF PageInv, FormsFit
<1>2. AppTypeOK'
  BY <1>1 DEF PageInv, AppTypeOK
<1>3. FormsFit'
  BY <1>1 DEF PageInv, FormsFit
<1>4. PagesFit'
  BY <1>1 DEF PagesFit
<1>5. SentOnce'
  BY DEF PageInv, SentOnce, IsTransfer
<1> QED
  BY <1>2, <1>3, <1>4, <1>5

(* A button is used and waits. *)
LEMMA Asked ==
  ASSUME DataInv, PageInv, ~view.loading,
         NEW n, IsExchange(n), n.mounted = TRUE, n.open = TRUE, n.answer = Nothing,
         n.kind \in {"login", "signup", "quote", "transfer"}, n.kind \in Awaited(view.page),
         net' = net \cup {n}, issued' = issued, orders' = orders, token' = token, failed' = failed,
         IsView(view'), view'.page = view.page, view'.step = view.step, view'.quote = view.quote,
         view'.receipt = view.receipt, view'.loading = TRUE,
         n.kind = "transfer" => view.step = 2 /\ n.body.quote = view.quote.id
  PROVE  PageInv'
<1>1. \A m \in net : m.mounted => m.kind \in {"list", "detail"}
  BY NobodyWaits
<1>2. view'.loading <=> \E m \in net' : m.mounted /\ m.kind \notin {"list", "detail"}
  OBVIOUS
<1>3. AppTypeOK'
  BY <1>2 DEF PageInv, AppTypeOK
<1>4. FormsFit'
  BY <1>1 DEF PageInv, FormsFit
<1>5. n.kind = "transfer" => view.page = "send" /\ view.quote # Nothing
  BY DEF Awaited, PageInv, AppTypeOK
<1>6. PagesFit'
  BY <1>1, <1>5 DEF PageInv, PagesFit
<1>7. SentOnce'
  <2> SUFFICES ASSUME NEW id \in (1 .. issued.quotes) \ failed, NEW x \in net', NEW y \in net',
                      x.kind = "transfer", y.kind = "transfer", x.body.quote = id, y.body.quote = id
               PROVE  x = y
    BY DEF SentOnce, IsTransfer
  <2>1. CASE x \in net /\ y \in net
    BY <2>1 DEF PageInv, SentOnce, IsTransfer
  <2>2. CASE n.kind = "transfer" /\ n.body.quote = id
    <3>1. Unused(id)
      BY <1>1, <1>5, <2>2 DEF PageInv, PageIsNew
    <3>2. \A m \in net : ~(m.kind = "transfer" /\ m.body.quote = id)
      BY <3>1 DEF Unused, IsTransfer
    <3> QED
      BY <3>2
  <2> QED
    BY <2>1, <2>2
<1>8. PageIsNew'
  <2>1. CASE n.kind = "transfer"
    BY <2>1 DEF PageIsNew
  <2>2. CASE n.kind # "transfer"
    <3>1. \A id : Unused(id) => Unused(id)'
      BY <2>2 DEF Unused, IsTransfer
    <3> QED
      BY <1>1, <3>1 DEF PageInv, PageIsNew
  <2> QED
    BY <2>1, <2>2
<1>9. ReceiptMatchesReview'
  BY DEF PageInv, ReceiptMatchesReview
<1> QED
  BY <1>3, <1>4, <1>6, <1>7, <1>8, <1>9 DEF PageInv

(* A transfer that is sent is of a quote that was not transferred. *)
LEMMA TransferData ==
  ASSUME DataInv, PageInv, ~view.loading, view.page = "send", view.step = 2,
         NEW n, n.kind = "transfer", n.answer = Nothing,
         n.body.quote = view.quote.id, n.body.amount = view.quote.amount,
         net' = net \cup {n}, UNCHANGED gatewayVars, failed' = failed, view'.quote = view.quote
  PROVE  DataInv'
<1>1. users' = users /\ quotes' = quotes /\ orders' = orders /\ issued' = issued
  BY DEF gatewayVars
<1>2. view.quote # Nothing /\ view.quote \in Priced
  BY DEF PageInv, AppTypeOK, Priced
<1>3. \A m \in net : m.mounted => m.kind \in {"list", "detail"}
  BY NobodyWaits
<1>4. \A m \in net' : m.kind # "transfer" => m \in net
  OBVIOUS
<1>5. UsersFit'
  BY <1>1, <1>4 DEF DataInv, UsersFit
<1>6. Priced' = Priced
  BY <1>1, <1>4 DEF Priced
<1>7. QuotesFit'
  BY <1>1, <1>6 DEF DataInv, QuotesFit
<1>8. view.quote.id \in 1 .. issued.quotes
      /\ \A q \in Priced : q.id = view.quote.id => q = view.quote
  BY <1>2 DEF DataInv, QuotesFit
<1>9. TransfersFit'
  <2>1. n.body.quote \in 1 .. issued'.quotes
        /\ \A q \in Priced' : q.id = n.body.quote => q.amount = n.body.amount
    BY <1>1, <1>6, <1>8
  <2>2. ~(n.answer # Nothing)
    OBVIOUS
  <2> QED
    BY <1>1, <1>6, <2>1, <2>2 DEF DataInv, TransfersFit, Told
<1>10. view.quote.id \in failed \/ Unused(view.quote.id)
  BY <1>2, <1>3 DEF PageInv, PageIsNew
<1>11. OrderedOnce'
  <2> SUFFICES ASSUME NEW id \in (1 .. issued.quotes) \ failed
               PROVE  /\ \A o, p \in orders : o.quote = id /\ p.quote = id => o = p
                      /\ \A m \in net' : m.kind = "transfer" /\ m.body.quote = id /\ m.answer = Nothing
                           => \A o \in orders : o.quote # id
    BY <1>1 DEF OrderedOnce, IsTransfer
  <2>1. /\ \A o, p \in orders : o.quote = id /\ p.quote = id => o = p
        /\ \A m \in net : m.kind = "transfer" /\ m.body.quote = id /\ m.answer = Nothing
             => \A o \in orders : o.quote # id
    BY DEF DataInv, OrderedOnce, IsTransfer
  <2>2. n.body.quote = id => \A o \in orders : o.quote # id
    BY <1>10 DEF Unused
  <2> QED
    BY <2>1, <2>2
<1>12. QuotesAreNew'
  BY <1>3, <1>4 DEF PageInv, AppTypeOK, QuotesAreNew
<1> QED
  BY <1>5, <1>7, <1>9, <1>11, <1>12 DEF DataInv

-----------------------------------------------------------------------------
(* The gateway. *)

(* An answered exchange keeps all but its answer, and so do the others.      *)
LEMMA AnswerMaps ==
  ASSUME FormsFit, NEW m \in net, NEW a, Answer(m, a)
  PROVE  /\ \E n : /\ IsExchange(n) /\ n.kind = m.kind /\ n.body = m.body /\ n.answer = a
                   /\ net' = (net \ {m}) \cup {n}
         /\ \E f : /\ net' = {f[x] : x \in net}
                   /\ \A x \in net : \E b : f[x] = [x EXCEPT !.answer = b]
<1> DEFINE n == [m EXCEPT !.answer = a]
           f == [x \in net |-> IF x = m THEN n ELSE x]
<1>1. net' = (net \ {m}) \cup {n}
  BY DEF Answer
<1>2. IsExchange(n) /\ n.kind = m.kind /\ n.body = m.body /\ n.answer = a
  <2>1. IsExchange(m)
    BY DEF FormsFit
  <2> QED
    BY <2>1, AnswerFacts
<1>3. \A x \in net : \E b : f[x] = [x EXCEPT !.answer = b]
  <2> TAKE x \in net
  <2>1. CASE x = m
    BY <2>1
  <2>2. CASE x # m
    <3> DEFINE y == [x EXCEPT !.answer = x.answer]
    <3>1. IsExchange(x)
      BY DEF FormsFit
    <3>2. y = x
      BY <3>1, AnswerFacts
    <3>3. f[x] = x
      BY <2>2
    <3> QED
      BY <3>2, <3>3
  <2> QED
    BY <2>1, <2>2
<1>4. net' = {f[x] : x \in net}
  <2> HIDE DEF n
  <2> QED
    BY <1>1
<1> HIDE DEF n, f
<1> QED
  BY <1>1, <1>2, <1>3, <1>4

(* An answer changes neither the page nor what it waits for. *)
LEMMA Handled ==
  ASSUME DataInv, PageInv, NEW m \in net, NEW a, Answer(m, a), UNCHANGED client,
         issued'.quotes = issued.quotes \/ issued'.quotes = issued.quotes + 1,
         \A id : Unused(id) => Unused(id)'
  PROVE  PageInv'
<1>1. PICK f : /\ net' = {f[x] : x \in net}
               /\ \A x \in net : \E b : f[x] = [x EXCEPT !.answer = b]
  BY AnswerMaps DEF PageInv
<1>2. token' = token /\ view' = view /\ failed' = failed
  BY DEF client
<1> QED
  BY <1>1, <1>2, Answering

(* An answer that is neither a quote nor an order. *)
LEMMA QuietAnswer ==
  ASSUME DataInv, PageInv, NEW m \in net, NEW a, Answer(m, a), UNCHANGED client,
         quotes' = quotes, orders' = orders, issued'.quotes = issued.quotes,
         m.kind \in {"list", "detail", "login", "signup"} \/ a = Refused
  PROVE  /\ QuotesFit' /\ TransfersFit' /\ OrderedOnce' /\ QuotesAreNew'
         /\ PageInv'
<1>1. PICK n : /\ IsExchange(n) /\ n.kind = m.kind /\ n.body = m.body /\ n.answer = a
               /\ net' = (net \ {m}) \cup {n}
  BY AnswerMaps DEF PageInv
<1>2. \A x \in net' :
        \/ x.kind \in {"list", "detail", "login", "signup"}
        \/ x.kind = "quote" /\ x.answer = Nothing
        \/ \E y \in net : /\ x.kind = y.kind /\ x.body = y.body
                          /\ x.answer \in {y.answer, Refused}
  BY <1>1
<1>3. view'.quote \in Priced \cup {Nothing} /\ failed' = failed
  BY DEF client, Priced
<1>4. /\ QuotesFit' /\ TransfersFit' /\ OrderedOnce' /\ QuotesAreNew'
      /\ \A id : Unused(id) => Unused(id)'
  BY <1>2, <1>3, DataKept
<1>5. PageInv'
  BY <1>4, Handled
<1> QED
  BY <1>4, <1>5

(* Requests that are refused, and those that only read. *)
LEMMA ReadAnswer ==
  ASSUME DataInv, PageInv, NEW m \in net, NEW a, Answer(m, a), UNCHANGED client,
         UNCHANGED gatewayVars, m.kind \in {"list", "detail"} \/ a = Refused
  PROVE  DataInv' /\ PageInv'
<1>1. users' = users /\ quotes' = quotes /\ orders' = orders /\ issued' = issued
  BY DEF gatewayVars
<1>2. QuotesFit' /\ TransfersFit' /\ OrderedOnce' /\ QuotesAreNew' /\ PageInv'
  BY <1>1, QuietAnswer
<1>3. PICK n : /\ n.kind = m.kind /\ n.answer = a /\ net' = (net \ {m}) \cup {n}
  BY AnswerMaps DEF PageInv
<1>4. UsersFit'
  BY <1>1, <1>3, UsersKept DEF DataInv
<1> QED
  BY <1>2, <1>4 DEF DataInv

(* A user who is registered, or whose password is right, is told an identifier. *)
LEMMA UserAnswer ==
  ASSUME DataInv, PageInv, NEW m \in net, m.kind \in {"login", "signup"},
         NEW id \in 1 .. MaxUsers, Answer(m, [id |-> id]), UNCHANGED client,
         quotes' = quotes, orders' = orders,
         \A u \in users' : u.id \in 1 .. MaxUsers,
         issued' = issued \/ issued' = [issued EXCEPT !.users = id]
  PROVE  DataInv' /\ PageInv'
<1>0. MaxUsers \in Nat
  BY GatewayAssumption
<1>1. /\ issued'.users \in Nat /\ issued'.quotes = issued.quotes /\ issued'.orders = issued.orders
      /\ issued' = [users |-> issued'.users, quotes |-> issued'.quotes, orders |-> issued'.orders]
  <2>1. CASE issued' = issued
    BY <2>1 DEF DataInv, UsersFit
  <2>2. CASE issued' = [issued EXCEPT !.users = id]
    <3>1. issued' = [users |-> id, quotes |-> issued.quotes, orders |-> issued.orders]
      BY <2>2 DEF DataInv, UsersFit
    <3> QED
      BY <1>0, <3>1
  <2> QED
    BY <2>1, <2>2
<1> DEFINE a == [id |-> id]
<1>2. a.id = id /\ Answer(m, a)
  OBVIOUS
<1> HIDE DEF a
<1>3. QuotesFit' /\ TransfersFit' /\ OrderedOnce' /\ QuotesAreNew' /\ PageInv'
  BY <1>1, <1>2, QuietAnswer
<1>4. PICK n : /\ n.kind = m.kind /\ n.answer = a /\ net' = (net \ {m}) \cup {n}
  BY <1>2, AnswerMaps DEF PageInv
<1>5. UsersFit'
  BY <1>1, <1>2, <1>4 DEF DataInv, UsersFit, Told
<1> QED
  BY <1>3, <1>5 DEF DataInv

(* Registering hands out a user's identifier. *)
LEMMA Registering ==
  ASSUME DataInv, PageInv, NEW m \in net, m.kind \in {"login", "signup"},
         NEW id \in UserIds, Register(m, id), UNCHANGED client
  PROVE  DataInv' /\ PageInv'
<1>1. id \in 1 .. MaxUsers
  BY DEF UserIds
<1> DEFINE u == [email |-> m.body.email, password |-> m.body.password, id |-> id]
<1>2. u.id = id
  OBVIOUS
<1>3. \A x \in users' : x \in users \/ x = u
  BY DEF Register
<1> HIDE DEF u
<1>4. \A x \in users' : x.id \in 1 .. MaxUsers
  BY <1>1, <1>2, <1>3 DEF DataInv, UsersFit
<1>5. /\ issued' = [issued EXCEPT !.users = id] /\ Answer(m, [id |-> id])
      /\ quotes' = quotes /\ orders' = orders
  BY DEF Register
<1> QED
  BY <1>1, <1>4, <1>5, UserAnswer

(* Accounts are registered, known or refused. *)
LEMMA SignupStep ==
  ASSUME DataInv, PageInv, NEW m \in net, Signup(m), UNCHANGED client
  PROVE  DataInv' /\ PageInv'
<1>1. CASE Answer(m, Refused) /\ UNCHANGED gatewayVars
  BY <1>1, ReadAnswer
<1>2. CASE \E id \in UserIds : Register(m, id)
  BY <1>2, Registering DEF Signup
<1> QED
  BY <1>1, <1>2 DEF Signup

(* A login registers, or is told who the account belongs to. *)
LEMMA LoginStep ==
  ASSUME DataInv, PageInv, NEW m \in net, Login(m), UNCHANGED client
  PROVE  DataInv' /\ PageInv'
<1>1. CASE \E id \in UserIds : Register(m, id)
  BY <1>1, Registering DEF Login
<1>2. CASE \E u \in User(m.body.email) : Answer(m, [id |-> u.id]) /\ UNCHANGED gatewayVars
  <2>1. PICK u \in users : Answer(m, [id |-> u.id]) /\ UNCHANGED gatewayVars
    BY <1>2 DEF User
  <2>2. u.id \in 1 .. MaxUsers /\ \A x \in users : x.id \in 1 .. MaxUsers
    BY DEF DataInv, UsersFit
  <2>3. users' = users /\ quotes' = quotes /\ orders' = orders /\ issued' = issued
    BY <2>1 DEF gatewayVars
  <2>4. m.kind \in {"login", "signup"}
    BY DEF Login
  <2> QED
    BY <2>1, <2>2, <2>3, <2>4, UserAnswer
<1> QED
  BY <1>1, <1>2 DEF Login

(* Requests without a token, and requests for orders. *)
LEMMA ReadStep ==
  ASSUME DataInv, PageInv, NEW m \in net, Reject(m) \/ GetRemittance(m) \/ ListRemittances(m),
         UNCHANGED client
  PROVE  DataInv' /\ PageInv'
<1>1. CASE Reject(m)
  BY <1>1, ReadAnswer DEF Reject
<1>2. CASE GetRemittance(m)
  <2>1. PICK a : Answer(m, a)
    BY <1>2 DEF GetRemittance
  <2> QED
    BY <1>2, <2>1, ReadAnswer DEF GetRemittance
<1>3. CASE ListRemittances(m)
  <2>1. PICK a : Answer(m, a)
    BY <1>3 DEF ListRemittances
  <2> QED
    BY <1>3, <2>1, ReadAnswer DEF ListRemittances
<1> QED
  BY <1>1, <1>2, <1>3

(* A quote has a number that no quote had. *)
LEMMA QuoteStep ==
  ASSUME DataInv, PageInv, NEW m \in net, PostQuote(m), UNCHANGED client
  PROVE  DataInv' /\ PageInv'
<1> DEFINE k == issued.quotes + 1
           q == [id |-> k, amount |-> m.body.amount, dest |-> Converted(m.body.amount)]
<1>1. /\ quotes' = quotes \cup {q} /\ Answer(m, q) /\ m.kind = "quote" /\ m.answer = Nothing
      /\ issued' = [issued EXCEPT !.quotes = k] /\ users' = users /\ orders' = orders
  BY DEF PostQuote, Unanswered
<1>2. q.id = k /\ q.amount = m.body.amount /\ q.dest = Converted(m.body.amount)
  OBVIOUS
<1>3. m.body.amount \in Nat
  BY <1>1 DEF PageInv, FormsFit, IsExchange
<1>4. /\ issued'.quotes = k /\ issued'.users = issued.users /\ issued'.orders = issued.orders
      /\ issued' = [users |-> issued'.users, quotes |-> issued'.quotes, orders |-> issued'.orders]
  <2>1. issued' = [users |-> issued.users, quotes |-> k, orders |-> issued.orders]
    BY <1>1 DEF DataInv, UsersFit
  <2> QED
    BY <2>1
<1>5. issued.quotes \in Nat /\ issued.users \in Nat /\ issued.orders \in Nat
  BY DEF DataInv, UsersFit
<1>6. /\ k \in 1 .. k /\ k \notin 1 .. issued.quotes
      /\ \A x \in 1 .. k : x = k \/ x \in 1 .. issued.quotes
      /\ \A x \in 1 .. issued.quotes : x \in 1 .. k /\ x # k
      /\ k = issued.quotes + 1 /\ k \in Nat
  BY <1>5
<1> HIDE DEF q, k
<1>7. PICK n : /\ IsExchange(n) /\ n.kind = m.kind /\ n.body = m.body /\ n.answer = q
               /\ net' = (net \ {m}) \cup {n}
  BY <1>1, AnswerMaps DEF PageInv
<1>8. view' = view /\ failed' = failed
  BY DEF client
<1>9. \A x \in net' : x \in net \/ (x.kind = "quote" /\ x.answer = q)
  BY <1>1, <1>7
<1>10. \A id : Unused(id) => Unused(id)'
  BY <1>1, <1>9 DEF Unused, IsTransfer
<1>11. UsersFit'
  BY <1>1, <1>4, <1>5, <1>6, <1>9 DEF DataInv, UsersFit
<1>12. \A r \in Priced' : r \in Priced \/ r = q
  <2> SUFFICES ASSUME NEW r \in Priced' PROVE r \in Priced \/ r = q
    OBVIOUS
  <2>1. \/ r \in quotes' \/ r \in {view.quote} \ {Nothing}
        \/ \E x \in net' : x.kind = "quote" /\ Told(x) /\ r = x.answer
    BY <1>8 DEF Priced, Told
  <2> QED
    BY <1>1, <1>9, <2>1 DEF Priced
<1>13. \A r \in Priced : r.id \in 1 .. issued.quotes /\ r.id # k
  BY <1>6 DEF DataInv, QuotesFit
<1>14. QuotesFit'
  <2>1. \A r \in Priced' :
          r.id \in 1 .. k /\ r.amount \in Nat /\ r.dest = Converted(r.amount)
    BY <1>2, <1>3, <1>6, <1>12 DEF DataInv, QuotesFit
  <2>2. \A r, s \in Priced' : r.id = s.id => r = s
    BY <1>2, <1>12, <1>13 DEF DataInv, QuotesFit
  <2> QED
    BY <1>4, <2>1, <2>2 DEF QuotesFit
<1>15. \A x \in net' : x.kind = "transfer" => x \in net /\ x.body.quote \in 1 .. issued.quotes
  BY <1>9 DEF DataInv, TransfersFit
<1>16. TransfersFit'
  <2>1. ASSUME NEW x \in net', x.kind = "transfer"
        PROVE  /\ x.body.quote \in 1 .. k
               /\ \A r \in Priced' : r.id = x.body.quote => r.amount = x.body.amount
               /\ Told(x) => /\ x.answer.quote = x.body.quote
                             /\ x.answer.amount = x.body.amount
                             /\ x.answer.dest = Converted(x.body.amount)
    BY <1>2, <1>6, <1>12, <1>15, <2>1 DEF DataInv, TransfersFit
  <2>2. \A o \in orders' : o.quote \in 1 .. k
    BY <1>1, <1>6 DEF DataInv, TransfersFit
  <2> QED
    BY <1>4, <2>1, <2>2 DEF TransfersFit, Told
<1>17. \A id : id = k => Unused(id)'
  <2> SUFFICES ASSUME NEW id, id = k PROVE Unused(id)'
    OBVIOUS
  <2>1. \A o \in orders' : o.quote # id
    BY <1>1, <1>6 DEF DataInv, TransfersFit
  <2>2. \A x \in net' : ~(x.kind = "transfer" /\ x.body.quote = id)
    BY <1>6, <1>15
  <2> QED
    BY <2>1, <2>2 DEF Unused, IsTransfer
<1>18. OrderedOnce'
  <2> SUFFICES ASSUME NEW id \in (1 .. k) \ failed
               PROVE  /\ \A o, p \in orders : o.quote = id /\ p.quote = id => o = p
                      /\ \A x \in net' : x.kind = "transfer" /\ x.body.quote = id /\ x.answer = Nothing
                           => \A o \in orders : o.quote # id
    BY <1>1, <1>4, <1>8 DEF OrderedOnce, IsTransfer
  <2>1. CASE id = k
    BY <1>1, <1>17, <2>1 DEF Unused, IsTransfer
  <2>2. CASE id \in 1 .. issued.quotes
    BY <1>15, <2>2 DEF DataInv, OrderedOnce, IsTransfer
  <2> QED
    BY <1>6, <2>1, <2>2
<1>19. QuotesAreNew'
  <2>1. ASSUME NEW x \in net', x.kind = "quote", x.answer # Nothing, x.answer # Refused
        PROVE  Unused(x.answer.id)'
    <3>1. CASE x \in net
      BY <1>10, <2>1, <3>1 DEF DataInv, QuotesAreNew, Told
    <3>2. CASE x.answer = q
      BY <1>2, <1>17, <3>2
    <3> QED
      BY <1>9, <3>1, <3>2
  <2> QED
    BY <2>1 DEF QuotesAreNew, Told
<1>20. PageInv'
  <2>1. issued'.quotes = issued.quotes + 1
    BY <1>4, <1>6
  <2> QED
    BY <1>1, <1>10, <2>1, Handled
<1> QED
  BY <1>11, <1>14, <1>16, <1>18, <1>19, <1>20 DEF DataInv

(* An order has the amounts of the quote that the request names. *)
LEMMA OrderFacts ==
  ASSUME DataInv, PageInv, NEW m \in net, PostRemittance(m)
  PROVE  \E o : /\ orders' = orders \cup {o} /\ Answer(m, o) /\ o # Nothing
                /\ o.quote = m.body.quote /\ o.amount = m.body.amount
                /\ o.dest = Converted(m.body.amount)
<1> DEFINE known == {q \in quotes : q.id = m.body.quote}
           amount == m.body.amount
           o == Order(m, amount, Converted(amount))
<1>1. m.kind = "transfer" /\ m.auth # Nothing
  BY DEF PostRemittance, Authenticated
<1>2. amount \in Nat /\ m.auth \in 1 .. MaxUsers
  BY <1>1 DEF PageInv, FormsFit, IsExchange, UserOrNone
<1>3. m.body.quote \in Nat
  BY <1>1 DEF DataInv, TransfersFit
<1>4. Converted(amount) \in Int
  BY <1>2 DEF Converted
<1>5. issued.orders + 1 \in Nat
  BY DEF DataInv, UsersFit
<1>6. /\ o = [id |-> issued.orders + 1, user |-> m.auth, quote |-> m.body.quote,
              amount |-> amount, dest |-> Converted(amount)]
  BY DEF Order
<1>7. o \in OrderRecord
  BY <1>2, <1>3, <1>4, <1>5, <1>6 DEF OrderRecord
<1>8. o # Nothing
  BY <1>7, GatewayAssumption
<1>9. o.quote = m.body.quote /\ o.amount = amount /\ o.dest = Converted(amount)
  BY <1>6
<1>10. orders' = orders \cup {o} /\ Answer(m, o)
  <2>1. CASE known = {}
    BY <2>1 DEF PostRemittance
  <2>2. CASE known # {}
    <3> DEFINE q == CHOOSE q \in known : TRUE
    <3>1. q \in known
      BY <2>2
    <3>2. q \in Priced /\ q.id = m.body.quote
      BY <3>1 DEF Priced
    <3>3. q.amount = amount /\ q.dest = Converted(q.amount)
      BY <1>1, <3>2 DEF DataInv, TransfersFit, QuotesFit
    <3>4. orders' = orders \cup {Order(m, q.amount, q.dest)} /\ Answer(m, Order(m, q.amount, q.dest))
      BY <2>2 DEF PostRemittance
    <3> HIDE DEF q
    <3>5. Order(m, q.amount, q.dest) = o
      BY <3>3
    <3> HIDE DEF o
    <3> QED
      BY <3>4, <3>5
  <2> QED
    BY <2>1, <2>2
<1> HIDE DEF o
<1> QED
  BY <1>8, <1>9, <1>10

(* The order of a quote whose transfer was not answered is its first. *)
LEMMA TransferStep ==
  ASSUME DataInv, PageInv, NEW m \in net, PostRemittance(m), UNCHANGED client
  PROVE  DataInv' /\ PageInv'
<1>1. PICK o : /\ orders' = orders \cup {o} /\ Answer(m, o) /\ o # Nothing
               /\ o.quote = m.body.quote /\ o.amount = m.body.amount
               /\ o.dest = Converted(m.body.amount)
  BY OrderFacts
<1>2. /\ m.kind = "transfer" /\ m.answer = Nothing /\ users' = users /\ quotes' = quotes
      /\ issued' = [issued EXCEPT !.orders = @ + 1]
  BY DEF PostRemittance, Unanswered
<1>3. /\ issued'.quotes = issued.quotes /\ issued'.users = issued.users /\ issued'.orders \in Nat
      /\ issued' = [users |-> issued'.users, quotes |-> issued'.quotes, orders |-> issued'.orders]
  <2> DEFINE k == issued.orders + 1
  <2>1. k \in Nat
    BY DEF DataInv, UsersFit
  <2>2. issued' = [issued EXCEPT !.orders = k]
    BY <1>2
  <2> HIDE DEF k
  <2>3. issued' = [users |-> issued.users, quotes |-> issued.quotes, orders |-> k]
    BY <2>2 DEF DataInv, UsersFit
  <2> QED
    BY <2>1, <2>3
<1>4. PICK n : /\ IsExchange(n) /\ n.kind = m.kind /\ n.body = m.body /\ n.answer = o
               /\ net' = (net \ {m}) \cup {n}
  BY <1>1, AnswerMaps DEF PageInv
<1>5. view' = view /\ failed' = failed
  BY DEF client
<1>6. \A x \in net' : (x \in net /\ x # m) \/ x = n
  BY <1>4
<1>7. m.body.quote \in 1 .. issued.quotes
      /\ \A q \in Priced : q.id = m.body.quote => q.amount = m.body.amount
  BY <1>2 DEF DataInv, TransfersFit
<1>8. \A id : Unused(id) => id # m.body.quote
  BY <1>2 DEF Unused, IsTransfer
<1>9. \A id : Unused(id) => Unused(id)'
  <2> SUFFICES ASSUME NEW id, Unused(id) PROVE Unused(id)'
    OBVIOUS
  <2>1. \A p \in orders' : p.quote # id
    BY <1>1, <1>8 DEF Unused
  <2>2. \A x \in net' : ~(x.kind = "transfer" /\ x.body.quote = id)
    BY <1>4, <1>6, <1>8 DEF Unused, IsTransfer
  <2> QED
    BY <2>1, <2>2 DEF Unused, IsTransfer
<1>10. UsersFit'
  <2>1. \A x \in net' : x.kind \in {"login", "signup"} => x \in net
    BY <1>2, <1>4, <1>6
  <2>2. issued.users \in Nat /\ issued.quotes \in Nat
    BY DEF DataInv, UsersFit
  <2> QED
    BY <1>2, <1>3, <2>1, <2>2 DEF DataInv, UsersFit, Told
<1>11. Priced' \subseteq Priced
  <2>1. \A x \in net' : x.kind = "quote" => x \in net
    BY <1>2, <1>4, <1>6
  <2> QED
    BY <1>2, <1>5, <2>1 DEF Priced, Told
<1>12. QuotesFit'
  BY <1>3, <1>11 DEF DataInv, QuotesFit
<1>13. TransfersFit'
  <2>1. ASSUME NEW x \in net', x.kind = "transfer"
        PROVE  /\ x.body.quote \in 1 .. issued.quotes
               /\ \A r \in Priced' : r.id = x.body.quote => r.amount = x.body.amount
               /\ Told(x) => /\ x.answer.quote = x.body.quote
                             /\ x.answer.amount = x.body.amount
                             /\ x.answer.dest = Converted(x.body.amount)
    <3>1. CASE x \in net
      BY <1>11, <2>1, <3>1 DEF DataInv, TransfersFit
    <3>2. CASE x = n
      BY <1>1, <1>4, <1>7, <1>11, <3>2
    <3> QED
      BY <1>6, <3>1, <3>2
  <2>2. \A p \in orders' : p.quote \in 1 .. issued.quotes
    BY <1>1, <1>7 DEF DataInv, TransfersFit
  <2> QED
    BY <1>3, <2>1, <2>2 DEF TransfersFit, Told
<1>14. OrderedOnce'
  <2> SUFFICES ASSUME NEW id \in (1 .. issued.quotes) \ failed
               PROVE  /\ \A p, r \in orders' : p.quote = id /\ r.quote = id => p = r
                      /\ \A x \in net' : x.kind = "transfer" /\ x.body.quote = id /\ x.answer = Nothing
                           => \A p \in orders' : p.quote # id
    BY <1>3, <1>5 DEF OrderedOnce, IsTransfer
  <2>1. /\ \A p, r \in orders : p.quote = id /\ r.quote = id => p = r
        /\ \A x \in net : x.kind = "transfer" /\ x.body.quote = id /\ x.answer = Nothing
             => \A p \in orders : p.quote # id
    BY DEF DataInv, OrderedOnce, IsTransfer
  <2>2. CASE id = m.body.quote
    <3>1. \A p \in orders : p.quote # id
      BY <1>2, <2>1, <2>2
    <3>2. \A x \in net : x.kind = "transfer" /\ x.body.quote = id => x = m
      BY <1>2, <2>2 DEF PageInv, SentOnce, IsTransfer
    <3> QED
      BY <1>1, <1>4, <1>6, <3>1, <3>2
  <2>3. CASE id # m.body.quote
    BY <1>1, <1>4, <1>6, <2>1, <2>3
  <2> QED
    BY <2>2, <2>3
<1>15. QuotesAreNew'
  <2>1. \A x \in net' : x.kind = "quote" => x \in net
    BY <1>2, <1>4, <1>6
  <2> QED
    BY <1>9, <2>1 DEF DataInv, QuotesAreNew, Told
<1>16. PageInv'
  BY <1>1, <1>3, <1>9, Handled
<1> QED
  BY <1>10, <1>12, <1>13, <1>14, <1>15, <1>16 DEF DataInv

(* A restart refuses what was not answered, and forgets the rest. *)
LEMMA ForgetStep ==
  ASSUME DataInv, PageInv, GatewayRestarts
  PROVE  DataInv' /\ PageInv'
<1> DEFINE f == [x \in net |-> IF x.answer = Nothing THEN [x EXCEPT !.answer = Refused] ELSE x]
<1>1. /\ users' = {} /\ quotes' = {} /\ orders' = {} /\ issued' = issued
      /\ token' = token /\ view' = view /\ failed' = failed
      /\ net' = {x \in net : x.answer # Nothing}
                  \cup {[x EXCEPT !.answer = Refused] : x \in {y \in net : y.answer = Nothing}}
  BY DEF GatewayRestarts, Restart
<1>2. \A x \in net : /\ \E b : f[x] = [x EXCEPT !.answer = b]
                     /\ f[x].kind = x.kind /\ f[x].body = x.body
                     /\ f[x].answer \in {x.answer, Refused} /\ f[x].answer # Nothing
  <2> TAKE x \in net
  <2>1. IsExchange(x)
    BY DEF PageInv, FormsFit
  <2>2. CASE x.answer = Nothing
    <3> DEFINE y == [x EXCEPT !.answer = Refused]
    <3>1. y.kind = x.kind /\ y.body = x.body /\ y.answer = Refused
      BY <2>1, AnswerFacts
    <3>2. f[x] = y
      BY <2>2
    <3> QED
      BY <3>1, <3>2, GatewayAssumption
  <2>3. CASE x.answer # Nothing
    <3> DEFINE y == [x EXCEPT !.answer = x.answer]
    <3>1. y = x
      BY <2>1, AnswerFacts
    <3>2. f[x] = x
      BY <2>3
    <3> QED
      BY <2>3, <3>1, <3>2
  <2> QED
    BY <2>2, <2>3
<1>3. net' = {f[x] : x \in net}
  BY <1>1
<1> HIDE DEF f
<1>4. \A y \in net' : \E x \in net : /\ y.kind = x.kind /\ y.body = x.body
                                     /\ y.answer \in {x.answer, Refused}
  BY <1>2, <1>3
<1>5. /\ orders' \subseteq orders /\ quotes' \subseteq quotes /\ users' \subseteq users
      /\ view'.quote \in Priced \cup {Nothing}
  BY <1>1 DEF Priced
<1>6. /\ QuotesFit' /\ TransfersFit' /\ OrderedOnce' /\ QuotesAreNew'
      /\ \A id : Unused(id) => Unused(id)'
  BY <1>1, <1>4, <1>5, DataKept
<1>7. UsersFit'
  BY <1>1, <1>4, <1>5 DEF DataInv, UsersFit, Told
<1>8. PageInv'
  <2>1. token' = token /\ view' = view /\ failed' = failed
    BY <1>1
  <2>2. issued'.quotes = issued.quotes \/ issued'.quotes = issued.quotes + 1
    BY <1>1
  <2>3. \A x \in net : \E b : f[x] = [x EXCEPT !.answer = b]
    BY <1>2
  <2>4. \A id : Unused(id) => Unused(id)'
    BY <1>6
  <2> QED
    BY ONLY DataInv, PageInv, <1>3, <2>1, <2>2, <2>3, <2>4, Answering
<1> QED
  BY <1>6, <1>7, <1>8 DEF DataInv

-----------------------------------------------------------------------------
(* The client. *)

(* Steps of the client leave the gateway and what it told alone. *)
LEMMA ClientData ==
  ASSUME DataInv, UNCHANGED gatewayVars, failed \subseteq failed',
         view'.quote \in Priced \cup {Nothing},
         \A n \in net' :
           \/ n.kind \in {"list", "detail"}
           \/ n.kind \in {"quote", "login", "signup"} /\ n.answer = Nothing
           \/ \E m \in net : n.kind = m.kind /\ n.body = m.body /\ n.answer = m.answer
  PROVE  DataInv' /\ \A id : Unused(id) => Unused(id)'
<1>1. users' = users /\ quotes' = quotes /\ orders' = orders /\ issued' = issued
  BY DEF gatewayVars
<1>2. \A n \in net' :
           \/ n.kind \in {"list", "detail", "login", "signup"}
           \/ n.kind = "quote" /\ n.answer = Nothing
           \/ \E m \in net : /\ n.kind = m.kind /\ n.body = m.body
                             /\ n.answer \in {m.answer, Refused}
  OBVIOUS
<1>3. /\ QuotesFit' /\ TransfersFit' /\ OrderedOnce' /\ QuotesAreNew'
      /\ \A id : Unused(id) => Unused(id)'
  BY <1>1, <1>2, DataKept
<1>4. UsersFit'
  BY <1>1 DEF DataInv, UsersFit, Told
<1> QED
  BY <1>3, <1>4 DEF DataInv

(* Nothing changes. *)
LEMMA AppStays ==
  ASSUME DataInv, PageInv, UNCHANGED <<gatewayVars, net, token, view, failed>>
  PROVE  DataInv' /\ PageInv'
<1>1. /\ users' = users /\ quotes' = quotes /\ orders' = orders /\ issued' = issued
      /\ net' = net /\ token' = token /\ view' = view /\ failed' = failed
  BY DEF gatewayVars
<1>2. DataInv'
  BY <1>1 DEF DataInv, UsersFit, QuotesFit, TransfersFit, OrderedOnce, QuotesAreNew, Priced,
              Unused, IsTransfer
<1>3. PageInv'
  BY <1>1 DEF PageInv, AppTypeOK, FormsFit, PagesFit, SentOnce, PageIsNew, ReceiptMatchesReview,
              Unused, IsTransfer
<1> QED
  BY <1>2, <1>3

(* A page is mounted in the place of another. *)
LEMMA MountStep ==
  ASSUME DataInv, PageInv, NEW page \in Pages, NEW order, NEW auth \in UserOrNone,
         NEW msgs \in SUBSET net,
         view' = NewView(page, order),
         net' \in {Left(msgs) \cup OnMount(page, order, auth),
                   Closed(msgs) \cup OnMount(page, order, auth)},
         token' \in UserOrNone, page \in Protected => token' # Nothing,
         failed' = failed, UNCHANGED gatewayVars
  PROVE  DataInv' /\ PageInv'
<1>1. \A m \in net : IsExchange(m)
  BY DEF PageInv, FormsFit
<1>2. \E stays \in BOOLEAN : \A n \in net' :
        \/ n \in OnMount(page, order, auth)
        \/ \E m \in net : n = Kept(m, stays) /\ m.kind \in {"login", "signup", "transfer"}
  <2>1. CASE net' = Left(msgs) \cup OnMount(page, order, auth)
    <3>1. \A n \in Left(msgs) : \E m \in net : n = Kept(m, TRUE) /\ m.kind \in {"login", "signup", "transfer"}
      <4> SUFFICES ASSUME NEW n \in Left(msgs)
                   PROVE  \E m \in net : n = Kept(m, TRUE) /\ m.kind \in {"login", "signup", "transfer"}
        OBVIOUS
      <4>1. PICK m \in net : n = [m EXCEPT !.mounted = FALSE] /\ m.kind \in {"login", "signup", "transfer"}
        BY DEF Left, Lasting
      <4> QED
        BY <1>1, <4>1, LeftIsKept
    <3> QED
      BY <2>1, <3>1
  <2>2. CASE net' = Closed(msgs) \cup OnMount(page, order, auth)
    <3>1. \A n \in Closed(msgs) : \E m \in net : n = Kept(m, FALSE) /\ m.kind \in {"login", "signup", "transfer"}
      <4> SUFFICES ASSUME NEW n \in Closed(msgs)
                   PROVE  \E m \in net : n = Kept(m, FALSE) /\ m.kind \in {"login", "signup", "transfer"}
        OBVIOUS
      <4>1. PICK m \in net : /\ n = [m EXCEPT !.mounted = FALSE, !.open = FALSE]
                             /\ m.kind \in {"login", "signup", "transfer"}
        BY DEF Closed, Lasting
      <4> QED
        BY <1>1, <4>1, ClosedIsKept
    <3> QED
      BY <2>2, <3>1
  <2> QED
    BY <2>1, <2>2
<1>3. PICK stays \in BOOLEAN : \A n \in net' :
        \/ n \in OnMount(page, order, auth)
        \/ \E m \in net : n = Kept(m, stays) /\ m.kind \in {"login", "signup", "transfer"}
  BY <1>2
<1>4. PageInv'
  <2>1. issued' = issued
    BY DEF gatewayVars
  <2> QED
    BY <1>3, <2>1, NewPage
<1>5. \A n \in OnMount(page, order, auth) : n.kind \in {"list", "detail"}
  BY OnMountFacts
<1>6. \A m \in net : /\ Kept(m, stays).kind = m.kind /\ Kept(m, stays).body = m.body
                     /\ Kept(m, stays).answer = m.answer
  BY <1>1, KeptFacts
<1>7. \A n \in net' :
           \/ n.kind \in {"list", "detail"}
           \/ \E m \in net : n.kind = m.kind /\ n.body = m.body /\ n.answer = m.answer
  BY <1>3, <1>5, <1>6
<1>8. view'.quote = Nothing
  BY NewViewFacts
<1>9. DataInv'
  BY <1>7, <1>8, ClientData
<1> QED
  BY <1>4, <1>9

(* Links lead to the page they name. *)
LEMMA GoStep ==
  ASSUME DataInv, PageInv, NEW page \in Pages, NEW order, Go(page, order),
         page \in Protected => token # Nothing
  PROVE  DataInv' /\ PageInv'
<1>1. token' = token /\ failed' = failed /\ UNCHANGED gatewayVars /\ token \in UserOrNone
  BY DEF Go, PageInv, AppTypeOK
<1>2. CASE view.page = page /\ view.order = order
  BY <1>1, <1>2, AppStays DEF Go, Open
<1>3. CASE ~(view.page = page /\ view.order = order)
  <2>1. view' = NewView(page, order) /\ net' = Left(net) \cup OnMount(page, order, token)
    BY <1>3 DEF Go, Open
  <2> QED
    BY <1>1, <2>1, MountStep
<1> QED
  BY <1>2, <1>3

(* Every link of the pages. *)
LEMMA LinkStep ==
  ASSUME DataInv, PageInv,
         \/ LandingPage \/ LoginPage \/ SignupPage \/ DashboardSend \/ BackToDashboard
         \/ TrackTransfer \/ \E o \in orders \cup {DemoOrder(1)} : DashboardHistory(o)
  PROVE  DataInv' /\ PageInv'
<1>1. view.page \in Protected => token # Nothing
  BY DEF PageInv, AppTypeOK
<1>2. CASE LandingPage \/ LoginPage \/ SignupPage
  <2>1. PICK page \in {"landing", "login", "signup"} : Go(page, Nothing)
    BY <1>2 DEF LandingPage, LoginPage, SignupPage
  <2>2. page \in Pages /\ page \notin Protected
    BY DEF Pages, Protected
  <2> QED
    BY <2>1, <2>2, GoStep
<1>3. CASE ~(LandingPage \/ LoginPage \/ SignupPage)
  <2>1. PICK page, order :
          page \in {"send", "dashboard", "tx"} /\ Go(page, order) /\ view.page \in Protected
    BY <1>3 DEF DashboardSend, BackToDashboard, TrackTransfer, DashboardHistory, Protected
  <2>2. page \in Pages
    BY <2>1 DEF Pages
  <2> QED
    BY <1>1, <2>1, <2>2, GoStep
<1> QED
  BY <1>2, <1>3

(* The session ends, or begins anew for whoever was answered. *)
LEMMA LogoutStep ==
  ASSUME DataInv, PageInv, Logout
  PROVE  DataInv' /\ PageInv'
<1>1. /\ token' = Nothing /\ failed' = failed /\ UNCHANGED gatewayVars
      /\ view' = NewView("landing", Nothing) /\ net' = Left(net) \cup OnMount("landing", Nothing, Nothing)
  BY DEF Logout, Open
<1>2. "landing" \in Pages /\ "landing" \notin Protected /\ Nothing \in UserOrNone
  BY DEF Pages, Protected, UserOrNone
<1> QED
  BY <1>1, <1>2, MountStep

(* The session begins, and the dashboard is opened or stays. *)
LEMMA SignedInStep ==
  ASSUME DataInv, PageInv, NEW m \in net, SignedIn(m)
  PROVE  DataInv' /\ PageInv'
<1>1. /\ m.kind \in {"login", "signup"} /\ Told(m) /\ token' = m.answer.id
      /\ failed' = failed /\ UNCHANGED gatewayVars
  BY DEF SignedIn, Answered, Told
<1>2. token' \in UserOrNone /\ token' # Nothing
  <2>1. m.answer.id \in 1 .. MaxUsers
    BY <1>1 DEF DataInv, UsersFit
  <2> QED
    BY <1>1, <2>1, GatewayAssumption DEF UserOrNone
<1>3. CASE view.page = "dashboard" /\ view.order = Nothing
  <2>1. view' = view /\ net' = net \ {m}
    BY <1>3 DEF SignedIn, Open
  <2>2. ~m.mounted
    BY <1>1, <1>3 DEF PageInv, FormsFit, Awaited
  <2>3. issued' = issued /\ orders' = orders
    BY <1>1 DEF gatewayVars
  <2>4. IsView(view)
    BY DEF PageInv, FormsFit
  <2>5. PageInv'
    BY <1>1, <1>2, <2>1, <2>2, <2>3, <2>4, Dropped
  <2>6. DataInv'
    BY <1>1, <2>1, ClientData DEF Priced
  <2> QED
    BY <2>5, <2>6
<1>4. CASE ~(view.page = "dashboard" /\ view.order = Nothing)
  <2>1. /\ view' = NewView("dashboard", Nothing)
        /\ net' = Left(net \ {m}) \cup OnMount("dashboard", Nothing, token')
    BY <1>1, <1>4 DEF SignedIn, Open
  <2>2. "dashboard" \in Pages
    BY DEF Pages
  <2>3. net \ {m} \in SUBSET net
    OBVIOUS
  <2> DEFINE auth == m.answer.id
             msgs == net \ {m}
  <2>4. auth \in UserOrNone /\ net' = Left(msgs) \cup OnMount("dashboard", Nothing, auth)
    BY <1>1, <1>2, <2>1
  <2>5. msgs \in SUBSET net
    OBVIOUS
  <2> HIDE DEF auth, msgs
  <2> QED
    BY <1>1, <1>2, <2>1, <2>2, <2>4, <2>5, MountStep
<1> QED
  BY <1>3, <1>4

(* The document is loaded again. *)
LEMMA ReloadStep ==
  ASSUME DataInv, PageInv, NEW page \in Pages, NEW order, Reload(page, order)
  PROVE  DataInv' /\ PageInv'
<1> DEFINE seen == IF page \in Protected /\ token = Nothing THEN "login" ELSE page
           path == IF seen = "tx" THEN order ELSE Nothing
<1>1. /\ token' = token /\ failed' = failed /\ UNCHANGED gatewayVars
      /\ net' = Closed(net) \cup OnMount(seen, order, Nothing) /\ view' = NewView(seen, path)
  BY DEF Reload
<1>2. OnMount(seen, order, Nothing) = OnMount(seen, path, Nothing)
  BY DEF OnMount
<1>3. seen \in Pages /\ (seen \in Protected => token # Nothing)
  BY DEF Pages, Protected
<1>4. Nothing \in UserOrNone /\ token \in UserOrNone
  BY DEF UserOrNone, PageInv, AppTypeOK
<1> HIDE DEF seen, path
<1> QED
  BY <1>1, <1>2, <1>3, <1>4, MountStep

(* A form is sent, or a quote asked for. *)
LEMMA AskStep ==
  ASSUME DataInv, PageInv, NEW kind \in {"login", "signup", "quote"}, NEW body,
         kind = "quote" => body.amount \in Nat, kind \in Awaited(view.page),
         Ask(Request(kind, token, body))
  PROVE  DataInv' /\ PageInv'
<1> DEFINE n == Request(kind, token, body)
<1>1. /\ ~view.loading /\ net' = net \cup {n} /\ view' = [view EXCEPT !.loading = TRUE]
      /\ UNCHANGED gatewayVars /\ token' = token /\ failed' = failed
  BY DEF Ask
<1>2. /\ issued' = issued /\ orders' = orders
  BY <1>1 DEF gatewayVars
<1>3. /\ IsExchange(n) /\ n.kind = kind /\ n.answer = Nothing /\ n.mounted = TRUE /\ n.open = TRUE
  <2>1. kind \in Kinds /\ token \in UserOrNone
    BY DEF Kinds, PageInv, AppTypeOK
  <2>2. kind \in {"quote", "transfer"} => body.amount \in Nat
    OBVIOUS
  <2> QED
    BY <2>1, <2>2 DEF Request, IsExchange
<1>4. /\ IsView(view') /\ view'.page = view.page /\ view'.step = view.step
      /\ view'.quote = view.quote /\ view'.receipt = view.receipt /\ view'.loading = TRUE
  BY <1>1, LoadingFacts DEF PageInv, FormsFit
<1> HIDE DEF n
<1>5. DataInv'
  <2>1. view'.quote \in Priced \cup {Nothing}
    BY <1>4 DEF Priced
  <2> QED
    BY <1>1, <1>3, <2>1, ClientData
<1>6. PageInv'
  BY <1>1, <1>2, <1>3, <1>4, Asked
<1> QED
  BY <1>5, <1>6

(* The three forms. *)
LEMMA FormStep ==
  ASSUME DataInv, PageInv,
         \/ \E email \in Emails, password \in Passwords :
              SubmitLogin(email, password) \/ SubmitSignup(email, password)
         \/ \E amount \in Amounts : GetQuote(amount)
  PROVE  DataInv' /\ PageInv'
<1>1. CASE \E email \in Emails, password \in Passwords : SubmitLogin(email, password)
  <2>1. PICK body : Ask(Request("login", token, body)) /\ view.page = "login"
    BY <1>1 DEF SubmitLogin, Credentials
  <2>2. "login" \in Awaited(view.page)
    BY <2>1 DEF Awaited, Kinds
  <2> QED
    BY <2>1, <2>2, AskStep
<1>2. CASE \E email \in Emails, password \in Passwords : SubmitSignup(email, password)
  <2>1. PICK body : Ask(Request("signup", token, body)) /\ view.page = "signup"
    BY <1>2 DEF SubmitSignup, Credentials
  <2>2. "signup" \in Awaited(view.page)
    BY <2>1 DEF Awaited, Kinds
  <2> QED
    BY <2>1, <2>2, AskStep
<1>3. CASE \E amount \in Amounts : GetQuote(amount)
  <2>1. PICK amount \in Amounts : Ask(Request("quote", token, [amount |-> amount])) /\ view.page = "send"
    BY <1>3 DEF GetQuote
  <2> DEFINE body == [amount |-> amount]
  <2>2. "quote" \in Awaited(view.page)
    BY <2>1 DEF Awaited, Kinds
  <2>3. body.amount \in Nat
    BY GatewayAssumption
  <2> HIDE DEF body
  <2> QED
    BY <2>1, <2>2, <2>3, AskStep DEF body
<1> QED
  BY <1>1, <1>2, <1>3

(* The reviewed quote is confirmed. *)
LEMMA ConfirmStep ==
  ASSUME DataInv, PageInv, ConfirmSend
  PROVE  DataInv' /\ PageInv'
<1> DEFINE body == Transfer
           n == Request("transfer", token, body)
<1>1. /\ ~view.loading /\ net' = net \cup {n} /\ view' = [view EXCEPT !.loading = TRUE]
      /\ UNCHANGED gatewayVars /\ token' = token /\ failed' = failed
      /\ view.page = "send" /\ view.step = 2
  BY DEF ConfirmSend, Ask
<1>2. /\ issued' = issued /\ orders' = orders
  BY <1>1 DEF gatewayVars
<1>3. body.quote = view.quote.id /\ body.amount = view.quote.amount
  BY DEF Transfer
<1>4. body.amount \in Nat
  <2>1. view.quote \in Priced
    BY <1>1 DEF Priced, PageInv, AppTypeOK
  <2> QED
    BY <1>3, <2>1 DEF DataInv, QuotesFit
<1> HIDE DEF body
<1>5. /\ IsExchange(n) /\ n.kind = "transfer" /\ n.body = body /\ n.answer = Nothing
      /\ n.mounted = TRUE /\ n.open = TRUE
  <2>1. "transfer" \in Kinds /\ token \in UserOrNone
    BY DEF Kinds, PageInv, AppTypeOK
  <2> QED
    BY <1>4, <2>1 DEF Request, IsExchange
<1>6. /\ IsView(view') /\ view'.page = view.page /\ view'.step = view.step
      /\ view'.quote = view.quote /\ view'.receipt = view.receipt /\ view'.loading = TRUE
  BY <1>1, LoadingFacts DEF PageInv, FormsFit
<1>7. "transfer" \in Awaited(view.page)
  BY <1>1 DEF Awaited, Kinds
<1> HIDE DEF n
<1>8. DataInv'
  BY <1>1, <1>3, <1>5, <1>6, TransferData
<1>9. PageInv'
  BY <1>1, <1>2, <1>3, <1>5, <1>6, <1>7, Asked
<1> QED
  BY <1>8, <1>9

(* The quote under review is left for another amount. *)
LEMMA BackStep ==
  ASSUME DataInv, PageInv, BackToAmount
  PROVE  DataInv' /\ PageInv'
<1>1. /\ view' = [view EXCEPT !.step = 1] /\ view.page = "send" /\ view.step = 2
      /\ UNCHANGED gatewayVars /\ net' = net /\ token' = token /\ failed' = failed
  BY DEF BackToAmount
<1>2. /\ IsView(view') /\ view'.page = view.page /\ view'.step = 1
      /\ view'.quote = view.quote /\ view'.receipt = view.receipt /\ view'.loading = view.loading
  BY <1>1, BackFacts DEF PageInv, FormsFit
<1>3. DataInv' /\ \A id : Unused(id) => Unused(id)'
  <2>1. view'.quote \in Priced \cup {Nothing}
    BY <1>2 DEF Priced
  <2> QED
    BY <1>1, <2>1, ClientData
<1>4. issued' = issued
  BY <1>1 DEF gatewayVars
<1>5. AppTypeOK'
  BY <1>1, <1>2 DEF PageInv, AppTypeOK
<1>6. FormsFit' /\ PagesFit'
  BY <1>1, <1>2 DEF PageInv, FormsFit, PagesFit
<1>7. SentOnce'
  BY <1>1, <1>4 DEF PageInv, SentOnce, IsTransfer
<1>8. PageIsNew'
  BY <1>1, <1>2, <1>3 DEF PageInv, PageIsNew
<1>9. ReceiptMatchesReview'
  BY <1>2 DEF ReceiptMatchesReview
<1> QED
  BY <1>3, <1>5, <1>6, <1>7, <1>8, <1>9 DEF PageInv

(* The quote that arrives is put under review. *)
LEMMA QuoteReceivedStep ==
  ASSUME DataInv, PageInv, NEW m \in net, QuoteReceived(m)
  PROVE  DataInv' /\ PageInv'
<1>1. /\ m.kind = "quote" /\ Told(m) /\ net' = net \ {m} /\ UNCHANGED gatewayVars
      /\ token' = token /\ failed' = failed
  BY DEF QuoteReceived, Answered, Accept, Told
<1>2. m.mounted /\ view.page = "send"
  <2>1. m.mounted
    BY <1>1 DEF PageInv, AppTypeOK
  <2> QED
    BY <1>1, <2>1 DEF PageInv, FormsFit, Awaited
<1>3. view' = [view EXCEPT !.quote = m.answer, !.step = 2, !.loading = FALSE]
  BY <1>2 DEF QuoteReceived, Accept
<1>4. /\ IsView(view') /\ view'.page = view.page /\ view'.step = 2 /\ view'.quote = m.answer
      /\ view'.receipt = view.receipt /\ view'.loading = FALSE
  <2> DEFINE v == view
             w == view'
             x == m.answer
  <2>1. IsView(v) /\ w = [v EXCEPT !.quote = x, !.step = 2, !.loading = FALSE]
    BY <1>3 DEF PageInv, FormsFit
  <2>2. w = [page |-> v.page, order |-> v.order, step |-> 2, loading |-> FALSE,
             quote |-> x, receipt |-> v.receipt, shown |-> v.shown]
    <3> HIDE DEF v, w, x
    <3> QED
      BY <2>1 DEF IsView
  <2> HIDE DEF v, w, x
  <2>3. /\ IsView(w) /\ w.page = v.page /\ w.step = 2 /\ w.quote = x
        /\ w.receipt = v.receipt /\ w.loading = FALSE
    BY <2>1, <2>2, QuotedFacts
  <2> QED
    BY <2>3 DEF v, w, x
<1>5. m.answer \in Priced /\ m.answer # Nothing
  BY <1>1 DEF Priced, Told
<1>6. DataInv' /\ \A id : Unused(id) => Unused(id)'
  BY <1>1, <1>4, <1>5, ClientData
<1>7. issued' = issued
  BY <1>1 DEF gatewayVars
<1>8. AppTypeOK' /\ FormsFit' /\ PagesFit' /\ SentOnce'
  <2>1. m.kind \notin {"list", "detail"}
    BY <1>1
  <2>2. view'.step >= 2 => view'.quote # Nothing
    BY <1>4, <1>5
  <2>3. ~(view'.step = 3)
    BY <1>4
  <2> QED
    BY ONLY PageInv, m \in net, <1>1, <1>2, <1>4, <1>7, <2>1, <2>2, <2>3, Finished
<1>9. PageIsNew'
  BY <1>1, <1>4, <1>6 DEF DataInv, QuotesAreNew, PageIsNew
<1>10. ReceiptMatchesReview'
  BY <1>4 DEF ReceiptMatchesReview
<1> QED
  BY <1>6, <1>8, <1>9, <1>10 DEF PageInv

(* The receipt that arrives is of the quote under review. *)
LEMMA TransferReceivedStep ==
  ASSUME DataInv, PageInv, NEW m \in net, TransferReceived(m)
  PROVE  DataInv' /\ PageInv'
<1>1. /\ m.kind = "transfer" /\ Told(m) /\ net' = net \ {m} /\ UNCHANGED gatewayVars
      /\ token' = token /\ failed' = failed
  BY DEF TransferReceived, Answered, Accept, Told
<1>2. issued' = issued /\ orders' = orders
  BY <1>1 DEF gatewayVars
<1>3. CASE ~m.mounted
  <2>1. view' = view
    BY <1>3 DEF TransferReceived, Accept
  <2>2. IsView(view) /\ token \in UserOrNone
    BY DEF PageInv, FormsFit, AppTypeOK
  <2>3. PageInv'
    BY <1>1, <1>2, <1>3, <2>1, <2>2, Dropped
  <2>4. DataInv'
    BY <1>1, <2>1, ClientData DEF Priced
  <2> QED
    BY <2>3, <2>4
<1>4. CASE m.mounted
  <2>1. view' = [view EXCEPT !.receipt = m.answer, !.step = 3, !.loading = FALSE]
    BY <1>4 DEF TransferReceived, Accept
  <2>2. /\ IsView(view') /\ view'.page = view.page /\ view'.step = 3 /\ view'.quote = view.quote
        /\ view'.receipt = m.answer /\ view'.loading = FALSE
    <3> DEFINE v == view
               w == view'
               x == m.answer
    <3>1. IsView(v) /\ w = [v EXCEPT !.receipt = x, !.step = 3, !.loading = FALSE]
      BY <2>1 DEF PageInv, FormsFit
    <3>2. w = [page |-> v.page, order |-> v.order, step |-> 3, loading |-> FALSE,
               quote |-> v.quote, receipt |-> x, shown |-> v.shown]
      <4> HIDE DEF v, w, x
      <4> QED
        BY <3>1 DEF IsView
    <3> HIDE DEF v, w, x
    <3>3. /\ IsView(w) /\ w.page = v.page /\ w.step = 3 /\ w.quote = v.quote
          /\ w.receipt = x /\ w.loading = FALSE
      BY <3>1, <3>2, ReceivedFacts
    <3> QED
      BY <3>3 DEF v, w, x
  <2>3. view.page = "send"
    BY <1>1, <1>4 DEF PageInv, FormsFit, Awaited
  <2>4. view.quote # Nothing /\ view.quote.id = m.body.quote
    BY <1>1, <1>4 DEF PageInv, PagesFit
  <2>5. view.quote \in Priced
    BY <2>4 DEF Priced
  <2>6. DataInv'
    BY <1>1, <2>2, <2>5, ClientData
  <2>7. AppTypeOK' /\ FormsFit' /\ PagesFit' /\ SentOnce'
    BY <1>1, <1>2, <1>4, <2>2, <2>3, <2>4, Finished DEF Told
  <2>8. PageIsNew'
    BY <2>2 DEF PageIsNew
  <2>9. ReceiptMatchesReview'
    <3>1. /\ m.answer.quote = m.body.quote /\ m.answer.amount = m.body.amount
          /\ m.answer.dest = Converted(m.body.amount)
      BY <1>1 DEF DataInv, TransfersFit
    <3>2. view.quote.amount = m.body.amount
      BY <1>1, <2>4, <2>5 DEF DataInv, TransfersFit
    <3>3. view.quote.dest = Converted(view.quote.amount)
      BY <2>5 DEF DataInv, QuotesFit
    <3> QED
      BY <2>2, <2>4, <3>1, <3>2, <3>3 DEF ReceiptMatchesReview
  <2> QED
    BY <2>6, <2>7, <2>8, <2>9 DEF PageInv
<1> QED
  BY <1>3, <1>4

(* A list or an order arrives. *)
LEMMA PageReceivedStep ==
  ASSUME DataInv, PageInv, NEW m \in net, PageReceived(m)
  PROVE  DataInv' /\ PageInv'
<1>1. /\ m.kind \in {"list", "detail"} /\ net' = net \ {m} /\ UNCHANGED gatewayVars
      /\ token' = token /\ failed' = failed
      /\ view' = view \/ view' = [view EXCEPT !.shown = m.answer]
  BY DEF PageReceived, Answered, Accept
<1>2. /\ IsView(view') /\ view'.page = view.page /\ view'.step = view.step
      /\ view'.quote = view.quote /\ view'.receipt = view.receipt /\ view'.loading = view.loading
  <2>1. IsView(view)
    BY DEF PageInv, FormsFit
  <2> QED
    BY <1>1, <2>1, ShownFacts
<1>3. issued' = issued /\ orders' = orders /\ token \in UserOrNone
  BY <1>1 DEF gatewayVars, PageInv, AppTypeOK
<1>4. PageInv'
  BY <1>1, <1>2, <1>3, Dropped
<1>5. DataInv'
  <2>1. view'.quote \in Priced \cup {Nothing}
    BY <1>2 DEF Priced
  <2> QED
    BY <1>1, <2>1, ClientData
<1> QED
  BY <1>4, <1>5

(* An exchange fails: a form can be used again, and of a transfer the customer *)
(* is told.                                                                    *)
LEMMA FailedStep ==
  ASSUME DataInv, PageInv, NEW m \in net, RequestFailed(m)
  PROVE  DataInv' /\ PageInv'
<1>1. /\ net' = net \ {m} /\ UNCHANGED gatewayVars /\ token' = token /\ failed \subseteq failed'
      /\ view' = IF m.mounted THEN [view EXCEPT !.loading = FALSE] ELSE view
  BY DEF RequestFailed
<1>2. issued' = issued /\ orders' = orders /\ token \in UserOrNone
  BY <1>1 DEF gatewayVars, PageInv, AppTypeOK
<1>3. /\ IsView(view') /\ view'.page = view.page /\ view'.step = view.step
      /\ view'.quote = view.quote /\ view'.receipt = view.receipt
      /\ view'.loading = IF m.mounted THEN FALSE ELSE view.loading
  <2>1. IsView(view)
    BY DEF PageInv, FormsFit
  <2> QED
    BY <1>1, <2>1, LoadingFacts
<1>4. DataInv' /\ \A id : Unused(id) => Unused(id)'
  <2>1. view'.quote \in Priced \cup {Nothing}
    BY <1>3 DEF Priced
  <2> QED
    BY <1>1, <2>1, ClientData
<1>5. CASE m.mounted => m.kind \in {"list", "detail"}
  <2>1. view'.loading = view.loading
    <3>1. CASE m.mounted
      <4>1. view.page \in {"dashboard", "tx"}
        BY <1>5, <3>1 DEF PageInv, FormsFit, Awaited
      <4>2. \A n \in net : n.mounted => n.kind \in {"list", "detail"}
        BY <4>1 DEF PageInv, FormsFit, Awaited
      <4>3. view.loading = FALSE
        BY <4>2 DEF PageInv, AppTypeOK, FormsFit, IsView
      <4> QED
        BY <1>3, <3>1, <4>3
    <3> QED
      BY <1>3, <3>1
  <2>2. PageInv'
    BY <1>1, <1>2, <1>3, <1>5, <2>1, Dropped
  <2> QED
    BY <1>4, <2>2
<1>6. CASE m.mounted /\ m.kind \notin {"list", "detail"}
  <2>1. /\ view.page # "send" => view'.quote = Nothing
        /\ view.page = "send" => /\ view'.step >= 2 => view'.quote # Nothing
                                 /\ view'.step = 3 => view'.receipt # Nothing
    BY <1>3 DEF PageInv, PagesFit, AppTypeOK
  <2>2. view'.loading = FALSE
    BY <1>3, <1>6
  <2>3. AppTypeOK' /\ FormsFit' /\ PagesFit' /\ SentOnce'
    BY <1>1, <1>2, <1>3, <1>6, <2>1, <2>2, Finished
  <2>4. PageIsNew'
    <3>1. CASE m.kind = "transfer"
      <4>1. m.body.quote \in failed'
        BY <1>6, <3>1 DEF RequestFailed, PageInv, FormsFit
      <4>2. view.quote.id = m.body.quote
        BY <1>6, <3>1 DEF PageInv, PagesFit
      <4> QED
        BY <1>3, <4>1, <4>2 DEF PageIsNew
    <3>2. CASE m.kind # "transfer"
      <4>1. ~\E n \in net : n.kind = "transfer" /\ n.mounted
        BY <1>6, <3>2 DEF PageInv, FormsFit
      <4> QED
        BY <1>1, <1>3, <1>4, <4>1 DEF PageInv, PageIsNew
    <3> QED
      BY <3>1, <3>2
  <2>5. ReceiptMatchesReview'
    BY <1>3 DEF PageInv, ReceiptMatchesReview
  <2> QED
    BY <1>4, <2>3, <2>4, <2>5 DEF PageInv
<1> QED
  BY <1>5, <1>6

-----------------------------------------------------------------------------
(* The invariant holds at first, and every step keeps it. *)
LEMMA AppStarts == ASSUME AppInit PROVE AppInv
<1>1. /\ users = {} /\ quotes = {} /\ orders = {} /\ net = {} /\ failed = {} /\ token = Nothing
      /\ issued = [users |-> 0, quotes |-> 0, orders |-> 0]
      /\ view = NewView("landing", Nothing)
  BY DEF AppInit, GatewayInit
<1>2. "landing" \in Pages /\ "landing" \notin Protected
  BY DEF Pages, Protected
<1>3. /\ IsView(view) /\ view.page = "landing" /\ view.step = 1 /\ view.quote = Nothing
      /\ view.loading = FALSE
  BY <1>1, <1>2, NewViewFacts
<1>4. UsersFit
  BY <1>1 DEF UsersFit
<1>5. Priced = {}
  BY <1>1, <1>3 DEF Priced
<1>6. QuotesFit /\ TransfersFit /\ OrderedOnce /\ QuotesAreNew
  BY <1>1, <1>5 DEF QuotesFit, TransfersFit, OrderedOnce, QuotesAreNew
<1>7. AppTypeOK
  BY <1>1, <1>2, <1>3 DEF AppTypeOK, UserOrNone
<1>8. FormsFit /\ PagesFit /\ SentOnce /\ PageIsNew /\ ReceiptMatchesReview
  BY <1>1, <1>3 DEF FormsFit, PagesFit, SentOnce, IsTransfer, PageIsNew, ReceiptMatchesReview
<1> QED
  BY <1>4, <1>6, <1>7, <1>8 DEF AppInv, DataInv, PageInv

LEMMA AppKeeps == ASSUME AppInv, [AppNext]_avars PROVE AppInv'
<1>0. DataInv /\ PageInv
  BY DEF AppInv
<1>1. CASE \/ LandingPage \/ LoginPage \/ SignupPage \/ DashboardSend \/ BackToDashboard
           \/ TrackTransfer \/ \E o \in orders \cup {DemoOrder(1)} : DashboardHistory(o)
  BY <1>0, <1>1, LinkStep DEF AppInv
<1>2. CASE Logout
  BY <1>0, <1>2, LogoutStep DEF AppInv
<1>3. CASE ConfirmSend
  BY <1>0, <1>3, ConfirmStep DEF AppInv
<1>4. CASE BackToAmount
  BY <1>0, <1>4, BackStep DEF AppInv
<1>5. CASE \/ \E email \in Emails, password \in Passwords :
                SubmitLogin(email, password) \/ SubmitSignup(email, password)
           \/ \E amount \in Amounts : GetQuote(amount)
  BY <1>0, <1>5, FormStep DEF AppInv
<1>6. ASSUME NEW m \in net, GatewayHandles(m), UNCHANGED client
      PROVE  AppInv'
  <2>1. CASE Signup(m)
    BY <1>0, <1>6, <2>1, SignupStep DEF AppInv
  <2>2. CASE Login(m)
    BY <1>0, <1>6, <2>2, LoginStep DEF AppInv
  <2>3. CASE Reject(m) \/ GetRemittance(m) \/ ListRemittances(m)
    BY <1>0, <1>6, <2>3, ReadStep DEF AppInv
  <2>4. CASE PostQuote(m)
    BY <1>0, <1>6, <2>4, QuoteStep DEF AppInv
  <2>5. CASE PostRemittance(m)
    BY <1>0, <1>6, <2>5, TransferStep DEF AppInv
  <2> QED
    BY <1>6, <2>1, <2>2, <2>3, <2>4, <2>5 DEF GatewayHandles
<1>7. ASSUME NEW m \in net, \/ SignedIn(m) \/ QuoteReceived(m) \/ TransferReceived(m)
                            \/ PageReceived(m) \/ RequestFailed(m)
      PROVE  AppInv'
  BY <1>0, <1>7, SignedInStep, QuoteReceivedStep, TransferReceivedStep, PageReceivedStep, FailedStep
     DEF AppInv
<1>8. ASSUME NEW page \in Pages, NEW order, Reload(page, order)
      PROVE  AppInv'
  BY <1>0, <1>8, ReloadStep DEF AppInv
<1>9. CASE GatewayRestarts
  BY <1>0, <1>9, ForgetStep DEF AppInv
<1>10. CASE UNCHANGED avars
  <2>1. UNCHANGED <<gatewayVars, net, token, view, failed>>
    BY <1>10 DEF avars, client
  <2> QED
    BY <1>0, <2>1, AppStays DEF AppInv
<1> QED
  BY <1>1, <1>2, <1>3, <1>4, <1>5, <1>6, <1>7, <1>8, <1>9, <1>10 DEF AppNext

LEMMA AppHolds == AppSpec => []AppInv
BY AppStarts, AppKeeps, PTL DEF AppSpec

(* In every reachable state of the application a page has what its step shows, *)
(* and its buttons are disabled exactly while an exchange that they wait for    *)
(* is under way (the useState hooks of the pages and AuthProvider).             *)
THEOREM FormsStayUsable == AppSpec => []AppTypeOK
<1>1. AppInv => AppTypeOK
  BY DEF AppInv, PageInv
<1> QED
  BY <1>1, AppHolds, PTL

(* In every reachable state the receipt repeats the reviewed quote, and no quote *)
(* has two orders unless its customer was told that a transfer failed, although  *)
(* POST /remittances tells no repeated request from a new one.                   *)
THEOREM TransfersStayTold == AppSpec => []TransfersAreTold
<1>1. ASSUME AppInv PROVE NoSilentDuplicate
  <2> SUFFICES ASSUME NEW o \in orders, NEW p \in orders, o.quote = p.quote, o.quote \notin failed
               PROVE  o = p
    BY DEF NoSilentDuplicate
  <2>1. o.quote \in 1 .. issued.quotes
    BY <1>1 DEF AppInv, DataInv, TransfersFit
  <2> QED
    BY <1>1, <2>1 DEF AppInv, DataInv, OrderedOnce
<1>2. AppInv => TransfersAreTold
  BY <1>1 DEF AppInv, PageInv, TransfersAreTold
<1> QED
  BY <1>2, AppHolds, PTL
=============================================================================
