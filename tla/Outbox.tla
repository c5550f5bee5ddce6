-------------------------------- MODULE Outbox --------------------------------
(***************************************************************************)
(* The transactional outbox: TransactionManager, UnitOfWork and the pool   *)
(* of PostgresAdapter, SqlJournalRepository and OutboxRelay.saveEvent on   *)
(* the writing side; OutboxDispatcher, RetryEngine (retry-queue), EventBus *)
(* with EventValidator, PostgresOutboxBroker and DLQManager on the         *)
(* reading side.                                                           *)
(*                                                                         *)
(* A writer is one transaction of simulation/StressTester: it saves a      *)
(* journal and its event in one unit of work.  Polls overlap: setInterval  *)
(* starts one whether or not the one before has ended.  A step is what     *)
(* runs between two awaits.  A poll whose fetch fails changes nothing and  *)
(* is left out.                                                            *)
(***************************************************************************)
EXTENDS Integers, FiniteSets, Sequences

CONSTANTS
  Writers,      \* transactions; each one writes one journal and one event, named alike
  Polls,        \* calls of processPending that may overlap
  Consumers,    \* handlers of the topic in the order they subscribed: "bus" or "broker"
                \* (none at all is legal: then a publish just succeeds)
  Limit,        \* events one poll fetches (100 in the code)
  MaxRetries,   \* retries of one publish (3 in the code)
  PoolSize,     \* clients of the pool (20 in the code)
  MaxFaults,    \* bound on injected faults
  None

ASSUME OutboxAssumption ==
  /\ {Limit, PoolSize} \subseteq Nat \ {0} /\ {MaxRetries, MaxFaults} \subseteq Nat
  /\ Consumers \in Seq({"bus", "broker"})
  /\ IsFiniteSet(Writers) /\ None \notin Nat \cup Writers

VARIABLES
  shape,        \* what each writer's event carries
  free,         \* clients of the pool that nobody holds
  leaked,       \* clients held by units of work whose BEGIN failed
  work,         \* each unit of work: [state, journal, created]
  journals,     \* committed rows of JournalEntries
  outbox,       \* committed rows of Outbox
  clock,        \* the next created_at
  running,      \* isRunning
  poll,         \* each poll: [state, batch, done, attempt, consumer, seen]
  received,     \* <<consumer, event>>: the handler was called with the event
  deadLetters,  \* events in DLQManager's map
  forgotten,    \* dead letters of earlier processes
  faults        \* injected faults so far

writing == <<shape, free, leaked, work, journals, clock>>
vars == <<writing, outbox, running, poll, received, deadLetters, forgotten, faults>>

(* "domain": the fields of DomainEvent alone; "incomplete": aggregateType  *)
(* too, but not all that EventValidator wants; "integration": all of them. *)
Shapes == {"domain", "incomplete", "integration"}

Row == [event : Writers, created : Nat, committed : Nat, status : {"PENDING", "PROCESSED"}]

Handlers == 1..Len(Consumers)

Pollings == [state : {"idle", "busy"}, batch : Seq(Writers), done : SUBSET Writers,
             attempt : 0..MaxRetries, consumer : Handlers \cup {1}, seen : Nat]

Fresh(state, batch, seen) ==
  [state |-> state, batch |-> batch, done |-> {}, attempt |-> 0, consumer |-> 1, seen |-> seen]

NoPoll == Fresh("idle", <<>>, 0)

TypeOK ==
  /\ shape \in [Writers -> Shapes]
  /\ free \in 0..PoolSize /\ leaked \in 0..PoolSize /\ clock \in Nat
  /\ work \in [Writers ->
       [state : {"new", "begun", "saved", "boxed", "aborting", "committed", "failed"},
        journal : BOOLEAN, created : Nat \cup {None}]]
  /\ journals \subseteq Writers /\ outbox \subseteq Row
  /\ running \in BOOLEAN /\ faults \in 0..MaxFaults
  /\ poll \in [Polls -> Pollings]
  /\ received \subseteq Handlers \X Writers
  /\ deadLetters \subseteq Writers /\ forgotten \subseteq Writers

Init ==
  /\ shape \in [Writers -> Shapes]
  /\ free = PoolSize /\ leaked = 0 /\ clock = 0
  /\ work = [w \in Writers |-> [state |-> "new", journal |-> FALSE, created |-> None]]
  /\ journals = {} /\ outbox = {}
  /\ running = TRUE /\ faults = 0
  /\ poll = [p \in Polls |-> NoPoll]
  /\ received = {} /\ deadLetters = {} /\ forgotten = {}

Fault == faults < MaxFaults /\ faults' = faults + 1
NoFault == UNCHANGED faults

reading == <<running, poll, received, deadLetters, forgotten>>

-----------------------------------------------------------------------------
(* The writing side.                                                       *)

(* The pool hands out a client, or runs a query on one: connect and query   *)
(* give up when none becomes free in two seconds.                           *)
ClientFree == free > 0

Enter(w, from, to) == work[w].state = from /\ work' = [work EXCEPT ![w].state = to]

(* UnitOfWork.start: a client of the pool, then BEGIN.  start stands before *)
(* the try of runInTransaction, so a client whose BEGIN failed is never     *)
(* given back.                                                              *)
Start(w) ==
  /\ \/ ClientFree /\ Enter(w, "new", "begun")
        /\ free' = free - 1 /\ UNCHANGED leaked /\ NoFault
     \/ ClientFree /\ Enter(w, "new", "failed")
        /\ free' = free - 1 /\ leaked' = leaked + 1 /\ Fault
     \/ ~ClientFree /\ Enter(w, "new", "failed") /\ UNCHANGED <<free, leaked>> /\ NoFault
  /\ UNCHANGED <<shape, journals, clock, outbox, reading>>

(* The journal and its postings, on the connection of the unit of work.     *)
SaveJournal(w) ==
  /\ work[w].state = "begun"
  /\ \/ work' = [work EXCEPT ![w].state = "saved", ![w].journal = TRUE] /\ NoFault
     \/ work' = [work EXCEPT ![w].state = "aborting"] /\ Fault
  /\ UNCHANGED <<shape, free, leaked, journals, clock, outbox, reading>>

SaveEventOnPool(w) ==
  /\ work[w].state = "saved"
  /\ clock' = clock + 1
  /\ work' = [work EXCEPT ![w].state = "boxed"] /\ NoFault
  /\ outbox' = outbox \cup {[event |-> w, created |-> clock, committed |-> Cardinality(outbox),
                             status |-> "PENDING"]}
  /\ UNCHANGED <<shape, free, leaked, journals, reading>>

(* saveEvent: created_at is taken now, whenever the transaction commits.    *)
SaveEvent(w) ==
  /\ work[w].state = "saved"
  /\ clock' = clock + 1
  /\ \/ work' = [work EXCEPT ![w].state = "boxed", ![w].created = clock] /\ NoFault
     \/ work' = [work EXCEPT ![w].state = "aborting"] /\ Fault
  /\ UNCHANGED <<shape, free, leaked, journals, outbox, reading>>

(* What the transaction wrote becomes visible in one step.                  *)
Persist(w) ==
  /\ journals' = journals \cup {x \in {w} : work[w].journal}
  /\ outbox' = outbox \cup {[event |-> w, created |-> c, committed |-> Cardinality(outbox),
                             status |-> "PENDING"] : c \in {work[w].created} \ {None}}

(* commit: COMMIT succeeds, or is refused, or its answer is lost.  The      *)
(* client goes back in every case; the rollback that follows a failure      *)
(* finds the unit completed and does nothing.                               *)
Commit(w) ==
  /\ \/ Enter(w, "boxed", "committed") /\ Persist(w) /\ NoFault
     \/ Enter(w, "boxed", "failed") /\ Persist(w) /\ Fault
     \/ Enter(w, "boxed", "failed") /\ UNCHANGED <<journals, outbox>> /\ Fault
  /\ free' = free + 1
  /\ UNCHANGED <<shape, leaked, clock, reading>>

(* rollback: the client goes back whether or not ROLLBACK was answered.     *)
Rollback(w) ==
  /\ Enter(w, "aborting", "failed")
  /\ free' = free + 1
  /\ UNCHANGED <<shape, leaked, journals, clock, outbox, reading, faults>>

-----------------------------------------------------------------------------
(* The reading side.                                                       *)

PendingRows == {r \in outbox : r.status = "PENDING"}
Earlier(r, rows) == {x \in rows : x.created < r.created}
Fetched == IF Limit < Cardinality(PendingRows) THEN Limit ELSE Cardinality(PendingRows)

FetchInAnyOrder ==
  CHOOSE s \in [1..Fetched -> {r.event : r \in PendingRows}] :
    \A i, j \in DOMAIN s : i # j => s[i] # s[j]

(* fetchPendingEvents: the Limit oldest pending events, the oldest first.   *)
FetchPendingEvents ==
  [i \in 1..Fetched |->
     (CHOOSE r \in PendingRows : Cardinality(Earlier(r, PendingRows)) = i - 1).event]

(* processPending up to its first publish.                                  *)
BeginPoll(p) ==
  /\ running /\ poll[p].state = "idle" /\ ClientFree
  /\ FetchPendingEvents # <<>>
  /\ poll' = [poll EXCEPT ![p] = Fresh("busy", FetchPendingEvents, Cardinality(outbox))]
  /\ UNCHANGED <<writing, outbox, running, received, deadLetters, forgotten, faults>>

Handling(p) == poll[p].state = "busy" /\ poll[p].batch # <<>>
Current(p) == Head(poll[p].batch)

(* processedIds.push: the poll turns to its next record.                    *)
Advance(p) ==
  poll' = [poll EXCEPT ![p].batch = Tail(@), ![p].done = @ \cup {Current(p)},
                       ![p].attempt = 0, ![p].consumer = 1]

DropUnroutable(p) ==
  /\ Handling(p) /\ shape[Current(p)] = "domain"
  /\ Advance(p)
  /\ UNCHANGED <<writing, outbox, running, received, deadLetters, forgotten, faults>>

LeaveUnroutable(p) ==
  /\ Handling(p) /\ shape[Current(p)] = "domain"
  /\ poll' = [poll EXCEPT ![p].batch = Tail(@)]
  /\ deadLetters' = deadLetters \cup {Current(p)}
  /\ UNCHANGED <<writing, outbox, running, received, forgotten, faults>>

(* moveToDLQ: the poll is done with the record as well.                     *)
GiveUp(p) == Advance(p) /\ deadLetters' = deadLetters \cup {Current(p)}

(* An event without aggregateType has no topic: the TypeError is not        *)
(* retried, the event is dead-lettered.                                     *)
Unroutable(p) ==
  /\ Handling(p) /\ shape[Current(p)] = "domain"
  /\ GiveUp(p)
  /\ UNCHANGED <<writing, outbox, running, received, forgotten, faults>>

(* executeWithRetry after a failed attempt: again from the first handler,   *)
(* or, with the retries used up, the dead-letter queue.                     *)
AttemptFailed(p) ==
  \/ /\ poll[p].attempt < MaxRetries
     /\ poll' = [poll EXCEPT ![p].attempt = @ + 1, ![p].consumer = 1]
     /\ UNCHANGED deadLetters
  \/ poll[p].attempt = MaxRetries /\ GiveUp(p)

(* EventBus.publish: the validator refuses the event at every attempt.      *)
Invalid(p) ==
  /\ Handling(p) /\ shape[Current(p)] = "incomplete"
  /\ AttemptFailed(p)
  /\ UNCHANGED <<writing, outbox, running, received, forgotten, faults>>

(* A handler subscribed through EventBus never throws: its failure is a     *)
(* nack, which the broker ignores.  One subscribed at the broker may.       *)
MayThrow(c) == c \in Handlers /\ Consumers[c] = "broker"

(* The broker calls the next handler; if it throws, the attempt has failed, *)
(* and with a PoisonMessageError the event is given up without a retry.     *)
Deliver(p) ==
  LET c == poll[p].consumer
  IN  /\ Handling(p) /\ shape[Current(p)] = "integration"
      /\ received' = received \cup ((Handlers \cap {c}) \X {Current(p)})
      /\ \/ /\ IF c < Len(Consumers)
               THEN poll' = [poll EXCEPT ![p].consumer = c + 1]
               ELSE Advance(p)
            /\ UNCHANGED deadLetters /\ NoFault
         \/ MayThrow(c) /\ (AttemptFailed(p) \/ GiveUp(p)) /\ Fault
      /\ UNCHANGED <<writing, outbox, running, forgotten>>

Processed(events) ==
  outbox' = {IF r.event \in events THEN [r EXCEPT !.status = "PROCESSED"] ELSE r : r \in outbox}

(* markProcessed, for the whole batch at its end.  An UPDATE that fails, or *)
(* finds no free client, is logged and marks nothing.                       *)
MarkProcessed(p) ==
  /\ poll[p].state = "busy" /\ poll[p].batch = <<>>
  /\ \/ ClientFree /\ Processed(poll[p].done) /\ NoFault
     \/ ~ClientFree /\ UNCHANGED outbox /\ NoFault
     \/ UNCHANGED outbox /\ Fault
  /\ poll' = [poll EXCEPT ![p] = NoPoll]
  /\ UNCHANGED <<writing, running, received, deadLetters, forgotten>>

(* stopPolling: a poll that is under way goes on.                           *)
StopPolling ==
  /\ running /\ running' = FALSE /\ Fault
  /\ UNCHANGED <<writing, outbox, poll, received, deadLetters, forgotten>>

StartPolling ==
  /\ ~running /\ running' = TRUE
  /\ UNCHANGED <<writing, outbox, poll, received, deadLetters, forgotten, faults>>

(* The process ends: its clients are closed and their transactions rolled   *)
(* back, its polls are gone, and so are the dead letters, kept in memory.   *)
Crash ==
  /\ Fault /\ running' = FALSE
  /\ free' = PoolSize /\ leaked' = 0
  /\ work' = [w \in Writers |->
                IF work[w].state \in {"begun", "saved", "boxed", "aborting"}
                THEN [work[w] EXCEPT !.state = "failed"] ELSE work[w]]
  /\ poll' = [p \in Polls |-> NoPoll]
  /\ deadLetters' = {} /\ forgotten' = forgotten \cup deadLetters
  /\ UNCHANGED <<shape, journals, clock, outbox, received>>

WriterStep(w) == Start(w) \/ SaveJournal(w) \/ SaveEvent(w) \/ Commit(w) \/ Rollback(w)
PollStep(p) == BeginPoll(p) \/ Unroutable(p) \/ Invalid(p) \/ Deliver(p) \/ MarkProcessed(p)

Next ==
  \/ \E w \in Writers : WriterStep(w)
  \/ \E p \in Polls : PollStep(p)
  \/ StopPolling \/ StartPolling \/ Crash

(* The event loop runs what is ready, the timer fires, a query is answered, *)
(* and a dispatcher that was stopped or lost is started again.              *)
Spec ==
  /\ Init /\ [][Next]_vars
  /\ \A w \in Writers : WF_vars(WriterStep(w))
  /\ \A p \in Polls : WF_vars(PollStep(p))
  /\ WF_vars(StartPolling)

-----------------------------------------------------------------------------
(* The outbox and the business data agree in every visible state of the     *)
(* database, and no consumer hears of a journal that was not committed,     *)
(* whatever failed in the writer's transaction.                             *)
JournalWithItsEvent ==
  /\ journals = {r.event : r \in outbox}
  /\ \A m \in received : m[2] \in journals

(* No client is lost but by a BEGIN that failed: all others are free or     *)
(* held by a transaction that is under way, through failed statements,      *)
(* refused commits and lost answers.                                        *)
ClientsAccounted ==
  free + leaked
    + Cardinality({w \in Writers : work[w].state \in {"begun", "saved", "boxed", "aborting"}})
  = PoolSize

(* What the database shows is what its clients were given, each of them to *)
(* one transaction.                                                         *)
OutboxAgrees == TypeOK /\ JournalWithItsEvent /\ ClientsAccounted

(* An event is out of the queue only when every handler was called with it  *)
(* or it was made a dead letter, which the process has until it ends, with  *)
(* polls that overlap, handlers that fail half-way and restarts.            *)
ProcessedReachedEveryone ==
  \A r \in outbox :
    r.status = "PROCESSED" =>
      \/ \A c \in Handlers : <<c, r.event>> \in received
      \/ r.event \in deadLetters \cup forgotten

(* Every journal is a fact that its event tells: recorded with its row,     *)
(* told by the handlers' calls, given up as a dead letter, and dropped with *)
(* the row's status.                                                        *)
Promise == INSTANCE DeliveryPromise WITH
  Facts <- Writers,
  recorded <- journals,
  confirmed <- {w \in Writers : work[w].state = "committed"},
  heard <- received,
  givenUp <- deadLetters \cup forgotten,
  dropped <- {r.event : r \in {x \in outbox : x.status = "PROCESSED"}}

(* The outbox delivers at least once what was committed, and nothing else:  *)
(* with polls that overlap, batches that are sent again, handlers that fail *)
(* half-way and restarts, an event leaves the queue only when every handler *)
(* was called with it or it was made a dead letter, and none of this is     *)
(* ever undone.  (A restart forgets the dead letters, and only them.)       *)
KeepsPromise == Promise!Spec

(* A poll publishes no event before an older one that was pending when it   *)
(* fetched, unless it has finished with the older one.  (An older event     *)
(* whose transaction committed after the fetch is overtaken.)               *)
NoOvertaking ==
  \A p \in Polls : Handling(p) =>
    LET current == CHOOSE r \in outbox : r.event = Current(p)
    IN  \A r \in Earlier(current, PendingRows) :
          r.committed < poll[p].seen => r.event \in poll[p].done

(* An event that was committed is taken out of the queue in the end,        *)
(* whatever its shape: an event that cannot be published does not block     *)
(* those behind it.  What stops the queue for good is a pool that has lost  *)
(* all of its clients to a BEGIN that failed.                               *)
EveryEventIsProcessed ==
  \A w \in Writers :
    (\E r \in outbox : r.event = w)
      ~> (leaked = PoolSize \/ \E r \in outbox : r.event = w /\ r.status = "PROCESSED")

=============================================================================
