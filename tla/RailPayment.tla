----------------------------- MODULE RailPayment -----------------------------
(***************************************************************************)
(* EndToEndTransactionOrchestrator.execute over RailTransactionEngine,     *)
(* RailClearingEngine, UkIndiaCorridor, ReconciliationEngine and the       *)
(* sandbox network.                                                        *)
(*                                                                         *)
(* A caller hands execute a transaction object.  The same object can be    *)
(* submitted again, or another one that carries the same railTransactionId *)
(* (a redelivery), while the first execution awaits the network: states    *)
(* change in whichever object the store holds then.  A step is the code    *)
(* between two awaits; the network decides when it is called and answers   *)
(* later.                                                                  *)
(***************************************************************************)
EXTENDS Integers, Sequences

CONSTANTS
  Executions,   \* calls of execute
  Objects,      \* transaction objects that callers hold
  Ids,          \* values of railTransactionId
  RailId,       \* the id an object carries
  Source,       \* its sourceAmount
  Destination,  \* its destinationAmount
  Limit,        \* the corridor's transactionLimit
  Rate,         \* the sandbox rate
  None          \* no object, no rate

ASSUME RailAssumption ==
  /\ RailId \in [Objects -> Ids]
  /\ Source \in [Objects -> Nat] /\ Destination \in [Objects -> Nat]
  /\ Limit \in Nat /\ Rate \in Nat
  /\ None \notin Objects \cup Nat

VARIABLES
  store,      \* memoryStore: the object of each id
  state,      \* the state of each object
  fxRate,     \* the fxRate of each object
  position,   \* the participant's net position
  fault,      \* the failure injected into the sandbox network
  paid,       \* executions whose settlement the network carried out
  pc,         \* where each execution is
  of,         \* the object it was called with
  answer,     \* what the network will answer it
  overlapped  \* executions that ran while another one of their id did

vars == <<store, state, fxRate, position, fault, paid, pc, of, answer, overlapped>>

RailTransactionState == {"CREATED", "VALIDATING", "COMPLIANCE_PENDING", "COMPLIANCE_APPROVED",
  "LEDGER_RESERVED", "ROUTING", "CLEARING", "FX_LOCKED", "SETTLEMENT_PENDING",
  "EXTERNAL_SETTLEMENT", "SETTLED", "RECONCILING", "RECONCILED", "COMPLETED", "REJECTED",
  "FAILED", "EXPIRED", "CANCELLED", "REVERSED", "QUARANTINED"}

IsTerminal(s) ==
  s \in {"COMPLETED", "REJECTED", "FAILED", "EXPIRED", "CANCELLED", "REVERSED", "QUARANTINED"}

Faults == {"none", "FX_UNAVAILABLE", "PROVIDER_TIMEOUT", "SETTLEMENT_FAILURE"}
Answers == {"none", "rate", "throws", "success", "refused", "COMPLETED"}
Awaiting == {"quote", "settlement", "status"}
Ended == {"true", "false", "threw"}

\* What an object carries of the protocol's fields.
GYBTransactionProtocol ==
  [railTransactionId : Ids, state : RailTransactionState, sourceAmount : Nat,
   destinationAmount : Nat, fxRate : Nat \cup {None}]

Transaction(o) ==
  [railTransactionId |-> RailId[o], state |-> state[o], sourceAmount |-> Source[o],
   destinationAmount |-> Destination[o], fxRate |-> fxRate[o]]

RailTypeOK ==
  /\ store \in [Ids -> Objects \cup {None}]
  /\ \A i \in Ids : store[i] # None => RailId[store[i]] = i
  /\ \A o \in Objects : Transaction(o) \in GYBTransactionProtocol
  /\ position \in Nat /\ fault \in Faults
  /\ paid \subseteq Executions /\ overlapped \subseteq Executions
  /\ pc \in [Executions -> Awaiting \cup Ended \cup {"new"}]
  /\ of \in [Executions -> Objects \cup {None}]
  /\ answer \in [Executions -> Answers]
  /\ \A e \in Executions : pc[e] \in Awaiting => answer[e] # "none" /\ store[RailId[of[e]]] # None

Init ==
  /\ store = [i \in Ids |-> None]
  /\ state = [o \in Objects |-> "CREATED"] /\ fxRate = [o \in Objects |-> None]
  /\ position = 0 /\ fault = "none" /\ paid = {} /\ overlapped = {}
  /\ pc = [e \in Executions |-> "new"] /\ of = [e \in Executions |-> None]
  /\ answer = [e \in Executions |-> "none"]

-----------------------------------------------------------------------------
(* RailTransactionEngine, UkIndiaCorridor, ReconciliationEngine *)

ValidTransitions ==
  UNION {{"CREATED"} \X {"VALIDATING", "REJECTED"},
         {"VALIDATING"} \X {"COMPLIANCE_PENDING", "FAILED"},
         {"COMPLIANCE_PENDING"} \X {"COMPLIANCE_APPROVED", "REJECTED"},
         {"COMPLIANCE_APPROVED"} \X {"LEDGER_RESERVED", "FAILED"},
         {"LEDGER_RESERVED"} \X {"ROUTING", "FAILED"},
         {"ROUTING"} \X {"CLEARING", "FAILED"},
         {"CLEARING"} \X {"FX_LOCKED", "FAILED"},
         {"FX_LOCKED"} \X {"SETTLEMENT_PENDING", "FAILED"},
         {"SETTLEMENT_PENDING"} \X {"EXTERNAL_SETTLEMENT", "FAILED"},
         {"EXTERNAL_SETTLEMENT"} \X {"SETTLED", "FAILED"},
         {"SETTLED"} \X {"RECONCILING"},
         {"RECONCILING"} \X {"RECONCILED", "QUARANTINED"},
         {"RECONCILED"} \X {"COMPLETED"}}

\* A transition that is not valid is refused, which no caller looks at.
TransitionState(s, to) == IF <<s, to>> \in ValidTransitions THEN to ELSE s

\* The n-th of the states that are requested, if there are so many.
Request(s, path, n) == IF n <= Len(path) THEN TransitionState(s, path[n]) ELSE s

\* States requested one after the other of an object: never more than six.
After(s, path) ==
  LET s2 == Request(Request(s, path, 1), path, 2)
      s4 == Request(Request(s2, path, 3), path, 4)
  IN  Request(Request(s4, path, 5), path, 6)

Requested(st, object, path) == [st EXCEPT ![object] = After(@, path)]

Stored(e) == store[RailId[of[e]]]

\* The corridor admits the amounts of its currencies up to its limit; a zero
\* or a very small amount passes.
CorridorValid(o) == Source[o] <= Limit

ReconcileTransaction(o, ledgerAmount, providerAmount, providerStatus) ==
  IF providerStatus # "COMPLETED" THEN "MISSING_SETTLEMENT"
  ELSE IF ledgerAmount # providerAmount \/ Destination[o] # providerAmount
       THEN "MISMATCH_AMOUNT" ELSE "MATCHED"

-----------------------------------------------------------------------------
(* SandboxFinancialNetwork *)

InjectFailure(reason) ==
  /\ fault' = reason
  /\ UNCHANGED <<store, state, fxRate, position, paid, pc, of, answer, overlapped>>

QuoteAnswer == IF fault = "FX_UNAVAILABLE" THEN "throws" ELSE "rate"

SettlementAnswer ==
  CASE fault = "PROVIDER_TIMEOUT"   -> "throws"
    [] fault = "SETTLEMENT_FAILURE" -> "refused"
    [] OTHER                        -> "success"

Await(e, call, reply) ==
  /\ pc' = [pc EXCEPT ![e] = call]
  /\ answer' = [answer EXCEPT ![e] = reply]

-----------------------------------------------------------------------------
(* execute *)

Return(e, result) ==
  /\ pc' = [pc EXCEPT ![e] = result]
  /\ answer' = [answer EXCEPT ![e] = "none"]

\* The readiness gate, which the orchestrator is given, fails: nothing happens.
NotReady(e, o) ==
  /\ pc[e] = "new"
  /\ of' = [of EXCEPT ![e] = o]
  /\ Return(e, "threw")
  /\ UNCHANGED <<store, state, fxRate, position, fault, paid, overlapped>>

Running(i) == {e \in Executions : pc[e] \in Awaiting /\ RailId[of[e]] = i}

\* A transaction that keeps the state it was given.
CreateAsGiven(e, o, path) ==
  /\ store' = [store EXCEPT ![RailId[o]] = o]
  /\ state' = Requested(state, o, path)
  /\ of' = [of EXCEPT ![e] = o]
  /\ overlapped' = overlapped \cup
       (IF Running(RailId[o]) = {} THEN {} ELSE Running(RailId[o]) \cup {e})

\* createTransaction resets the object's state and replaces the stored object,
\* whatever either was.
CreateTransaction(e, o, path) ==
  /\ store' = [store EXCEPT ![RailId[o]] = o]
  /\ state' = Requested([state EXCEPT ![o] = "CREATED"], o, path)
  /\ of' = [of EXCEPT ![e] = o]
  /\ overlapped' = overlapped \cup
       (IF Running(RailId[o]) = {} THEN {} ELSE Running(RailId[o]) \cup {e})

SubmitForClearing(o) == position' = position + Destination[o]

CorridorRejects(e, o) ==
  /\ pc[e] = "new" /\ ~CorridorValid(o)
  /\ CreateTransaction(e, o, <<"REJECTED">>)
  /\ Return(e, "false")
  /\ UNCHANGED <<fxRate, position, fault, paid>>

\* From validation to clearing, then the call of quote.
Accept(e, o) ==
  /\ pc[e] = "new" /\ CorridorValid(o)
  /\ CreateTransaction(e, o, <<"VALIDATING", "COMPLIANCE_PENDING", "COMPLIANCE_APPROVED",
                               "LEDGER_RESERVED", "ROUTING", "CLEARING">>)
  /\ SubmitForClearing(o)
  /\ Await(e, "quote", QuoteAnswer)
  /\ UNCHANGED <<fxRate, fault, paid>>

Moves(e, path) == state' = Requested(state, Stored(e), path)

LockFx(e) ==
  /\ pc[e] = "quote" /\ answer[e] = "rate"
  /\ fxRate' = [fxRate EXCEPT ![of[e]] = Source[of[e]] * Rate]
  /\ Moves(e, <<"FX_LOCKED", "SETTLEMENT_PENDING">>)
  /\ Await(e, "settlement", SettlementAnswer)
  /\ paid' = IF SettlementAnswer = "success" THEN paid \cup {e} ELSE paid
  /\ UNCHANGED <<store, position, fault, of, overlapped>>

\* The network threw, or refused the settlement.
Fail(e) ==
  /\ pc[e] \in Awaiting /\ answer[e] \in {"throws", "refused"}
  /\ Moves(e, <<"FAILED">>)
  /\ Return(e, "false")
  /\ UNCHANGED <<store, fxRate, position, fault, paid, of, overlapped>>

\* The settlement's success is not looked at.
SettledAnyway(e) ==
  /\ pc[e] = "settlement" /\ answer[e] \in {"success", "refused"}
  /\ Moves(e, <<"EXTERNAL_SETTLEMENT">>)
  /\ Await(e, "status", "COMPLETED")
  /\ UNCHANGED <<store, fxRate, position, fault, paid, of, overlapped>>

ExternallySettled(e) ==
  /\ pc[e] = "settlement" /\ answer[e] = "success"
  /\ Moves(e, <<"EXTERNAL_SETTLEMENT">>)
  /\ Await(e, "status", "COMPLETED")
  /\ UNCHANGED <<store, fxRate, position, fault, paid, of, overlapped>>

\* The amounts that are reconciled are all the transaction's own.
Reconcile(e) ==
  /\ pc[e] = "status"
  /\ LET o == of[e]
         reported == IF answer[e] = "COMPLETED" THEN Requested(state, Stored(e), <<"SETTLED">>) ELSE state
         matched == ReconcileTransaction(o, Destination[o], Destination[o], "COMPLETED") = "MATCHED"
     IN  /\ state' = Requested(reported, Stored(e),
                       IF matched THEN <<"RECONCILING", "RECONCILED", "COMPLETED">>
                       ELSE <<"RECONCILING", "QUARANTINED">>)
         /\ Return(e, IF matched THEN "true" ELSE "false")
  /\ UNCHANGED <<store, fxRate, position, fault, paid, of, overlapped>>

Next ==
  \/ \E reason \in Faults : InjectFailure(reason)
  \/ \E e \in Executions, o \in Objects : NotReady(e, o) \/ CorridorRejects(e, o) \/ Accept(e, o)
  \/ \E e \in Executions : LockFx(e) \/ Fail(e) \/ ExternallySettled(e) \/ Reconcile(e)

Spec == Init /\ [][Next]_vars

-----------------------------------------------------------------------------
SettledStates == {"EXTERNAL_SETTLEMENT", "SETTLED", "RECONCILING", "RECONCILED", "COMPLETED"}

\* A transaction that shows as settled, or beyond, was paid out by the network
\* in some execution of its id: however executions of one id reset and overwrite
\* each other's states, a failed settlement never comes out as a settled one.
SettledWasPaid ==
  /\ RailTypeOK
  /\ \A o \in Objects : state[o] \in SettledStates =>
       \E e \in paid : RailId[of[e]] = RailId[o]

\* An execution that no other of its id overlaps tells the truth when it returns:
\* true for a payout and a COMPLETED transaction, false for none and a transaction
\* in a terminal state of failure.
LoneResultIsTrue ==
  [][\A e \in Executions :
       pc[e] # pc'[e] /\ pc'[e] \in {"true", "false"} /\ e \notin overlapped' =>
         LET final == state'[store'[RailId[of'[e]]]]
         IN  /\ IsTerminal(final)
             /\ pc'[e] = "true" <=> e \in paid'
             /\ pc'[e] = "true" <=> final = "COMPLETED"]_vars

\* "Submitting the exact same transaction (same idempotencyKey) will not result in
\* a new FX lock or settlement request."
PaidOnce == \A d, e \in paid : of[d] = of[e] => d = e
=============================================================================
