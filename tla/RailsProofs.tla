---------------------------- MODULE RailsProofs ----------------------------
(***************************************************************************)
(* Proofs about the engines that carry a payment over a rail: RailPayment, *)
(* TreasuryRouting and RoutePlanning, which share no state.                *)
(***************************************************************************)
EXTENDS RailPayment, TreasuryRouting, RoutePlanning, Totals, WellFoundedInduction, TLAPS

-----------------------------------------------------------------------------
(* The native rail. *)

LEMMA RequestType ==
  ASSUME NEW s, NEW path, NEW n \in Nat
  PROVE  \/ Request(s, path, n) = s
         \/ n <= Len(path) /\ Request(s, path, n) = path[n]
BY DEF Request, TransitionState

(* Whatever is requested of an object, it ends in its own state or in one of *)
(* those that were requested.                                                *)
LEMMA AfterType ==
  ASSUME NEW s, NEW path \in Seq(RailTransactionState)
  PROVE  After(s, path) = s \/ \E n \in DOMAIN path : After(s, path) = path[n]
<1> DEFINE t1 == Request(s, path, 1)
           t2 == Request(t1, path, 2)
           t3 == Request(t2, path, 3)
           t4 == Request(t3, path, 4)
           t5 == Request(t4, path, 5)
           t6 == Request(t5, path, 6)
           In(t) == t = s \/ \E n \in DOMAIN path : t = path[n]
<1>1. ASSUME NEW t, In(t), NEW n \in Nat \ {0} PROVE In(Request(t, path, n))
  BY <1>1, RequestType
<1>2. After(s, path) = t6
  BY DEF After
<1> HIDE DEF In
<1>3. In(s)
  BY DEF In
<1>4. In(t1)
  BY <1>1, <1>3
<1>5. In(t2)
  <2> HIDE DEF t1
  <2> QED
    BY <1>1, <1>4
<1>6. In(t3)
  <2> HIDE DEF t2
  <2> QED
    BY <1>1, <1>5
<1>7. In(t4)
  <2> HIDE DEF t3
  <2> QED
    BY <1>1, <1>6
<1>8. In(t5)
  <2> HIDE DEF t4
  <2> QED
    BY <1>1, <1>7
<1>9. In(t6)
  <2> HIDE DEF t5
  <2> QED
    BY <1>1, <1>8
<1> HIDE DEF t6
<1> QED
  BY <1>2, <1>9 DEF In

(* A path that is no longer than one or two, and the ones of the protocol. *)
LEMMA OnePath ==
  ASSUME NEW s, NEW a
  PROVE  After(s, <<a>>) = TransitionState(s, a)
BY DEF After, Request

LEMMA TwoPath ==
  ASSUME NEW s, NEW a, NEW b
  PROVE  After(s, <<a, b>>) = TransitionState(TransitionState(s, a), b)
BY DEF After, Request

LEMMA ThreePath ==
  ASSUME NEW s, NEW a, NEW b, NEW c
  PROVE  After(s, <<a, b, c>>) = TransitionState(TransitionState(TransitionState(s, a), b), c)
BY DEF After, Request

LEMMA LongPath ==
  ASSUME NEW s, NEW a, NEW b, NEW c, NEW d
  PROVE  After(s, <<a, b, c, d>>)
           = TransitionState(TransitionState(TransitionState(TransitionState(s, a), b), c), d)
BY DEF After, Request

LEMMA LongestPath ==
  ASSUME NEW s, NEW a, NEW b, NEW c, NEW d, NEW e, NEW f
  PROVE  After(s, <<a, b, c, d, e, f>>)
           = TransitionState(TransitionState(TransitionState(TransitionState(TransitionState(TransitionState(
               s, a), b), c), d), e), f)
BY DEF After, Request

AcceptPath == <<"VALIDATING", "COMPLIANCE_PENDING", "COMPLIANCE_APPROVED",
                "LEDGER_RESERVED", "ROUTING", "CLEARING">>
ReconcilePath == <<"SETTLED", "RECONCILING", "RECONCILED", "COMPLETED">>

LEMMA ProtocolSteps ==
  /\ TransitionState("CREATED", "VALIDATING") = "VALIDATING"
  /\ TransitionState("VALIDATING", "COMPLIANCE_PENDING") = "COMPLIANCE_PENDING"
  /\ TransitionState("COMPLIANCE_PENDING", "COMPLIANCE_APPROVED") = "COMPLIANCE_APPROVED"
  /\ TransitionState("COMPLIANCE_APPROVED", "LEDGER_RESERVED") = "LEDGER_RESERVED"
  /\ TransitionState("LEDGER_RESERVED", "ROUTING") = "ROUTING"
  /\ TransitionState("ROUTING", "CLEARING") = "CLEARING"
  /\ TransitionState("CREATED", "REJECTED") = "REJECTED"
  /\ TransitionState("CLEARING", "FX_LOCKED") = "FX_LOCKED"
  /\ TransitionState("FX_LOCKED", "SETTLEMENT_PENDING") = "SETTLEMENT_PENDING"
  /\ TransitionState("CLEARING", "FAILED") = "FAILED"
  /\ TransitionState("SETTLEMENT_PENDING", "FAILED") = "FAILED"
  /\ TransitionState("SETTLEMENT_PENDING", "EXTERNAL_SETTLEMENT") = "EXTERNAL_SETTLEMENT"
  /\ TransitionState("EXTERNAL_SETTLEMENT", "SETTLED") = "SETTLED"
  /\ TransitionState("SETTLED", "RECONCILING") = "RECONCILING"
  /\ TransitionState("RECONCILING", "RECONCILED") = "RECONCILED"
  /\ TransitionState("RECONCILED", "COMPLETED") = "COMPLETED"
<1> USE DEF TransitionState, ValidTransitions
<1>1. TransitionState("CREATED", "VALIDATING") = "VALIDATING"
  OBVIOUS
<1>2. TransitionState("VALIDATING", "COMPLIANCE_PENDING") = "COMPLIANCE_PENDING"
  OBVIOUS
<1>3. TransitionState("COMPLIANCE_PENDING", "COMPLIANCE_APPROVED") = "COMPLIANCE_APPROVED"
  OBVIOUS
<1>4. TransitionState("COMPLIANCE_APPROVED", "LEDGER_RESERVED") = "LEDGER_RESERVED"
  OBVIOUS
<1>5. TransitionState("LEDGER_RESERVED", "ROUTING") = "ROUTING"
  OBVIOUS
<1>6. TransitionState("ROUTING", "CLEARING") = "CLEARING"
  OBVIOUS
<1>7. TransitionState("CREATED", "REJECTED") = "REJECTED"
  OBVIOUS
<1>8. TransitionState("CLEARING", "FX_LOCKED") = "FX_LOCKED"
  OBVIOUS
<1>9. TransitionState("FX_LOCKED", "SETTLEMENT_PENDING") = "SETTLEMENT_PENDING"
  OBVIOUS
<1>10. TransitionState("CLEARING", "FAILED") = "FAILED"
  OBVIOUS
<1>11. TransitionState("SETTLEMENT_PENDING", "FAILED") = "FAILED"
  OBVIOUS
<1>12. TransitionState("SETTLEMENT_PENDING", "EXTERNAL_SETTLEMENT") = "EXTERNAL_SETTLEMENT"
  OBVIOUS
<1>13. TransitionState("EXTERNAL_SETTLEMENT", "SETTLED") = "SETTLED"
  OBVIOUS
<1>14. TransitionState("SETTLED", "RECONCILING") = "RECONCILING"
  OBVIOUS
<1>15. TransitionState("RECONCILING", "RECONCILED") = "RECONCILED"
  OBVIOUS
<1>16. TransitionState("RECONCILED", "COMPLETED") = "COMPLETED"
  OBVIOUS
<1> HIDE DEF TransitionState, ValidTransitions
<1> QED
  BY <1>1, <1>2, <1>3, <1>4, <1>5, <1>6, <1>7, <1>8,
     <1>9, <1>10, <1>11, <1>12, <1>13, <1>14, <1>15, <1>16

LEMMA ProtocolPaths ==
  /\ After("CREATED", AcceptPath) = "CLEARING"
  /\ After("CREATED", <<"REJECTED">>) = "REJECTED"
  /\ After("CLEARING", <<"FX_LOCKED", "SETTLEMENT_PENDING">>) = "SETTLEMENT_PENDING"
  /\ After("CLEARING", <<"FAILED">>) = "FAILED"
  /\ After("SETTLEMENT_PENDING", <<"FAILED">>) = "FAILED"
  /\ After("SETTLEMENT_PENDING", <<"EXTERNAL_SETTLEMENT">>) = "EXTERNAL_SETTLEMENT"
  /\ After("EXTERNAL_SETTLEMENT", ReconcilePath) = "COMPLETED"
<1>1. After("CREATED", AcceptPath) = "CLEARING"
  BY ProtocolSteps, LongestPath DEF AcceptPath
<1>2. /\ After("CREATED", <<"REJECTED">>) = "REJECTED"
      /\ After("CLEARING", <<"FAILED">>) = "FAILED"
      /\ After("SETTLEMENT_PENDING", <<"FAILED">>) = "FAILED"
      /\ After("SETTLEMENT_PENDING", <<"EXTERNAL_SETTLEMENT">>) = "EXTERNAL_SETTLEMENT"
  BY ProtocolSteps, OnePath
<1>3. After("CLEARING", <<"FX_LOCKED", "SETTLEMENT_PENDING">>) = "SETTLEMENT_PENDING"
  BY ProtocolSteps, TwoPath
<1>4. After("EXTERNAL_SETTLEMENT", ReconcilePath) = "COMPLETED"
  BY ProtocolSteps, LongPath DEF ReconcilePath
<1> QED
  BY <1>1, <1>2, <1>3, <1>4

\* What its own answers tell of an execution, and whether it was paid.
ExecutionFacts(e) ==
  /\ e \in paid => pc[e] # "new"
  /\ pc[e] \in Awaiting \cup {"true", "false"} \/ e \in paid => of[e] \in Objects
  /\ pc[e] = "quote" => answer[e] \in {"rate", "throws"} /\ e \notin paid
  /\ pc[e] = "settlement" =>
       answer[e] \in {"success", "refused", "throws"} /\ (answer[e] = "success" <=> e \in paid)
  /\ pc[e] = "status" => answer[e] = "COMPLETED" /\ e \in paid

\* The state that an undisturbed execution finds its transaction in.
Expected(call) ==
  CASE call = "quote" -> "CLEARING" [] call = "settlement" -> "SETTLEMENT_PENDING"
    [] call = "status" -> "EXTERNAL_SETTLEMENT"

\* An execution that none overlapped still has its object in the store, in the
\* state that it left it in.
LoneFacts(e) ==
  pc[e] \in Awaiting /\ e \notin overlapped =>
    store[RailId[of[e]]] = of[e] /\ state[of[e]] = Expected(pc[e])

OverlapIsKnown ==
  \A d, e \in Executions :
    d # e /\ pc[d] \in Awaiting /\ pc[e] \in Awaiting /\ RailId[of[d]] = RailId[of[e]] => d \in overlapped

SettledFacts ==
  \A o \in Objects : state[o] \in SettledStates => \E e \in paid : RailId[of[e]] = RailId[o]

RailInv ==
  /\ RailTypeOK
  /\ state \in [Objects -> RailTransactionState] /\ fxRate \in [Objects -> Nat \cup {None}]
  /\ \A e \in Executions : ExecutionFacts(e) /\ LoneFacts(e)
  /\ OverlapIsKnown
  /\ SettledFacts

LEMMA RailTyped ==
  ASSUME state \in [Objects -> RailTransactionState], fxRate \in [Objects -> Nat \cup {None}]
  PROVE  \A o \in Objects : Transaction(o) \in GYBTransactionProtocol
<1> SUFFICES ASSUME NEW o \in Objects PROVE Transaction(o) \in GYBTransactionProtocol
  OBVIOUS
<1>1. /\ RailId[o] \in Ids /\ state[o] \in RailTransactionState /\ Source[o] \in Nat
      /\ Destination[o] \in Nat /\ fxRate[o] \in Nat \cup {None}
  BY RailAssumption
<1> HIDE DEF RailTransactionState
<1> QED
  BY <1>1 DEF Transaction, GYBTransactionProtocol

\* A step that answers execution e: its pc goes on, and a path is requested of
\* the object in the store.
AnswersTo(e, path, to, reply) ==
  /\ e \in Executions /\ pc[e] \in Awaiting
  /\ path \in Seq(RailTransactionState)
  /\ to \in Awaiting \cup {"true", "false"} /\ reply \in Answers /\ (to \in Awaiting => reply # "none")
  /\ state' = Requested(state, Stored(e), path)
  /\ pc' = [pc EXCEPT ![e] = to] /\ answer' = [answer EXCEPT ![e] = reply]
  /\ paid' \in {paid, paid \cup {e}}
  /\ fxRate' \in [Objects -> Nat \cup {None}]
  /\ UNCHANGED <<store, position, fault, of, overlapped>>

LEMMA AnswerKeeps ==
  ASSUME RailInv, NEW e, NEW path, NEW to, NEW reply, AnswersTo(e, path, to, reply),
         ExecutionFacts(e)',
         \A n \in DOMAIN path : path[n] \in SettledStates => e \in paid',
         to \in Awaiting => After(Expected(pc[e]), path) = Expected(to)
  PROVE  RailInv'
<1> DEFINE s == Stored(e)
<1>1. /\ s \in Objects /\ RailId[s] = RailId[of[e]] /\ of[e] \in Objects
  BY RailAssumption DEF RailInv, RailTypeOK, AnswersTo, Stored, ExecutionFacts
<1>2. After(state[s], path) = state[s] \/ \E n \in DOMAIN path : After(state[s], path) = path[n]
  BY AfterType DEF AnswersTo
<1>3. /\ state' \in [Objects -> RailTransactionState]
      /\ state'[s] = After(state[s], path) /\ \A o \in Objects : o # s => state'[o] = state[o]
  <2> HIDE DEF RailTransactionState, s
  <2>1. After(state[s], path) \in RailTransactionState
    <3>1. path \in Seq(RailTransactionState) /\ state[s] \in RailTransactionState
      BY <1>1 DEF RailInv, AnswersTo
    <3> QED
      BY <1>2, <3>1
  <2>2. state' = [state EXCEPT ![s] = After(state[s], path)]
    BY DEF AnswersTo, Requested, s
  <2> QED
    BY <1>1, <2>1, <2>2 DEF RailInv
<1> HIDE DEF s
<1>4. /\ pc' \in [Executions -> Awaiting \cup Ended \cup {"new"}] /\ answer' \in [Executions -> Answers]
      /\ pc'[e] = to /\ answer'[e] = reply
      /\ \A d \in Executions : d # e => pc'[d] = pc[d] /\ answer'[d] = answer[d]
  BY DEF AnswersTo, RailInv, RailTypeOK, Ended
<1>5. \A d \in Executions : d # e => ExecutionFacts(d)'
  BY <1>4 DEF RailInv, ExecutionFacts, AnswersTo
<1>6. OverlapIsKnown'
  BY <1>4 DEF RailInv, OverlapIsKnown, AnswersTo
<1>7. ASSUME NEW d \in Executions PROVE LoneFacts(d)'
  <2> SUFFICES ASSUME pc'[d] \in Awaiting, d \notin overlapped
               PROVE  store[RailId[of[d]]] = of[d] /\ state'[of[d]] = Expected(pc'[d])
    BY DEF LoneFacts, AnswersTo
  <2>1. /\ pc[d] \in Awaiting /\ of[d] \in Objects
        /\ store[RailId[of[d]]] = of[d] /\ state[of[d]] = Expected(pc[d])
    <3>1. pc[d] \in Awaiting
      BY <1>4 DEF AnswersTo
    <3> QED
      BY <3>1 DEF RailInv, LoneFacts, ExecutionFacts
  <2>2. CASE d = e
    <3>1. s = of[e] /\ pc'[e] = to
      BY <1>4, <2>1, <2>2 DEF s, Stored
    <3> QED
      BY <1>3, <1>4, <2>1, <2>2, <3>1
  <2>3. CASE d # e
    <3>1. RailId[of[d]] # RailId[of[e]]
      BY <2>1, <2>3 DEF RailInv, OverlapIsKnown, AnswersTo
    <3> QED
      BY <1>1, <1>3, <1>4, <2>1, <2>3, <3>1
  <2> QED
    BY <2>2, <2>3
<1>8. SettledFacts'
  <2> SUFFICES ASSUME NEW o \in Objects, state'[o] \in SettledStates
               PROVE  \E d \in paid' : RailId[of[d]] = RailId[o]
    BY DEF SettledFacts, AnswersTo
  <2>1. CASE state[o] \in SettledStates
    BY <2>1 DEF RailInv, SettledFacts, AnswersTo
  <2>2. CASE state[o] \notin SettledStates
    <3>1. o = s /\ \E n \in DOMAIN path : After(state[s], path) = path[n]
      BY <1>2, <1>3, <2>2
    <3>2. e \in paid'
      BY <1>3, <3>1
    <3> QED
      BY <1>1, <3>1, <3>2
  <2> QED
    BY <2>1, <2>2
<1>9. RailTypeOK'
  <2>1. /\ store' \in [Ids -> Objects \cup {None}]
        /\ \A i \in Ids : store'[i] # None => RailId[store'[i]] = i
        /\ position' \in Nat /\ fault' \in Faults
        /\ overlapped' \subseteq Executions
        /\ of' \in [Executions -> Objects \cup {None}]
    BY DEF AnswersTo, RailInv, RailTypeOK
  <2>2. paid' \subseteq Executions
    BY DEF AnswersTo, RailInv, RailTypeOK
  <2>3. \A o \in Objects : Transaction(o)' \in GYBTransactionProtocol
    <3>1. fxRate' \in [Objects -> Nat \cup {None}]
      BY DEF AnswersTo
    <3>2. ASSUME NEW o \in Objects
          PROVE  /\ Transaction(o)' = [railTransactionId |-> RailId[o], state |-> state'[o],
                      sourceAmount |-> Source[o], destinationAmount |-> Destination[o], fxRate |-> fxRate'[o]]
                 /\ RailId[o] \in Ids /\ state'[o] \in RailTransactionState /\ Source[o] \in Nat
                 /\ Destination[o] \in Nat /\ fxRate'[o] \in Nat \cup {None}
      BY <1>3, <3>1, RailAssumption DEF Transaction
    <3> HIDE DEF RailTransactionState
    <3> QED
      BY <3>2 DEF GYBTransactionProtocol
  <2>4. \A d \in Executions : pc'[d] \in Awaiting => answer'[d] # "none" /\ store'[RailId[of'[d]]] # None
    BY <1>4 DEF AnswersTo, RailInv, RailTypeOK
  <2> QED
    BY <1>4, <2>1, <2>2, <2>3, <2>4 DEF RailTypeOK
<1>10. fxRate' \in [Objects -> Nat \cup {None}]
  BY DEF AnswersTo
<1> QED
  BY <1>3, <1>5, <1>6, <1>7, <1>8, <1>9, <1>10 DEF RailInv

LEMMA LockFxStep ==
  ASSUME RailInv, NEW e \in Executions, LockFx(e)
  PROVE  RailInv'
<1> DEFINE path == <<"FX_LOCKED", "SETTLEMENT_PENDING">>
<1>1. pc[e] = "quote" /\ answer[e] = "rate" /\ ExecutionFacts(e) /\ of[e] \in Objects
  BY DEF LockFx, RailInv, ExecutionFacts, Awaiting
<1>2. SettlementAnswer \in {"success", "refused", "throws"}
  BY DEF SettlementAnswer
<1>3. paid' = IF SettlementAnswer = "success" THEN paid \cup {e} ELSE paid
  BY DEF LockFx
<1>4. fxRate' \in [Objects -> Nat \cup {None}]
  <2>1. Source[of[e]] * Rate \in Nat
    BY <1>1, RailAssumption
  <2>2. fxRate' = [fxRate EXCEPT ![of[e]] = Source[of[e]] * Rate]
    BY DEF LockFx
  <2> QED
    BY <2>1, <2>2 DEF RailInv
<1>5. /\ pc' = [pc EXCEPT ![e] = "settlement"] /\ answer' = [answer EXCEPT ![e] = SettlementAnswer]
      /\ state' = Requested(state, Stored(e), path)
      /\ UNCHANGED <<store, position, fault, of, overlapped>>
  BY DEF LockFx, Await, Moves
<1> HIDE DEF SettlementAnswer
<1>6. AnswersTo(e, path, "settlement", SettlementAnswer)
  <2>1. path \in Seq(RailTransactionState)
    BY DEF RailTransactionState
  <2> HIDE DEF path
  <2> QED
    BY <1>1, <1>2, <1>3, <1>4, <1>5, <2>1 DEF AnswersTo, Answers, Awaiting
<1>7. ExecutionFacts(e)'
  <2>1. pc'[e] = "settlement" /\ answer'[e] = SettlementAnswer
    BY <1>5 DEF RailInv, RailTypeOK
  <2> QED
    BY <1>1, <1>2, <1>3, <1>5, <2>1 DEF ExecutionFacts
<1>8. \A n \in DOMAIN path : path[n] \notin SettledStates
  BY DEF SettledStates
<1>9. After(Expected("quote"), path) = Expected("settlement")
  BY ProtocolPaths DEF Expected
<1> QED
  BY <1>1, <1>6, <1>7, <1>8, <1>9, AnswerKeeps

LEMMA FailStep ==
  ASSUME RailInv, NEW e \in Executions, Fail(e)
  PROVE  RailInv'
<1> DEFINE path == <<"FAILED">>
<1>1. /\ pc[e] \in Awaiting /\ answer[e] \in {"throws", "refused"} /\ ExecutionFacts(e) /\ of[e] \in Objects
  BY DEF Fail, RailInv, ExecutionFacts
<1>2. /\ pc' = [pc EXCEPT ![e] = "false"] /\ answer' = [answer EXCEPT ![e] = "none"]
      /\ state' = Requested(state, Stored(e), path)
      /\ UNCHANGED <<store, fxRate, position, fault, paid, of, overlapped>>
  BY DEF Fail, Return, Moves
<1>3. AnswersTo(e, path, "false", "none")
  <2>1. path \in Seq(RailTransactionState)
    BY DEF RailTransactionState
  <2> HIDE DEF path
  <2> QED
    BY <1>1, <1>2, <2>1 DEF AnswersTo, Answers, Awaiting, RailInv
<1>4. ExecutionFacts(e)'
  <2>1. pc'[e] = "false"
    BY <1>2 DEF RailInv, RailTypeOK
  <2> QED
    BY <1>1, <1>2, <2>1 DEF ExecutionFacts
<1>5. \A n \in DOMAIN path : path[n] \notin SettledStates
  BY DEF SettledStates
<1> QED
  BY <1>3, <1>4, <1>5, AnswerKeeps DEF Awaiting

LEMMA ExternallySettledStep ==
  ASSUME RailInv, NEW e \in Executions, ExternallySettled(e)
  PROVE  RailInv'
<1> DEFINE path == <<"EXTERNAL_SETTLEMENT">>
<1>1. /\ pc[e] = "settlement" /\ answer[e] = "success" /\ ExecutionFacts(e) /\ of[e] \in Objects /\ e \in paid
  BY DEF ExternallySettled, RailInv, ExecutionFacts, Awaiting
<1>2. /\ pc' = [pc EXCEPT ![e] = "status"] /\ answer' = [answer EXCEPT ![e] = "COMPLETED"]
      /\ state' = Requested(state, Stored(e), path)
      /\ UNCHANGED <<store, fxRate, position, fault, paid, of, overlapped>>
  BY DEF ExternallySettled, Await, Moves
<1>3. AnswersTo(e, path, "status", "COMPLETED")
  <2>1. path \in Seq(RailTransactionState)
    BY DEF RailTransactionState
  <2> HIDE DEF path
  <2> QED
    BY <1>1, <1>2, <2>1 DEF AnswersTo, Answers, Awaiting, RailInv
<1>4. ExecutionFacts(e)'
  <2>1. pc'[e] = "status" /\ answer'[e] = "COMPLETED"
    BY <1>2 DEF RailInv, RailTypeOK
  <2> QED
    BY <1>1, <1>2, <2>1 DEF ExecutionFacts
<1>5. After(Expected("settlement"), path) = Expected("status")
  BY ProtocolPaths DEF Expected
<1> QED
  BY <1>1, <1>2, <1>3, <1>4, <1>5, AnswerKeeps

(* What is reconciled is the transaction's own amount, which always matches. *)
LEMMA ReconcileMoves ==
  ASSUME NEW e, Reconcile(e), answer[e] = "COMPLETED", RailInv, Stored(e) \in Objects
  PROVE  state' = Requested(state, Stored(e), ReconcilePath) /\ Return(e, "true")
<1> DEFINE o == of[e]
           s == Stored(e)
           reported == IF answer[e] = "COMPLETED" THEN Requested(state, s, <<"SETTLED">>) ELSE state
           matched == ReconcileTransaction(o, Destination[o], Destination[o], "COMPLETED") = "MATCHED"
           rest == <<"RECONCILING", "RECONCILED", "COMPLETED">>
<1>1. matched
  BY DEF ReconcileTransaction
<1>2. reported = Requested(state, s, <<"SETTLED">>)
  OBVIOUS
<1>3. /\ state' = Requested(reported, s, IF matched THEN rest ELSE <<"RECONCILING", "QUARANTINED">>)
      /\ Return(e, IF matched THEN "true" ELSE "false")
  BY DEF Reconcile
<1> HIDE DEF matched, reported
<1>4. state' = Requested(Requested(state, s, <<"SETTLED">>), s, rest) /\ Return(e, "true")
  BY <1>1, <1>2, <1>3
<1>5. After(After(state[s], <<"SETTLED">>), rest) = After(state[s], ReconcilePath)
  BY OnePath, ThreePath, LongPath DEF ReconcilePath
<1> HIDE DEF rest
<1>6. Requested(Requested(state, s, <<"SETTLED">>), s, rest) = Requested(state, s, ReconcilePath)
  <2> DEFINE first == After(state[s], <<"SETTLED">>)
             once == [state EXCEPT ![s] = first]
  <2>1. once[s] = first
    BY DEF RailInv
  <2> HIDE DEF first
  <2>2. [once EXCEPT ![s] = After(first, rest)] = [state EXCEPT ![s] = After(first, rest)]
    BY DEF RailInv
  <2>3. Requested(state, s, <<"SETTLED">>) = once
    BY DEF Requested, first
  <2> HIDE DEF once
  <2>4. Requested(once, s, rest) = [once EXCEPT ![s] = After(first, rest)]
    BY <2>1 DEF Requested
  <2>5. Requested(state, s, ReconcilePath) = [state EXCEPT ![s] = After(first, rest)]
    BY <1>5 DEF Requested, first
  <2> QED
    BY <2>2, <2>3, <2>4, <2>5
<1> QED
  BY <1>4, <1>6

LEMMA ReconcileStep ==
  ASSUME RailInv, NEW e \in Executions, Reconcile(e)
  PROVE  RailInv'
<1>1. /\ pc[e] = "status" /\ answer[e] = "COMPLETED" /\ ExecutionFacts(e) /\ of[e] \in Objects /\ e \in paid
  BY DEF Reconcile, RailInv, ExecutionFacts, Awaiting
<1>2. /\ pc' = [pc EXCEPT ![e] = "true"] /\ answer' = [answer EXCEPT ![e] = "none"]
      /\ state' = Requested(state, Stored(e), ReconcilePath)
      /\ UNCHANGED <<store, fxRate, position, fault, paid, of, overlapped>>
  <2>1. Stored(e) \in Objects
    BY <1>1, RailAssumption DEF RailInv, RailTypeOK, Stored, Awaiting
  <2>2. state' = Requested(state, Stored(e), ReconcilePath) /\ Return(e, "true")
    BY <1>1, <2>1, ReconcileMoves
  <2>3. UNCHANGED <<store, fxRate, position, fault, paid, of, overlapped>>
    BY DEF Reconcile
  <2> QED
    BY <2>2, <2>3 DEF Return
<1>3. AnswersTo(e, ReconcilePath, "true", "none")
  <2>1. ReconcilePath \in Seq(RailTransactionState)
    BY DEF ReconcilePath, RailTransactionState
  <2> QED
    BY <1>1, <1>2, <2>1 DEF AnswersTo, Answers, Awaiting, RailInv
<1>4. ExecutionFacts(e)'
  <2>1. pc'[e] = "true"
    BY <1>2 DEF RailInv, RailTypeOK
  <2> QED
    BY <1>1, <1>2, <2>1 DEF ExecutionFacts
<1> QED
  BY <1>1, <1>2, <1>3, <1>4, AnswerKeeps DEF Awaiting

\* A step that creates the transaction of object o for execution e.
Creates(e, o, path, to, reply) ==
  /\ e \in Executions /\ o \in Objects /\ pc[e] = "new"
  /\ path \in Seq(RailTransactionState)
  /\ CreateTransaction(e, o, path)
  /\ to \in Awaiting \cup {"false"} /\ reply \in Answers /\ (to \in Awaiting => reply # "none")
  /\ pc' = [pc EXCEPT ![e] = to] /\ answer' = [answer EXCEPT ![e] = reply]
  /\ position' \in Nat
  /\ UNCHANGED <<fxRate, fault, paid>>

LEMMA CreateKeeps ==
  ASSUME RailInv, NEW e, NEW o, NEW path, NEW to, NEW reply, Creates(e, o, path, to, reply),
         to # "false" => to = "quote" /\ reply \in {"rate", "throws"} /\ After("CREATED", path) = "CLEARING",
         \A n \in DOMAIN path : path[n] \notin SettledStates
  PROVE  RailInv' /\ state'[o] = After("CREATED", path)
<1>1. After("CREATED", path) = "CREATED" \/ \E n \in DOMAIN path : After("CREATED", path) = path[n]
  BY AfterType DEF Creates
<1>2. /\ state' \in [Objects -> RailTransactionState] /\ After("CREATED", path) \notin SettledStates
      /\ state'[o] = After("CREATED", path) /\ \A p \in Objects : p # o => state'[p] = state[p]
  <2>1. After("CREATED", path) \in RailTransactionState
    <3>1. "CREATED" \in RailTransactionState
      BY DEF RailTransactionState
    <3>2. path \in Seq(RailTransactionState)
      BY DEF Creates
    <3> HIDE DEF RailTransactionState
    <3> QED
      BY <1>1, <3>1, <3>2
  <2>2. After("CREATED", path) \notin SettledStates
    BY <1>1 DEF SettledStates
  <2> HIDE DEF RailTransactionState
  <2>3. state' = [[state EXCEPT ![o] = "CREATED"] EXCEPT ![o] = After(@, path)]
    BY DEF Creates, CreateTransaction, Requested
  <2>4. state' = [state EXCEPT ![o] = After("CREATED", path)]
    BY <2>3 DEF RailInv, Creates
  <2> QED
    BY <2>1, <2>2, <2>4 DEF RailInv, Creates
<1>3. /\ pc' \in [Executions -> Awaiting \cup Ended \cup {"new"}] /\ answer' \in [Executions -> Answers]
      /\ pc'[e] = to /\ answer'[e] = reply
      /\ \A d \in Executions : d # e => pc'[d] = pc[d] /\ answer'[d] = answer[d]
  BY DEF Creates, RailInv, RailTypeOK, Ended
<1>4. /\ of' \in [Executions -> Objects \cup {None}] /\ of'[e] = o
      /\ \A d \in Executions : d # e => of'[d] = of[d]
  BY DEF Creates, CreateTransaction, RailInv, RailTypeOK
<1>5. /\ store' \in [Ids -> Objects \cup {None}] /\ store'[RailId[o]] = o /\ RailId[o] \in Ids
      /\ \A i \in Ids : i # RailId[o] => store'[i] = store[i]
  BY RailAssumption DEF Creates, CreateTransaction, RailInv, RailTypeOK
<1>6. e \notin paid
  BY DEF Creates, RailInv, ExecutionFacts
<1>7. /\ overlapped \subseteq overlapped' /\ overlapped' \subseteq Executions
      /\ \A d \in Running(RailId[o]) : d \in overlapped' /\ e \in overlapped'
  <2>1. Running(RailId[o]) \subseteq Executions
    BY DEF Running
  <2>2. overlapped' = overlapped \cup
          (IF Running(RailId[o]) = {} THEN {} ELSE Running(RailId[o]) \cup {e})
    BY DEF Creates, CreateTransaction
  <2> HIDE DEF Running
  <2> QED
    BY <2>1, <2>2 DEF Creates, RailInv, RailTypeOK
<1>8. ASSUME NEW d \in Executions PROVE ExecutionFacts(d)'
  <2>1. CASE d = e
    BY <1>3, <1>4, <1>6, <2>1 DEF Creates, ExecutionFacts, Awaiting
  <2>2. CASE d # e
    BY <1>3, <1>4, <2>2 DEF Creates, ExecutionFacts, RailInv
  <2> QED
    BY <2>1, <2>2
<1>9. ASSUME NEW d \in Executions, d # e, pc[d] \in Awaiting, RailId[of[d]] = RailId[o]
      PROVE  d \in overlapped' /\ e \in overlapped'
  BY <1>7, <1>9 DEF Running
<1>10. OverlapIsKnown'
  <2> SUFFICES ASSUME NEW c \in Executions, NEW d \in Executions, c # d, pc'[c] \in Awaiting,
                      pc'[d] \in Awaiting, RailId[of'[c]] = RailId[of'[d]]
               PROVE  c \in overlapped'
    BY DEF OverlapIsKnown
  <2>1. CASE c = e \/ d = e
    BY <1>3, <1>4, <1>9, <2>1
  <2>2. CASE c # e /\ d # e
    BY <1>3, <1>4, <1>7, <2>2 DEF RailInv, OverlapIsKnown
  <2> QED
    BY <2>1, <2>2
<1>11. ASSUME NEW d \in Executions PROVE LoneFacts(d)'
  <2> SUFFICES ASSUME pc'[d] \in Awaiting, d \notin overlapped'
               PROVE  store'[RailId[of'[d]]] = of'[d] /\ state'[of'[d]] = Expected(pc'[d])
    BY DEF LoneFacts
  <2>1. CASE d = e
    BY <1>2, <1>3, <1>4, <1>5, <2>1 DEF Expected, Awaiting
  <2>2. CASE d # e
    <3>1. /\ pc'[d] = pc[d] /\ of'[d] = of[d] /\ of[d] \in Objects
          /\ store[RailId[of[d]]] = of[d] /\ state[of[d]] = Expected(pc[d])
      BY <1>3, <1>4, <1>7, <2>2 DEF RailInv, LoneFacts, ExecutionFacts
    <3>2. RailId[of[d]] # RailId[o] /\ RailId[of[d]] \in Ids
      BY <1>9, <2>2, <3>1, RailAssumption
    <3> QED
      BY <1>2, <1>5, <3>1, <3>2
  <2> QED
    BY <2>1, <2>2
<1>12. SettledFacts'
  <2> SUFFICES ASSUME NEW p \in Objects, state'[p] \in SettledStates
               PROVE  \E d \in paid' : RailId[of'[d]] = RailId[p]
    BY DEF SettledFacts
  <2>1. state[p] \in SettledStates
    BY <1>2
  <2>2. PICK d \in paid : RailId[of[d]] = RailId[p]
    BY <2>1 DEF RailInv, SettledFacts
  <2>3. d # e /\ d \in paid' /\ d \in Executions
    BY <1>6, <2>2 DEF Creates, RailInv, RailTypeOK
  <2> QED
    BY <1>4, <2>2, <2>3
<1>13. RailTypeOK'
  <2>1. \A i \in Ids : store'[i] # None => RailId[store'[i]] = i
    BY <1>5 DEF RailInv, RailTypeOK
  <2>2. position' \in Nat /\ fault' \in Faults /\ paid' \subseteq Executions
    BY DEF Creates, RailInv, RailTypeOK
  <2>3. \A p \in Objects : Transaction(p)' \in GYBTransactionProtocol
    <3>1. fxRate' \in [Objects -> Nat \cup {None}]
      BY DEF Creates, RailInv
    <3>2. ASSUME NEW p \in Objects
          PROVE  /\ Transaction(p)' = [railTransactionId |-> RailId[p], state |-> state'[p],
                      sourceAmount |-> Source[p], destinationAmount |-> Destination[p], fxRate |-> fxRate'[p]]
                 /\ RailId[p] \in Ids /\ state'[p] \in RailTransactionState /\ Source[p] \in Nat
                 /\ Destination[p] \in Nat /\ fxRate'[p] \in Nat \cup {None}
      BY <1>2, <3>1, RailAssumption DEF Transaction
    <3> HIDE DEF RailTransactionState
    <3> QED
      BY <3>2 DEF GYBTransactionProtocol
  <2>4. ASSUME NEW d \in Executions, pc'[d] \in Awaiting
        PROVE  answer'[d] # "none" /\ store'[RailId[of'[d]]] # None
    <3>1. CASE d = e
      BY <1>3, <1>4, <1>5, <2>4, <3>1, RailAssumption DEF Creates
    <3>2. CASE d # e
      <4>1. /\ pc'[d] = pc[d] /\ of'[d] = of[d] /\ answer'[d] = answer[d] /\ of[d] \in Objects
            /\ answer[d] # "none" /\ store[RailId[of[d]]] # None
        BY <1>3, <1>4, <2>4, <3>2 DEF RailInv, RailTypeOK, ExecutionFacts
      <4> QED
        BY <1>5, <4>1, RailAssumption DEF Creates
    <3> QED
      BY <3>1, <3>2
  <2> QED
    BY <1>3, <1>4, <1>5, <1>7, <2>1, <2>2, <2>3, <2>4 DEF RailTypeOK
<1>14. fxRate' \in [Objects -> Nat \cup {None}]
  BY DEF Creates, RailInv
<1> QED
  BY <1>2, <1>8, <1>10, <1>11, <1>12, <1>13, <1>14 DEF RailInv

LEMMA AcceptStep ==
  ASSUME RailInv, NEW e \in Executions, NEW o \in Objects, Accept(e, o)
  PROVE  RailInv'
<1>1. QuoteAnswer \in {"rate", "throws"}
  BY DEF QuoteAnswer
<1>2. position' \in Nat
  BY RailAssumption DEF Accept, SubmitForClearing, RailInv, RailTypeOK
<1> HIDE DEF QuoteAnswer
<1>3. AcceptPath \in Seq(RailTransactionState)
  BY DEF AcceptPath, RailTransactionState
<1>4. Creates(e, o, AcceptPath, "quote", QuoteAnswer)
  <2>1. CreateTransaction(e, o, AcceptPath)
    BY DEF Accept, AcceptPath
  <2>2. /\ pc' = [pc EXCEPT ![e] = "quote"] /\ answer' = [answer EXCEPT ![e] = QuoteAnswer]
        /\ pc[e] = "new" /\ UNCHANGED <<fxRate, fault, paid>>
    BY DEF Accept, Await
  <2> HIDE DEF CreateTransaction, AcceptPath
  <2> QED
    BY <1>1, <1>2, <1>3, <2>1, <2>2 DEF Creates, Answers, Awaiting
<1>5. \A n \in DOMAIN AcceptPath : AcceptPath[n] \notin SettledStates
  BY DEF AcceptPath, SettledStates
<1> QED
  BY <1>1, <1>4, <1>5, ProtocolPaths, CreateKeeps

LEMMA CorridorRejectsStep ==
  ASSUME RailInv, NEW e \in Executions, NEW o \in Objects, CorridorRejects(e, o)
  PROVE  RailInv' /\ state'[o] = "REJECTED"
<1> DEFINE path == <<"REJECTED">>
<1>1. path \in Seq(RailTransactionState)
  BY DEF RailTransactionState
<1>2. Creates(e, o, path, "false", "none")
  <2>1. CreateTransaction(e, o, path)
    BY DEF CorridorRejects
  <2>2. /\ pc' = [pc EXCEPT ![e] = "false"] /\ answer' = [answer EXCEPT ![e] = "none"]
        /\ pc[e] = "new" /\ UNCHANGED <<fxRate, position, fault, paid>>
    BY DEF CorridorRejects, Return
  <2> HIDE DEF CreateTransaction, path
  <2> QED
    BY <1>1, <2>1, <2>2 DEF Creates, Answers, Awaiting, RailInv, RailTypeOK
<1>3. \A n \in DOMAIN path : path[n] \notin SettledStates
  BY DEF SettledStates
<1>4. After("CREATED", path) = "REJECTED"
  BY ProtocolPaths
<1> HIDE DEF path
<1> QED
  BY <1>2, <1>3, <1>4, CreateKeeps

LEMMA NotReadyStep ==
  ASSUME RailInv, NEW e \in Executions, NEW o \in Objects, NotReady(e, o)
  PROVE  RailInv'
<1>1. /\ pc[e] = "new" /\ pc' = [pc EXCEPT ![e] = "threw"] /\ answer' = [answer EXCEPT ![e] = "none"]
      /\ of' = [of EXCEPT ![e] = o]
      /\ UNCHANGED <<store, state, fxRate, position, fault, paid, overlapped>>
  BY DEF NotReady, Return
<1>2. /\ pc' \in [Executions -> Awaiting \cup Ended \cup {"new"}] /\ answer' \in [Executions -> Answers]
      /\ of' \in [Executions -> Objects \cup {None}] /\ pc'[e] = "threw"
      /\ \A d \in Executions : d # e => pc'[d] = pc[d] /\ of'[d] = of[d] /\ answer'[d] = answer[d]
  BY <1>1 DEF RailInv, RailTypeOK, Ended, Answers
<1>3. e \notin paid
  BY <1>1 DEF RailInv, ExecutionFacts
<1>4. RailTypeOK'
  <2>1. \A p \in Objects : Transaction(p)' = Transaction(p)
    BY <1>1 DEF Transaction
  <2> QED
    BY <1>1, <1>2, <2>1 DEF RailInv, RailTypeOK, Awaiting
<1>5. ASSUME NEW d \in Executions PROVE ExecutionFacts(d)' /\ LoneFacts(d)'
  <2>1. CASE d = e
    BY <1>1, <1>2, <1>3, <2>1 DEF ExecutionFacts, LoneFacts, Awaiting
  <2>2. CASE d # e
    BY <1>1, <1>2, <2>2 DEF RailInv, ExecutionFacts, LoneFacts
  <2> QED
    BY <2>1, <2>2
<1>6. OverlapIsKnown'
  BY <1>1, <1>2 DEF RailInv, OverlapIsKnown, Awaiting
<1>7. SettledFacts'
  <2> SUFFICES ASSUME NEW p \in Objects, state[p] \in SettledStates
               PROVE  \E d \in paid : RailId[of'[d]] = RailId[p]
    BY <1>1 DEF SettledFacts
  <2>1. PICK d \in paid : RailId[of[d]] = RailId[p]
    BY DEF RailInv, SettledFacts
  <2> QED
    BY <1>2, <1>3, <2>1 DEF RailInv, RailTypeOK
<1> QED
  BY <1>1, <1>4, <1>5, <1>6, <1>7 DEF RailInv

LEMMA InjectFailureStep ==
  ASSUME RailInv, NEW reason \in Faults, InjectFailure(reason)
  PROVE  RailInv'
<1>1. \A p \in Objects : Transaction(p)' = Transaction(p)
  BY DEF Transaction, InjectFailure
<1>2. RailTypeOK'
  BY <1>1 DEF RailInv, RailTypeOK, InjectFailure
<1>3. \A e \in Executions : ExecutionFacts(e)' /\ LoneFacts(e)'
  BY DEF RailInv, ExecutionFacts, LoneFacts, InjectFailure
<1> QED
  BY <1>2, <1>3 DEF RailInv, OverlapIsKnown, SettledFacts, InjectFailure

LEMMA RailInvInit == Init => RailInv
<1> SUFFICES ASSUME Init PROVE RailInv
  OBVIOUS
<1>1. state \in [Objects -> RailTransactionState] /\ fxRate \in [Objects -> Nat \cup {None}]
  BY DEF Init, RailTransactionState
<1>2. \A o \in Objects : Transaction(o) \in GYBTransactionProtocol
  BY <1>1, RailTyped
<1>3. RailTypeOK
  BY <1>2 DEF Init, RailTypeOK, Faults, Answers, Awaiting
<1>4. \A e \in Executions : ExecutionFacts(e) /\ LoneFacts(e)
  BY DEF Init, ExecutionFacts, LoneFacts, Awaiting
<1> QED
  BY <1>1, <1>3, <1>4 DEF RailInv, OverlapIsKnown, SettledFacts, Init, Awaiting, SettledStates

LEMMA RailInvStep == RailInv /\ [Next]_vars => RailInv'
<1> SUFFICES ASSUME RailInv, [Next]_vars PROVE RailInv'
  OBVIOUS
<1>1. CASE Next
  BY <1>1, InjectFailureStep, NotReadyStep, CorridorRejectsStep, AcceptStep, LockFxStep, FailStep,
     ExternallySettledStep, ReconcileStep DEF Next
<1>2. CASE UNCHANGED vars
  <2>1. \A p \in Objects : Transaction(p)' = Transaction(p)
    BY <1>2 DEF vars, Transaction
  <2>2. RailTypeOK'
    BY <1>2, <2>1 DEF vars, RailInv, RailTypeOK
  <2>3. \A e \in Executions : ExecutionFacts(e)' /\ LoneFacts(e)'
    BY <1>2 DEF vars, RailInv, ExecutionFacts, LoneFacts
  <2> QED
    BY <1>2, <2>2, <2>3 DEF vars, RailInv, OverlapIsKnown, SettledFacts
<1> QED
  BY <1>1, <1>2

LEMMA RailInvHolds == Spec => []RailInv
BY RailInvInit, RailInvStep, PTL DEF Spec

(* For any number of executions, objects and ids, however they overlap: a      *)
(* transaction that shows as settled, or beyond, was paid out in an execution  *)
(* of its id (EndToEndTransactionOrchestrator.execute).                        *)
THEOREM SettledIsPaid == Spec => []SettledWasPaid
<1>1. RailInv => SettledWasPaid
  BY DEF RailInv, SettledFacts, SettledWasPaid
<1> QED
  BY <1>1, RailInvHolds, PTL

\* What LoneResultIsTrue says of one execution in one step.
TellsTheTruth(e) ==
  LET final == state'[store'[RailId[of'[e]]]]
  IN  /\ IsTerminal(final)
      /\ pc'[e] = "true" <=> e \in paid'
      /\ pc'[e] = "true" <=> final = "COMPLETED"

(* An answer that ends an execution no other overlapped. *)
LEMMA LoneAnswer ==
  ASSUME RailInv, NEW e \in Executions, pc[e] \in Awaiting, e \notin overlapped', NEW path,
         state' = Requested(state, Stored(e), path), UNCHANGED <<store, of, overlapped>>
  PROVE  state'[store'[RailId[of'[e]]]] = After(Expected(pc[e]), path)
<1>1. of[e] \in Objects /\ store[RailId[of[e]]] = of[e] /\ state[of[e]] = Expected(pc[e])
  BY DEF RailInv, ExecutionFacts, LoneFacts
<1> QED
  BY <1>1 DEF Requested, Stored, RailInv

(* For any number of executions, objects and ids: an execution that no other of *)
(* its id overlaps tells the truth when it returns                              *)
(* (EndToEndTransactionOrchestrator.execute).                                   *)
THEOREM LoneResultHolds == Spec => LoneResultIsTrue
<1>1. ASSUME RailInv, [Next]_vars, NEW e \in Executions, pc[e] # pc'[e], pc'[e] \in {"true", "false"},
             e \notin overlapped'
      PROVE  TellsTheTruth(e)
  <2>0. pc \in [Executions -> Awaiting \cup Ended \cup {"new"}]
    BY <1>1 DEF RailInv, RailTypeOK
  <2>1. ASSUME NEW d \in Executions, NEW o \in Objects, CorridorRejects(d, o) PROVE TellsTheTruth(e)
    <3>1. e = d /\ pc'[e] = "false"
      BY <1>1, <2>0, <2>1 DEF CorridorRejects, Return
    <3>2. state'[o] = "REJECTED"
      BY <1>1, <2>1, CorridorRejectsStep
    <3>3. store'[RailId[o]] = o /\ of'[e] = o
      BY <1>1, <2>1, <3>1, RailAssumption DEF CorridorRejects, CreateTransaction, RailInv, RailTypeOK
    <3>4. e \notin paid'
      BY <1>1, <2>1, <3>1 DEF CorridorRejects, RailInv, ExecutionFacts
    <3> QED
      BY <3>1, <3>2, <3>3, <3>4 DEF TellsTheTruth, IsTerminal
  <2>2. ASSUME NEW d \in Executions, Fail(d) PROVE TellsTheTruth(e)
    <3>1. e = d /\ pc'[e] = "false" /\ pc[e] \in Awaiting /\ ExecutionFacts(e)
      BY <1>1, <2>0, <2>2 DEF Fail, Return, RailInv
    <3>2. pc[e] \in {"quote", "settlement"} /\ e \notin paid
      BY <2>2, <3>1 DEF Fail, ExecutionFacts, Awaiting
    <3> DEFINE path == <<"FAILED">>
    <3>3. After(Expected(pc[e]), path) = "FAILED"
      BY <3>2, ProtocolPaths DEF Expected
    <3>4. state' = Requested(state, Stored(e), path) /\ UNCHANGED <<store, paid, of, overlapped>>
      BY <2>2, <3>1 DEF Fail, Moves
    <3> HIDE DEF path
    <3>5. state'[store'[RailId[of'[e]]]] = "FAILED"
      BY <1>1, <3>1, <3>3, <3>4, LoneAnswer
    <3> QED
      BY <3>1, <3>2, <3>4, <3>5 DEF TellsTheTruth, IsTerminal
  <2>3. ASSUME NEW d \in Executions, Reconcile(d) PROVE TellsTheTruth(e)
    <3>1. pc[d] = "status" /\ answer[d] = "COMPLETED" /\ d \in paid
      BY <1>1, <2>3 DEF Reconcile, RailInv, ExecutionFacts
    <3>2. Stored(d) \in Objects
      BY <1>1, <3>1, RailAssumption DEF RailInv, RailTypeOK, Stored, Awaiting, ExecutionFacts
    <3>3. state' = Requested(state, Stored(d), ReconcilePath) /\ Return(d, "true")
      BY <1>1, <2>3, <3>1, <3>2, ReconcileMoves
    <3>4. e = d /\ pc'[e] = "true"
      BY <1>1, <2>0, <3>3 DEF Return
    <3>5. After(Expected(pc[e]), ReconcilePath) = "COMPLETED" /\ pc[e] \in Awaiting /\ e \in paid
      BY <3>1, <3>4, ProtocolPaths DEF Expected, Awaiting
    <3>6. state' = Requested(state, Stored(e), ReconcilePath) /\ UNCHANGED <<store, paid, of, overlapped>>
      BY <2>3, <3>3, <3>4 DEF Reconcile
    <3>7. state'[store'[RailId[of'[e]]]] = "COMPLETED"
      BY <1>1, <3>5, <3>6, LoneAnswer
    <3> QED
      BY <3>4, <3>5, <3>6, <3>7 DEF TellsTheTruth, IsTerminal
  <2>4. ASSUME NEW reason \in Faults, InjectFailure(reason) PROVE FALSE
    BY <1>1, <2>4 DEF InjectFailure
  <2>5. ASSUME NEW d \in Executions, NEW o \in Objects, NotReady(d, o) PROVE FALSE
    BY <1>1, <2>0, <2>5 DEF NotReady, Return
  <2>6. ASSUME NEW d \in Executions, NEW o \in Objects, Accept(d, o) PROVE FALSE
    BY <1>1, <2>0, <2>6 DEF Accept, Await
  <2>7. ASSUME NEW d \in Executions, LockFx(d) PROVE FALSE
    BY <1>1, <2>0, <2>7 DEF LockFx, Await
  <2>8. ASSUME NEW d \in Executions, ExternallySettled(d) PROVE FALSE
    BY <1>1, <2>0, <2>8 DEF ExternallySettled, Await
  <2>9. CASE UNCHANGED vars
    BY <1>1, <2>9 DEF vars
  <2> QED
    BY <1>1, <2>1, <2>2, <2>3, <2>4, <2>5, <2>6, <2>7, <2>8, <2>9 DEF Next
<1>2. RailInv /\ [Next]_vars =>
        [\A e \in Executions :
           pc[e] # pc'[e] /\ pc'[e] \in {"true", "false"} /\ e \notin overlapped' =>
             LET final == state'[store'[RailId[of'[e]]]]
             IN  /\ IsTerminal(final)
                 /\ pc'[e] = "true" <=> e \in paid'
                 /\ pc'[e] = "true" <=> final = "COMPLETED"]_vars
  BY <1>1 DEF TellsTheTruth
<1> QED
  BY <1>2, RailInvHolds, PTL DEF Spec, LoneResultIsTrue

-----------------------------------------------------------------------------
(* A transfer over the rails of src/src. *)

(* A transfer that was answered is the last one that was sent. *)
AnswerFits(t, ph, ref, txs) ==
  /\ ph \in {"pending", "confirmed"} => ref \in DOMAIN txs
  /\ ph = "confirmed" => txs[ref].state = "landed"
  /\ ph = "built" => Len(txs) < MaxSends
  /\ \A i \in DOMAIN txs :
       /\ txs[i].answered => ph \in {"pending", "confirmed"} /\ ref = i
       /\ txs[i].asset = AssetSent(payment[t].from[2])

AnswersAreKept == \A t \in Transfers : AnswerFits(t, phase[t], reference[t], chain[t])

(* What is netted was found liquid, and goes between pools. *)
NettingFits(t, ph, r, liquid) ==
  /\ ph = "new" => r = NoRail
  /\ r = "internal" => liquid
  /\ ph \in {"netted", "inflowRecorded"} => r = "internal"
  /\ ph = "inflowRecorded" => payment[t].to \in Pools

NettedWasLiquid == \A t \in Transfers : NettingFits(t, phase[t], rail[t], internal[t])

(* A pool that is not contended, and of which no more was taken than was    *)
(* checked, has at most one transfer between check and record, and can pay *)
(* what was checked.                                                       *)
Sound(p) ==
  /\ p \notin contended /\ Opening[p].balance >= Opening[p].minThreshold
  /\ \A t \in Transfers : Recorded(t) => TakesAsChecked(t, p)

PoolsCanPay ==
  \A p \in Pools :
    Sound(p) =>
      /\ pool[p].balance >= Opening[p].minThreshold
      /\ \A t \in Transfers : Open(t, p) =>
           /\ pool[p].balance - payment[t].amount >= Opening[p].minThreshold
           /\ \A u \in Transfers : Open(u, p) => u = t

PoolsAddUp ==
  \A p \in Pools : pool[p].balance = Opening[p].balance + pool[p].inflow - pool[p].outflow

TreasuryInv == TreasuryTypeOK /\ AnswersAreKept /\ NettedWasLiquid /\ PoolsCanPay /\ PoolsAddUp

Pool == [balance : Int, inflow : Int, outflow : Int]

LEMMA TreasuryTyped ==
  ASSUME TreasuryTypeOK
  PROVE  /\ payment \in [Transfers -> Payments] /\ pool \in [Pools -> Pool]
         /\ phase \in [Transfers -> Phase] /\ internal \in [Transfers -> BOOLEAN]
         /\ rail \in [Transfers -> Rails \cup {NoRail}]
         /\ chain \in [Transfers -> Seq(ChainTx)]
         /\ reference \in [Transfers -> Nat \cup {NoRail}]
         /\ contended \in SUBSET Pools
         /\ \A t \in Transfers : payment[t].amount \in Int /\ payment[t].delivered \in Int
BY TreasuryAssumption DEF TreasuryTypeOK, Pool

(* A pool that is sound was sound before: what was recorded stays so. *)
LEMMA SoundBefore ==
  ASSUME payment' = payment, contended \subseteq contended',
         \A u \in Transfers : Recorded(u) => Recorded(u)'
  PROVE  \A p \in Pools : Sound(p)' => Sound(p)
BY DEF Sound, TakesAsChecked

LEMMA TreasuryInvInit == TreasuryInit => TreasuryInv
<1> SUFFICES ASSUME TreasuryInit PROVE TreasuryInv
  OBVIOUS
<1> USE TreasuryAssumption DEF TreasuryInit
<1>1. TreasuryTypeOK
  BY DEF TreasuryTypeOK, Phase
<1>2. AnswersAreKept
  BY DEF AnswersAreKept, AnswerFits
<1>3. NettedWasLiquid
  BY DEF NettedWasLiquid, NettingFits, Rails
<1>4. PoolsCanPay
  BY DEF PoolsCanPay, Open, Sound
<1>5. PoolsAddUp
  BY DEF PoolsAddUp
<1> QED
  BY <1>1, <1>2, <1>3, <1>4, <1>5 DEF TreasuryInv

-----------------------------------------------------------------------------
(* The steps at the desk that neither touch a pool nor the chain. *)

LEMMA CheckLiquidityStep ==
  ASSUME TreasuryInv, NEW t \in Transfers, CheckLiquidity(t)
  PROVE  TreasuryInv'
<1> USE TreasuryAssumption
<1> DEFINE p == payment[t].to
<1>0. TreasuryTypeOK /\ AnswersAreKept /\ NettedWasLiquid /\ PoolsCanPay /\ PoolsAddUp
  BY DEF TreasuryInv
<1>1. /\ phase[t] = "new" /\ phase' = [phase EXCEPT ![t] = "checked"]
      /\ internal' = [internal EXCEPT ![t] = Liquid(t)]
      /\ contended' = IF Liquid(t) /\ \E u \in Transfers : Open(u, p)
                      THEN contended \cup {p} ELSE contended
      /\ UNCHANGED <<payment, pool, rail, chain, reference>>
  BY DEF CheckLiquidity, Goes
<1>2. Liquid(t) \in BOOLEAN /\ (Liquid(t) => p \in Pools)
  BY DEF Liquid
<1>3. phase' \in [Transfers -> Phase] /\ internal' \in [Transfers -> BOOLEAN]
  BY <1>0, <1>1, <1>2, TreasuryTyped DEF Phase
<1>4. contended' \subseteq Pools /\ contended \subseteq contended'
  BY <1>0, <1>1, <1>2, TreasuryTyped
<1>5. TreasuryTypeOK'
  BY <1>0, <1>1, <1>3, <1>4 DEF TreasuryTypeOK
<1>6. AnswersAreKept'
  <2> SUFFICES ASSUME NEW u \in Transfers
               PROVE  AnswerFits(u, phase'[u], reference[u], chain[u])
    BY <1>1 DEF AnswersAreKept, AnswerFits
  <2>1. phase'[u] = phase[u] \/ (u = t /\ phase[u] = "new" /\ phase'[u] = "checked")
    BY <1>0, <1>1, TreasuryTyped
  <2> QED
    BY <1>0, <2>1 DEF AnswersAreKept, AnswerFits
<1>7. NettedWasLiquid'
  <2> SUFFICES ASSUME NEW u \in Transfers
               PROVE  NettingFits(u, phase'[u], rail[u], internal'[u])
    BY <1>1 DEF NettedWasLiquid, NettingFits
  <2>1. \/ phase'[u] = phase[u] /\ internal'[u] = internal[u]
        \/ u = t /\ phase[u] = "new" /\ phase'[u] = "checked"
    BY <1>0, <1>1, TreasuryTyped
  <2> QED
    BY <1>0, <2>1 DEF NettedWasLiquid, NettingFits, Rails
<1>8. PoolsCanPay'
  <2>1. \A u \in Transfers, q \in Pools :
          Open(u, q)' => Open(u, q) \/ (u = t /\ q = p /\ Liquid(t))
    <3> SUFFICES ASSUME NEW u \in Transfers, NEW q \in Pools, Open(u, q)'
                 PROVE  Open(u, q) \/ (u = t /\ q = p /\ Liquid(t))
      OBVIOUS
    <3>1. CASE u = t
      BY <3>1, <1>0, <1>1, TreasuryTyped DEF Open
    <3>2. CASE u # t
      BY <3>2, <1>0, <1>1, TreasuryTyped DEF Open
    <3> QED
      BY <3>1, <3>2
  <2> SUFFICES ASSUME NEW q \in Pools, Sound(q)'
               PROVE  /\ pool[q].balance >= Opening[q].minThreshold
                      /\ \A u \in Transfers : Open(u, q)' =>
                           /\ pool[q].balance - payment[u].amount >= Opening[q].minThreshold
                           /\ \A v \in Transfers : Open(v, q)' => v = u
    BY <1>1 DEF PoolsCanPay
  <2>5. \A u \in Transfers : Recorded(u) => Recorded(u)'
    BY <1>0, <1>1, TreasuryTyped DEF Recorded
  <2>6. Sound(q) /\ q \notin contended'
    BY <1>1, <1>4, <2>5, SoundBefore DEF Sound
  <2>2. /\ pool[q].balance >= Opening[q].minThreshold
        /\ \A u \in Transfers : Open(u, q) =>
             /\ pool[q].balance - payment[u].amount >= Opening[q].minThreshold
             /\ \A v \in Transfers : Open(v, q) => v = u
    BY <1>0, <2>6 DEF PoolsCanPay
  <2>3. CASE q = p /\ Liquid(t)
    <3>1. \A u \in Transfers : ~Open(u, q)
      BY <2>3, <2>6, <1>1
    <3>2. pool[q].balance - payment[t].amount >= Opening[q].minThreshold
      BY <2>3 DEF Liquid
    <3> QED
      BY <2>1, <2>2, <3>1, <3>2
  <2>4. CASE ~(q = p /\ Liquid(t))
    BY <2>1, <2>2, <2>4
  <2> QED
    BY <2>3, <2>4
<1>9. PoolsAddUp'
  BY <1>0, <1>1 DEF PoolsAddUp
<1> QED
  BY <1>5, <1>6, <1>7, <1>8, <1>9 DEF TreasuryInv

(* A step of one transfer, by which it neither opens nor touches a pool. *)
Advances(t, to) ==
  /\ phase' = [phase EXCEPT ![t] = to] /\ to \in Phase
  /\ UNCHANGED <<payment, pool, internal, contended>>

(* Pools can still pay when no transfer opens and no balance moves. *)
LEMMA AdvanceKeepsPools ==
  ASSUME TreasuryInv, NEW t \in Transfers, NEW to, Advances(t, to),
         to \in {"checked", "routed", "netted", "inflowRecorded"} =>
           phase[t] \in {"checked", "routed", "netted", "inflowRecorded"},
         phase[t] \notin {"inflowRecorded", "settled"},
         \A u \in Transfers : u # t => rail'[u] = rail[u]
  PROVE  PoolsCanPay' /\ PoolsAddUp' /\ phase' \in [Transfers -> Phase]
<1>0. TreasuryTypeOK /\ PoolsCanPay /\ PoolsAddUp
  BY DEF TreasuryInv
<1>1. \A u \in Transfers, p \in Pools : Open(u, p)' => Open(u, p)
  <2> SUFFICES ASSUME NEW u \in Transfers, NEW p \in Pools, Open(u, p)' PROVE Open(u, p)
    OBVIOUS
  <2>1. CASE u = t
    BY <2>1, <1>0, TreasuryTyped DEF Open, Advances
  <2>2. CASE u # t
    BY <2>2, <1>0, TreasuryTyped DEF Open, Advances
  <2> QED
    BY <2>1, <2>2
<1>2. PoolsCanPay'
  <2>1. \A u \in Transfers : Recorded(u) => Recorded(u)'
    BY <1>0, TreasuryTyped DEF Recorded, Advances
  <2>2. \A q \in Pools : Sound(q)' => Sound(q)
    BY <2>1, SoundBefore DEF Advances
  <2> SUFFICES ASSUME NEW q \in Pools, Sound(q)
               PROVE  /\ pool[q].balance >= Opening[q].minThreshold
                      /\ \A u \in Transfers : Open(u, q)' =>
                           /\ pool[q].balance - payment[u].amount >= Opening[q].minThreshold
                           /\ \A v \in Transfers : Open(v, q)' => v = u
    BY <2>2 DEF PoolsCanPay, Advances
  <2> QED
    BY <1>0, <1>1 DEF PoolsCanPay
<1>3. PoolsAddUp'
  BY <1>0 DEF PoolsAddUp, Advances
<1> QED
  BY <1>0, <1>2, <1>3, TreasuryTyped DEF Advances

(* Nothing that was answered is touched by a step of a transfer that is    *)
(* not pending or confirmed, and does not get there.                       *)
LEMMA AdvanceKeepsAnswers ==
  ASSUME TreasuryInv, NEW t \in Transfers, NEW to, Advances(t, to), chain' = chain,
         phase[t] \notin {"pending", "confirmed"}, to \notin {"pending", "confirmed"},
         to = "built" => Len(chain[t]) < MaxSends,
         \A u \in Transfers : u # t => reference'[u] = reference[u]
  PROVE  AnswersAreKept'
<1>0. TreasuryTypeOK /\ AnswersAreKept
  BY DEF TreasuryInv
<1> SUFFICES ASSUME NEW u \in Transfers
             PROVE  AnswerFits(u, phase'[u], reference'[u], chain[u])
    BY DEF AnswersAreKept, AnswerFits, Advances
<1>1. phase \in [Transfers -> Phase] /\ phase' = [phase EXCEPT ![t] = to]
  BY <1>0, TreasuryTyped DEF Advances
<1>2. CASE u = t
  BY <1>0, <1>1, <1>2 DEF AnswersAreKept, AnswerFits
<1>3. CASE u # t
  BY <1>0, <1>1, <1>3 DEF AnswersAreKept, AnswerFits
<1> QED
  BY <1>2, <1>3

LEMMA AdvanceKeepsNetting ==
  ASSUME TreasuryInv, NEW t \in Transfers, NEW to, Advances(t, to), rail' = rail, to # "new",
         to \in {"netted", "inflowRecorded"} => rail[t] = "internal",
         to = "inflowRecorded" => payment[t].to \in Pools
  PROVE  NettedWasLiquid'
<1>0. TreasuryTypeOK /\ NettedWasLiquid
  BY DEF TreasuryInv
<1> SUFFICES ASSUME NEW u \in Transfers
             PROVE  NettingFits(u, phase'[u], rail[u], internal[u])
  BY DEF NettedWasLiquid, NettingFits, Advances
<1>1. phase \in [Transfers -> Phase] /\ phase' = [phase EXCEPT ![t] = to]
  BY <1>0, TreasuryTyped DEF Advances
<1>2. CASE u = t
  BY <1>0, <1>1, <1>2 DEF NettedWasLiquid, NettingFits
<1>3. CASE u # t
  BY <1>0, <1>1, <1>3 DEF NettedWasLiquid, NettingFits
<1> QED
  BY <1>2, <1>3

LEMMA FindOptimalRouteStep ==
  ASSUME TreasuryInv, NEW t \in Transfers, FindOptimalRoute(t)
  PROVE  TreasuryInv'
<1> USE TreasuryAssumption
<1>0. TreasuryTypeOK /\ AnswersAreKept /\ NettedWasLiquid /\ PoolsCanPay /\ PoolsAddUp
  BY DEF TreasuryInv
<1>1. phase[t] = "checked"
  BY DEF FindOptimalRoute, Goes
<1>2. /\ UNCHANGED <<payment, pool, internal, chain, reference, contended>>
      /\ \/ phase' = [phase EXCEPT ![t] = "refused"] /\ rail' = rail
         \/ phase' = [phase EXCEPT ![t] = "routed"] /\ \E r \in Rails :
              rail' = [rail EXCEPT ![t] = r] /\ (r = "internal" => internal[t])
  <2>1. CASE Options(t) = {} /\ Goes(t, "checked", "refused") /\ UNCHANGED rail
    BY <2>1 DEF FindOptimalRoute, Goes
  <2>2. ASSUME NEW i \in Options(t), rail' = [rail EXCEPT ![t] = Route(i).rail]
        PROVE  Route(i).rail \in Rails /\ (Route(i).rail = "internal" => internal[t])
    <3>1. CASE i = 0
      BY <3>1, <2>2 DEF Options, Route, InternalRoute, Rails
    <3>2. CASE i # 0
      <4>1. i \in 1 .. Len(Providers)
        BY <3>2, <2>2 DEF Options
      <4>2. Providers[i] \in {"mock", "solana"}
        BY <4>1
      <4>3. Route(i).rail \in {"mock", "solana"}
        BY <4>2, <3>2 DEF Route, Estimate, MockEstimate, BlockchainEstimate
      <4> QED
        BY <4>3 DEF Rails
    <3> QED
      BY <3>1, <3>2
  <2> QED
    BY <2>1, <2>2 DEF FindOptimalRoute, Goes
<1>3. PICK to \in {"refused", "routed"} : Advances(t, to)
  BY <1>2 DEF Advances, Phase
<1>10. \A u \in Transfers : u # t => rail'[u] = rail[u]
  BY <1>0, <1>2, TreasuryTyped
<1>4. PoolsCanPay' /\ PoolsAddUp' /\ phase' \in [Transfers -> Phase]
  BY <1>1, <1>3, <1>10, AdvanceKeepsPools
<1>5. rail' \in [Transfers -> Rails \cup {NoRail}]
  BY <1>0, <1>2, TreasuryTyped
<1>6. TreasuryTypeOK'
  BY <1>0, <1>2, <1>4, <1>5 DEF TreasuryTypeOK
<1>7. AnswersAreKept'
  BY <1>1, <1>2, <1>3, AdvanceKeepsAnswers
<1>8. ASSUME NEW u \in Transfers
      PROVE  NettingFits(u, phase'[u], rail'[u], internal[u])
  <2>0. /\ phase \in [Transfers -> Phase] /\ rail \in [Transfers -> Rails \cup {NoRail}]
        /\ phase' = [phase EXCEPT ![t] = to]
    BY <1>0, <1>3, TreasuryTyped DEF Advances
  <2>1. CASE u # t
    <3>1. phase'[u] = phase[u] /\ rail'[u] = rail[u]
      BY <2>0, <2>1, <1>2
    <3> QED
      BY <3>1, <1>0 DEF NettedWasLiquid, NettingFits
  <2>2. CASE u = t
    <3>1. phase'[u] \in {"refused", "routed"}
      BY <2>0, <2>2
    <3>2. rail'[u] = "internal" => internal[u]
      <4>1. CASE rail' = rail
        BY <4>1, <1>0 DEF NettedWasLiquid, NettingFits
      <4>2. ASSUME NEW r \in Rails, rail' = [rail EXCEPT ![t] = r], r = "internal" => internal[t]
            PROVE  rail'[u] = "internal" => internal[u]
        BY <4>2, <2>0, <2>2
      <4> QED
        BY <1>2, <4>1, <4>2
    <3> QED
      BY <3>1, <3>2 DEF NettingFits
  <2> QED
    BY <2>1, <2>2
<1>9. NettedWasLiquid'
  BY <1>2, <1>8 DEF NettedWasLiquid, NettingFits
<1> QED
  BY <1>4, <1>6, <1>7, <1>9 DEF TreasuryInv

-----------------------------------------------------------------------------
(* Sending, and the chain. *)

LEMMA SendInternallyStep ==
  ASSUME TreasuryInv, NEW t \in Transfers, SendInternally(t)
  PROVE  TreasuryInv'
<1>1. /\ phase[t] = "routed" /\ rail[t] = "internal" /\ Advances(t, "netted")
      /\ UNCHANGED <<rail, chain, reference>>
  BY DEF SendInternally, Goes, Advances, Phase
<1>2. PoolsCanPay' /\ PoolsAddUp' /\ phase' \in [Transfers -> Phase]
  BY <1>1, AdvanceKeepsPools
<1>3. AnswersAreKept'
  BY <1>1, AdvanceKeepsAnswers
<1>4. NettedWasLiquid'
  BY <1>1, AdvanceKeepsNetting
<1>5. TreasuryTypeOK'
  BY <1>1, <1>2 DEF TreasuryInv, TreasuryTypeOK, Advances
<1> QED
  BY <1>2, <1>3, <1>4, <1>5 DEF TreasuryInv

LEMMA SendToMockStep ==
  ASSUME TreasuryInv, NEW t \in Transfers, SendToMock(t)
  PROVE  TreasuryInv'
<1>1. phase[t] = "routed" /\ Advances(t, "settled") /\ UNCHANGED <<rail, chain, reference>>
  BY DEF SendToMock, Goes, Advances, Phase
<1>2. PoolsCanPay' /\ PoolsAddUp' /\ phase' \in [Transfers -> Phase]
  BY <1>1, AdvanceKeepsPools
<1>3. AnswersAreKept'
  BY <1>1, AdvanceKeepsAnswers
<1>4. NettedWasLiquid'
  BY <1>1, AdvanceKeepsNetting
<1>5. TreasuryTypeOK'
  BY <1>1, <1>2 DEF TreasuryInv, TreasuryTypeOK, Advances
<1> QED
  BY <1>2, <1>3, <1>4, <1>5 DEF TreasuryInv

LEMMA BuildStep ==
  ASSUME TreasuryInv, NEW t \in Transfers, Build(t)
  PROVE  TreasuryInv'
<1>0. TreasuryTypeOK
  BY DEF TreasuryInv
<1>1. /\ phase[t] \in {"routed", "failed"} /\ rail[t] = "solana" /\ UNCHANGED <<rail, chain>>
      /\ Len(chain[t]) < MaxSends
      /\ reference' = [reference EXCEPT ![t] = NoRail]
  BY DEF Build
<1>2. PICK to \in {"built", "failed"} : Advances(t, to)
  BY DEF Build, Advances, Phase
<1>3. PoolsCanPay' /\ PoolsAddUp' /\ phase' \in [Transfers -> Phase]
  BY <1>1, <1>2, AdvanceKeepsPools
<1>4. AnswersAreKept'
  BY <1>0, <1>1, <1>2, TreasuryTyped, AdvanceKeepsAnswers
<1>5. NettedWasLiquid'
  BY <1>1, <1>2, AdvanceKeepsNetting
<1>6. /\ reference' \in [Transfers -> Nat \cup {NoRail}]
      /\ \A u \in Transfers : reference'[u] \in DOMAIN chain[u] \cup {NoRail}
  BY <1>0, <1>1, TreasuryTyped DEF TreasuryTypeOK
<1>7. TreasuryTypeOK'
  BY <1>0, <1>1, <1>2, <1>3, <1>6 DEF TreasuryTypeOK, Advances
<1> QED
  BY <1>3, <1>4, <1>5, <1>7 DEF TreasuryInv

LEMMA GetStatusStep ==
  ASSUME TreasuryInv, NEW t \in Transfers, GetStatus(t)
  PROVE  TreasuryInv'
<1>0. TreasuryTypeOK /\ AnswersAreKept
  BY DEF TreasuryInv
<1>1. /\ phase[t] = "pending" /\ Advances(t, "confirmed") /\ UNCHANGED <<rail, chain, reference>>
      /\ chain[t][reference[t]].state = "landed"
  BY DEF GetStatus, Verified, Goes, Advances, Phase
<1>2. PoolsCanPay' /\ PoolsAddUp' /\ phase' \in [Transfers -> Phase]
  BY <1>1, AdvanceKeepsPools
<1>3. AnswersAreKept'
  <2> SUFFICES ASSUME NEW u \in Transfers
               PROVE  AnswerFits(u, phase'[u], reference[u], chain[u])
    BY <1>1 DEF AnswersAreKept, AnswerFits, Advances
  <2>1. phase'[u] = phase[u] \/ (u = t /\ phase'[u] = "confirmed")
    BY <1>0, <1>1, TreasuryTyped DEF Advances
  <2> QED
    BY <1>0, <1>1, <2>1 DEF AnswersAreKept, AnswerFits
<1>4. NettedWasLiquid'
  BY <1>1, AdvanceKeepsNetting
<1>5. TreasuryTypeOK'
  BY <1>0, <1>1, <1>2 DEF TreasuryTypeOK, Advances
<1> QED
  BY <1>2, <1>3, <1>4, <1>5 DEF TreasuryInv

(* What a broadcast appends. *)
Sent(t, answered) ==
  [state |-> "inflight", answered |-> answered, asset |-> AssetSent(payment[t].from[2])]

Appended(t, answered) == [chain EXCEPT ![t] = Append(@, Sent(t, answered))]

LEMMA BroadcastChain ==
  ASSUME TreasuryInv, NEW t \in Transfers, NEW answered \in BOOLEAN, phase[t] = "built",
         chain' = Appended(t, answered), payment' = payment,
         Len(chain[t]) < MaxSends
  PROVE  /\ chain' \in [Transfers -> Seq(ChainTx)]
         /\ \A u \in Transfers : Len(chain'[u]) <= MaxSends /\ DOMAIN chain[u] \subseteq DOMAIN chain'[u]
         /\ \A u \in Transfers : u # t => chain'[u] = chain[u]
         /\ Len(chain'[t]) = Len(chain[t]) + 1 /\ DOMAIN chain'[t] = 1 .. Len(chain[t]) + 1
         /\ \A i \in DOMAIN chain'[t] :
              /\ chain'[t][i].answered => answered /\ i = Len(chain[t]) + 1
              /\ chain'[t][i].asset = AssetSent(payment[t].from[2])
<1>0. TreasuryTypeOK /\ AnswersAreKept
  BY DEF TreasuryInv
<1>1. chain \in [Transfers -> Seq(ChainTx)] /\ \A u \in Transfers : Len(chain[u]) <= MaxSends
  BY <1>0 DEF TreasuryTypeOK
<1>2. Sent(t, answered) \in ChainTx
  BY DEF Sent, ChainTx, TxState, AssetSent
<1>3. Sent(t, answered).answered = answered /\ Sent(t, answered).asset = AssetSent(payment[t].from[2])
  BY DEF Sent
<1>4. \A i \in DOMAIN chain[t] : ~chain[t][i].answered
                                   /\ chain[t][i].asset = AssetSent(payment[t].from[2])
  BY <1>0 DEF AnswersAreKept, AnswerFits
<1> DEFINE sent == Sent(t, answered)
<1> HIDE DEF sent
<1>5. chain' = [chain EXCEPT ![t] = Append(@, sent)] /\ sent \in ChainTx
  BY <1>2 DEF sent, Appended
<1>6. /\ chain'[t] = Append(chain[t], sent) /\ \A u \in Transfers : u # t => chain'[u] = chain[u]
      /\ chain' \in [Transfers -> Seq(ChainTx)]
  <2>1. Append(chain[t], sent) \in Seq(ChainTx)
    BY <1>1, <1>5
  <2> QED
    BY <1>1, <1>5, <2>1
<1>7. /\ Len(chain'[t]) = Len(chain[t]) + 1 /\ DOMAIN chain'[t] = 1 .. Len(chain[t]) + 1
      /\ DOMAIN chain[t] = 1 .. Len(chain[t])
      /\ \A i \in 1 .. Len(chain[t]) : chain'[t][i] = chain[t][i]
      /\ chain'[t][Len(chain[t]) + 1] = sent
  BY <1>1, <1>5, <1>6
<1>8. \A i \in DOMAIN chain'[t] :
        /\ chain'[t][i].answered => answered /\ i = Len(chain[t]) + 1
        /\ chain'[t][i].asset = AssetSent(payment[t].from[2])
  <2> SUFFICES ASSUME NEW i \in DOMAIN chain'[t]
               PROVE  /\ chain'[t][i].answered => answered /\ i = Len(chain[t]) + 1
                      /\ chain'[t][i].asset = AssetSent(payment[t].from[2])
    OBVIOUS
  <2>1. Len(chain[t]) \in Nat
    BY <1>1
  <2>2. CASE i = Len(chain[t]) + 1
    BY <2>2, <1>3, <1>7 DEF sent
  <2>3. CASE i # Len(chain[t]) + 1
    <3>1. i \in 1 .. Len(chain[t])
      BY <2>1, <2>3, <1>7
    <3> QED
      BY <3>1, <1>4, <1>7
  <2> QED
    BY <2>2, <2>3
<1>9. \A u \in Transfers : Len(chain'[u]) <= MaxSends /\ DOMAIN chain[u] \subseteq DOMAIN chain'[u]
  <2>1. Len(chain[t]) \in Nat /\ Len(chain'[t]) <= MaxSends
    BY <1>1, <1>7, TreasuryAssumption
  <2>2. DOMAIN chain[t] \subseteq DOMAIN chain'[t]
    BY <2>1, <1>7
  <2> QED
    BY <1>1, <1>6, <2>1, <2>2
<1> QED
  BY <1>6, <1>7, <1>8, <1>9

LEMMA BroadcastStep ==
  ASSUME TreasuryInv, NEW t \in Transfers, Broadcast(t)
  PROVE  TreasuryInv'
<1>0. TreasuryTypeOK /\ AnswersAreKept
  BY DEF TreasuryInv
<1>1. /\ phase[t] = "built" /\ UNCHANGED <<payment, pool, internal, rail, contended>>
      /\ \/ /\ phase' = [phase EXCEPT ![t] = "pending"]
            /\ chain' = Appended(t, TRUE)
            /\ reference' = [reference EXCEPT ![t] = Len(chain[t]) + 1]
         \/ /\ phase' = [phase EXCEPT ![t] = "failed"] /\ reference' = reference
            /\ chain' = chain \/ chain' = Appended(t, FALSE)
  BY DEF Broadcast, Goes, Sent, Appended
<1>2. PICK to \in {"pending", "failed"} : Advances(t, to)
  BY <1>1 DEF Advances, Phase
<1>3. PoolsCanPay' /\ PoolsAddUp' /\ phase' \in [Transfers -> Phase]
  BY <1>1, <1>2, AdvanceKeepsPools
<1>4. NettedWasLiquid'
  BY <1>1, <1>2, AdvanceKeepsNetting
<1>5. Len(chain[t]) < MaxSends /\ Len(chain[t]) \in Nat
  BY <1>0, <1>1, TreasuryTyped DEF AnswersAreKept, AnswerFits
<1>6. CASE chain' = chain
  <2>1. reference' = reference
    <3>1. CASE chain' = Appended(t, TRUE)
      <4>1. Len(chain'[t]) = Len(chain[t]) + 1
        BY <1>1, <1>5, <3>1, BroadcastChain
      <4> QED
        BY <4>1, <1>5, <1>6
    <3> QED
      BY <3>1, <1>1
  <2>2. AnswersAreKept'
    <3>1. phase[t] = "built" /\ phase' = [phase EXCEPT ![t] = to]
      BY <1>1, <1>2 DEF Advances
    <3>2. to = "failed"
      <4>1. CASE chain' = Appended(t, TRUE)
        <5>1. Len(chain'[t]) = Len(chain[t]) + 1
          BY <1>1, <1>5, <4>1, BroadcastChain
        <5> QED
          BY <5>1, <1>5, <1>6
      <4>2. phase \in [Transfers -> Phase]
        BY <1>0, TreasuryTyped
      <4> QED
        BY <4>1, <4>2, <3>1, <1>1
    <3> QED
      BY <2>1, <3>1, <3>2, <1>2, <1>6, AdvanceKeepsAnswers
  <2>3. TreasuryTypeOK'
    BY <1>0, <1>1, <1>3, <1>6, <2>1 DEF TreasuryTypeOK
  <2> QED
    BY <1>3, <1>4, <2>2, <2>3 DEF TreasuryInv
<1>7. ASSUME NEW answered \in BOOLEAN, chain' = Appended(t, answered),
             IF answered
             THEN /\ phase' = [phase EXCEPT ![t] = "pending"]
                  /\ reference' = [reference EXCEPT ![t] = Len(chain[t]) + 1]
             ELSE phase' = [phase EXCEPT ![t] = "failed"] /\ reference' = reference
      PROVE  TreasuryInv'
  <2>1. /\ chain' \in [Transfers -> Seq(ChainTx)]
        /\ \A u \in Transfers : Len(chain'[u]) <= MaxSends /\ DOMAIN chain[u] \subseteq DOMAIN chain'[u]
        /\ \A u \in Transfers : u # t => chain'[u] = chain[u]
        /\ Len(chain'[t]) = Len(chain[t]) + 1 /\ DOMAIN chain'[t] = 1 .. Len(chain[t]) + 1
        /\ \A i \in DOMAIN chain'[t] :
             /\ chain'[t][i].answered => answered /\ i = Len(chain[t]) + 1
             /\ chain'[t][i].asset = AssetSent(payment[t].from[2])
    <3>1. phase[t] = "built" /\ payment' = payment /\ Len(chain[t]) < MaxSends
      BY <1>1, <1>5
    <3>2. chain' = Appended(t, answered)
      BY <1>7
    <3> QED
      BY <3>1, <3>2, BroadcastChain
  <2>2. /\ phase \in [Transfers -> Phase] /\ reference \in [Transfers -> Nat \cup {NoRail}]
        /\ \A u \in Transfers : reference[u] \in DOMAIN chain[u] \cup {NoRail}
    BY <1>0 DEF TreasuryTypeOK
  <2>3. /\ reference' \in [Transfers -> Nat \cup {NoRail}]
        /\ \A u \in Transfers : reference'[u] \in DOMAIN chain'[u] \cup {NoRail}
    <3>1. Len(chain[t]) + 1 \in Nat /\ Len(chain[t]) + 1 \in DOMAIN chain'[t]
      BY <2>1, <1>5
    <3>2. reference' = reference \/ reference' = [reference EXCEPT ![t] = Len(chain[t]) + 1]
      BY <1>7
    <3>3. ASSUME NEW u \in Transfers
          PROVE  reference'[u] = reference[u] \/ (u = t /\ reference'[u] = Len(chain[t]) + 1)
      <4>1. CASE u = t
        BY <2>2, <3>2, <4>1
      <4>2. CASE u # t
        BY <2>2, <3>2, <4>2
      <4> QED
        BY <4>1, <4>2
    <3> QED
      BY <2>1, <2>2, <3>1, <3>2, <3>3
  <2>4. TreasuryTypeOK'
    BY <1>0, <1>1, <1>3, <2>1, <2>3 DEF TreasuryTypeOK
  <2>5. ASSUME NEW u \in Transfers
        PROVE  AnswerFits(u, phase'[u], reference'[u], chain'[u])
    <3>1. CASE u # t
      <4>1. phase'[u] = phase[u] /\ reference'[u] = reference[u] /\ chain'[u] = chain[u]
        BY <3>1, <1>7, <2>1, <2>2
      <4> QED
        BY <4>1, <1>0 DEF AnswersAreKept
    <3>2. CASE u = t
      <4>1. IF answered THEN phase'[t] = "pending" /\ reference'[t] = Len(chain[t]) + 1
                        ELSE phase'[t] = "failed"
        BY <1>7, <2>2
      <4>2. answered => Len(chain[t]) + 1 \in DOMAIN chain'[t]
        BY <2>1, <1>5
      <4> QED
        BY <3>2, <4>1, <4>2, <2>1 DEF AnswerFits
    <3> QED
      BY <3>1, <3>2
  <2>6. AnswersAreKept'
    BY <2>5, <1>1 DEF AnswersAreKept, AnswerFits
  <2> QED
    BY <1>3, <1>4, <2>4, <2>6 DEF TreasuryInv
<1> QED
  BY <1>1, <1>6, <1>7

LEMMA ChainResolvesStep ==
  ASSUME TreasuryInv, NEW t \in Transfers, NEW i \in DOMAIN chain[t], ChainResolves(t, i)
  PROVE  TreasuryInv'
<1>0. TreasuryTypeOK /\ AnswersAreKept /\ NettedWasLiquid /\ PoolsCanPay /\ PoolsAddUp
  BY DEF TreasuryInv
<1>1. PICK to \in TxState : chain' = [chain EXCEPT ![t][i].state = to]
  BY DEF ChainResolves
<1>2. /\ chain[t][i].state = "inflight"
      /\ UNCHANGED <<payment, pool, phase, internal, rail, reference, contended>>
  BY DEF ChainResolves
<1>3. chain \in [Transfers -> Seq(ChainTx)]
  BY <1>0, TreasuryTyped
<1> DEFINE tx == [chain[t][i] EXCEPT !.state = to]
<1>4. chain[t][i] \in ChainTx
  BY <1>3
<1>5. /\ tx \in ChainTx /\ tx.answered = chain[t][i].answered
      /\ tx.asset = chain[t][i].asset
  BY <1>4 DEF ChainTx
<1>6. chain' = [chain EXCEPT ![t] = [chain[t] EXCEPT ![i] = tx]]
  BY <1>1
<1> HIDE DEF tx
<1>7. /\ chain'[t] = [chain[t] EXCEPT ![i] = tx] /\ \A u \in Transfers : u # t => chain'[u] = chain[u]
  BY <1>3, <1>6
<1>8. [chain[t] EXCEPT ![i] = tx] \in Seq(ChainTx)
      /\ Len([chain[t] EXCEPT ![i] = tx]) = Len(chain[t])
  BY <1>3, <1>5
<1>9. chain' \in [Transfers -> Seq(ChainTx)]
  BY <1>3, <1>6, <1>8
<1>10. DOMAIN chain'[t] = DOMAIN chain[t] /\ Len(chain'[t]) = Len(chain[t])
  BY <1>3, <1>7, <1>8
<1>11. \A u \in Transfers : Len(chain'[u]) = Len(chain[u]) /\ DOMAIN chain'[u] = DOMAIN chain[u]
  BY <1>7, <1>10
<1>12. \A j \in DOMAIN chain[t] :
         /\ chain'[t][j].answered = chain[t][j].answered /\ chain'[t][j].asset = chain[t][j].asset
         /\ chain[t][j].state = "landed" => chain'[t][j] = chain[t][j]
  BY <1>2, <1>3, <1>5, <1>7
<1>13. TreasuryTypeOK'
  BY <1>0, <1>2, <1>9, <1>11 DEF TreasuryTypeOK
<1>14. ASSUME NEW u \in Transfers
       PROVE  AnswerFits(u, phase[u], reference[u], chain'[u])
  <2>0. AnswerFits(u, phase[u], reference[u], chain[u])
    BY <1>0 DEF AnswersAreKept
  <2>1. CASE u # t
    BY <2>0, <2>1, <1>7
  <2>2. CASE u = t
    <3>1. /\ phase[t] \in {"pending", "confirmed"} => reference[t] \in DOMAIN chain[t]
          /\ phase[t] = "confirmed" => chain[t][reference[t]].state = "landed"
          /\ phase[t] = "built" => Len(chain[t]) < MaxSends
          /\ \A j \in DOMAIN chain[t] :
               /\ chain[t][j].answered => phase[t] \in {"pending", "confirmed"} /\ reference[t] = j
               /\ chain[t][j].asset = AssetSent(payment[t].from[2])
      BY <2>0, <2>2 DEF AnswerFits
    <3> QED
      BY <2>2, <3>1, <1>10, <1>12 DEF AnswerFits
  <2> QED
    BY <2>1, <2>2
<1>15. AnswersAreKept'
  BY <1>2, <1>14 DEF AnswersAreKept, AnswerFits
<1>16. NettedWasLiquid'
  BY <1>0, <1>2 DEF NettedWasLiquid, NettingFits
<1>17. PoolsCanPay'
  BY <1>0, <1>2 DEF PoolsCanPay, Open, Sound, Recorded, TakesAsChecked
<1>18. PoolsAddUp'
  BY <1>0, <1>2 DEF PoolsAddUp
<1> QED
  BY <1>13, <1>15, <1>16, <1>17, <1>18 DEF TreasuryInv

-----------------------------------------------------------------------------
(* What moves the pools. *)

(* One pool after an update. *)
LEMMA PoolUpdated ==
  ASSUME pool \in [Pools -> Pool], NEW p \in Pools, NEW delta \in Int, NEW in \in Int, NEW out \in Int,
         UpdatePoolBalances(p, delta, in, out)
  PROVE  /\ pool' \in [Pools -> Pool]
         /\ pool'[p].balance = pool[p].balance + delta /\ pool'[p].inflow = pool[p].inflow + in
         /\ pool'[p].outflow = pool[p].outflow + out
         /\ \A q \in Pools : q # p => pool'[q] = pool[q]
BY DEF UpdatePoolBalances, Pool

LEMMA RecordInflowStep ==
  ASSUME TreasuryInv, NEW t \in Transfers, RecordInflow(t)
  PROVE  TreasuryInv'
<1> USE TreasuryAssumption
<1>0. TreasuryTypeOK /\ AnswersAreKept /\ NettedWasLiquid /\ PoolsCanPay /\ PoolsAddUp
  BY DEF TreasuryInv
<1> DEFINE p == payment[t].from
           amount == payment[t].amount
<1>1. /\ phase[t] = "netted" /\ UNCHANGED <<payment, internal, rail, chain, reference, contended>>
      /\ \/ /\ p \in Pools /\ payment[t].to \in Pools
            /\ phase' = [phase EXCEPT ![t] = "inflowRecorded"]
            /\ UpdatePoolBalances(p, amount, amount, 0)
         \/ phase' = [phase EXCEPT ![t] = "unrecorded"] /\ pool' = pool
  BY DEF RecordInflow, Goes
<1>2. amount \in Int /\ phase \in [Transfers -> Phase]
  BY <1>0, TreasuryTyped
<1>3. rail[t] = "internal"
  BY <1>0, <1>1 DEF NettedWasLiquid, NettingFits
<1>4. ASSUME phase' = [phase EXCEPT ![t] = "unrecorded"], pool' = pool
      PROVE  TreasuryInv'
  <2>1. Advances(t, "unrecorded")
    BY <1>1, <1>4 DEF Advances, Phase
  <2>2. PoolsCanPay' /\ PoolsAddUp' /\ phase' \in [Transfers -> Phase]
    BY <1>1, <2>1, AdvanceKeepsPools
  <2>3. AnswersAreKept'
    BY <1>1, <2>1, AdvanceKeepsAnswers
  <2>4. NettedWasLiquid'
    BY <1>1, <2>1, AdvanceKeepsNetting
  <2>5. TreasuryTypeOK'
    BY <1>0, <1>1, <1>4, <2>2 DEF TreasuryTypeOK
  <2> QED
    BY <2>2, <2>3, <2>4, <2>5 DEF TreasuryInv
<1>5. ASSUME p \in Pools, payment[t].to \in Pools, UpdatePoolBalances(p, amount, amount, 0),
             phase' = [phase EXCEPT ![t] = "inflowRecorded"]
      PROVE  TreasuryInv'
  <2>1. /\ pool' \in [Pools -> Pool]
        /\ pool'[p].balance = pool[p].balance + amount /\ pool'[p].inflow = pool[p].inflow + amount
        /\ pool'[p].outflow = pool[p].outflow
        /\ \A q \in Pools : q # p => pool'[q] = pool[q]
    <3>1. pool \in [Pools -> Pool]
      BY <1>0, TreasuryTyped
    <3>2. /\ pool' \in [Pools -> Pool]
          /\ pool'[p].balance = pool[p].balance + amount /\ pool'[p].inflow = pool[p].inflow + amount
          /\ pool'[p].outflow = pool[p].outflow + 0
          /\ \A q \in Pools : q # p => pool'[q] = pool[q]
      <4> HIDE DEF p, amount
      <4> QED
        BY <3>1, <1>2, <1>5, PoolUpdated
    <3> QED
      BY <3>1, <3>2, <1>5 DEF Pool
  <2>2. \A u \in Transfers :
          \/ phase'[u] = phase[u]
          \/ u = t /\ phase'[u] = "inflowRecorded" /\ phase[u] = "netted"
    <3>1. \A u \in Transfers : u # t => phase'[u] = phase[u]
      BY <1>1, <1>2, <1>5
    <3>2. phase'[t] = "inflowRecorded" /\ phase[t] = "netted"
      BY <1>1, <1>2, <1>5
    <3> QED
      BY <3>1, <3>2
  <2>3. phase' \in [Transfers -> Phase]
    BY <1>2, <1>5 DEF Phase
  <2>4. TreasuryTypeOK'
    BY <1>0, <1>1, <2>1, <2>3 DEF TreasuryTypeOK, Pool
  <2>5. AnswersAreKept'
    BY <1>0, <1>1, <2>2 DEF AnswersAreKept, AnswerFits
  <2>6. NettedWasLiquid'
    BY <1>0, <1>1, <1>3, <1>5, <2>2 DEF NettedWasLiquid, NettingFits
  <2>7. \A u \in Transfers, q \in Pools : Open(u, q)' => Open(u, q)
    BY <1>1, <2>2 DEF Open
  <2>8. \A u \in Transfers : Recorded(u) => Recorded(u)'
    BY <1>1, <2>2 DEF Recorded
  <2>9. PoolsCanPay'
    <3> SUFFICES ASSUME NEW q \in Pools, Sound(q)'
                 PROVE  /\ pool'[q].balance >= Opening[q].minThreshold
                        /\ \A u \in Transfers : Open(u, q)' =>
                             /\ pool'[q].balance - payment[u].amount >= Opening[q].minThreshold
                             /\ \A v \in Transfers : Open(v, q)' => v = u
      BY <1>1 DEF PoolsCanPay
    <3>1. \A u \in Transfers : payment[u].amount \in Int
      BY <1>0, TreasuryTyped
    <3>2. /\ pool[q].balance >= Opening[q].minThreshold
          /\ \A u \in Transfers : Open(u, q) =>
               /\ pool[q].balance - payment[u].amount >= Opening[q].minThreshold
               /\ \A v \in Transfers : Open(v, q) => v = u
      BY <1>0, <1>1, <2>8, SoundBefore DEF PoolsCanPay
    <3>3. Opening[q].minThreshold \in Int
      OBVIOUS
    <3>4. q = p => amount > 0
      <4>1. Recorded(t)' /\ payment' = payment
        BY <1>1, <1>2, <1>3, <1>5 DEF Recorded
      <4>2. TakesAsChecked(t, q)'
        BY <4>1 DEF Sound
      <4> QED
        BY <4>1, <4>2 DEF TakesAsChecked
    <3>5. /\ pool'[q].balance >= pool[q].balance
          /\ pool'[q].balance \in Int /\ pool[q].balance \in Int
      <4>1. pool[q] \in Pool /\ pool'[q] \in Pool
        BY <1>0, <2>1, TreasuryTyped
      <4>2. (q # p /\ pool'[q] = pool[q]) \/ (q = p /\ pool'[q].balance = pool[q].balance + amount)
        BY <2>1
      <4> HIDE DEF amount
      <4> QED
        BY <4>1, <4>2, <1>2, <3>4 DEF Pool
    <3> QED
      BY <2>7, <3>1, <3>2, <3>3, <3>5
  <2>10. PoolsAddUp'
    <3>1. ASSUME NEW q \in Pools
          PROVE  pool'[q].balance = Opening[q].balance + pool'[q].inflow - pool'[q].outflow
      <4>1. pool[q] \in Pool /\ Opening[q].balance \in Int
        BY <1>0, TreasuryTyped
      <4>2. pool[q].balance = Opening[q].balance + pool[q].inflow - pool[q].outflow
        BY <1>0 DEF PoolsAddUp
      <4>3. CASE q = p
        <5>1. /\ pool'[q].balance = pool[q].balance + amount
              /\ pool'[q].inflow = pool[q].inflow + amount /\ pool'[q].outflow = pool[q].outflow
          BY <4>3, <2>1
        <5>2. pool[q].balance \in Int /\ pool[q].inflow \in Int /\ pool[q].outflow \in Int
          BY <4>1 DEF Pool
        <5> HIDE DEF amount, p
        <5> QED
          BY <1>2, <4>1, <4>2, <5>1, <5>2
      <4>4. CASE q # p
        BY <4>2, <4>4, <2>1
      <4> QED
        BY <4>3, <4>4
    <3> QED
      BY <3>1 DEF PoolsAddUp
  <2> QED
    BY <2>4, <2>5, <2>6, <2>9, <2>10 DEF TreasuryInv
<1> QED
  BY <1>1, <1>4, <1>5

LEMMA RecordOutflowStep ==
  ASSUME TreasuryInv, NEW t \in Transfers, RecordOutflow(t)
  PROVE  TreasuryInv'
<1> USE TreasuryAssumption
<1>0. TreasuryTypeOK /\ AnswersAreKept /\ NettedWasLiquid /\ PoolsCanPay /\ PoolsAddUp
  BY DEF TreasuryInv
<1> DEFINE p == payment[t].to
           amount == payment[t].delivered
<1>1. /\ phase[t] = "inflowRecorded" /\ phase' = [phase EXCEPT ![t] = "settled"]
      /\ UNCHANGED <<payment, internal, rail, chain, reference, contended>>
      /\ UpdatePoolBalances(p, -amount, 0, amount)
  BY DEF RecordOutflow, Goes
<1>2. amount \in Int /\ phase \in [Transfers -> Phase] /\ pool \in [Pools -> Pool]
  BY <1>0, TreasuryTyped
<1>3. p \in Pools /\ Open(t, p)
  BY <1>0, <1>1 DEF NettedWasLiquid, NettingFits, Open
<1>4. /\ pool' \in [Pools -> Pool]
      /\ pool'[p].balance = pool[p].balance - amount /\ pool'[p].inflow = pool[p].inflow
      /\ pool'[p].outflow = pool[p].outflow + amount
      /\ \A q \in Pools : q # p => pool'[q] = pool[q]
  <2>1. /\ pool' \in [Pools -> Pool]
        /\ pool'[p].balance = pool[p].balance + (-amount) /\ pool'[p].inflow = pool[p].inflow + 0
        /\ pool'[p].outflow = pool[p].outflow + amount
        /\ \A q \in Pools : q # p => pool'[q] = pool[q]
    <3>1. p \in Pools /\ pool \in [Pools -> Pool] /\ UpdatePoolBalances(p, -amount, 0, amount)
      BY <1>1, <1>2, <1>3
    <3>2. -amount \in Int /\ 0 \in Int /\ amount \in Int
      BY <1>2
    <3> DEFINE taken == -amount
    <3>3. UpdatePoolBalances(p, taken, 0, amount) /\ taken \in Int
      BY <3>1, <3>2
    <3>4. /\ pool' \in [Pools -> Pool]
          /\ pool'[p].balance = pool[p].balance + taken /\ pool'[p].inflow = pool[p].inflow + 0
          /\ pool'[p].outflow = pool[p].outflow + amount
          /\ \A q \in Pools : q # p => pool'[q] = pool[q]
      <4> HIDE DEF taken, p, amount
      <4> QED
        BY ONLY <3>1, <3>2, <3>3, PoolUpdated
    <3> QED
      BY <3>4
  <2> QED
    BY <2>1, <1>2, <1>3 DEF Pool
<1>5. \A u \in Transfers :
        \/ phase'[u] = phase[u]
        \/ u = t /\ phase'[u] = "settled" /\ phase[u] = "inflowRecorded"
  <2>1. \A u \in Transfers : u # t => phase'[u] = phase[u]
    BY <1>1, <1>2
  <2>2. phase'[t] = "settled" /\ phase[t] = "inflowRecorded"
    BY <1>1, <1>2
  <2> QED
    BY <2>1, <2>2
<1>6. phase' \in [Transfers -> Phase]
  BY <1>1, <1>2 DEF Phase
<1>7. TreasuryTypeOK'
  BY <1>0, <1>1, <1>4, <1>6 DEF TreasuryTypeOK, Pool
<1>8. AnswersAreKept'
  BY <1>0, <1>1, <1>5 DEF AnswersAreKept, AnswerFits
<1>9. NettedWasLiquid'
  BY <1>0, <1>1, <1>5 DEF NettedWasLiquid, NettingFits
<1>10. \A u \in Transfers, q \in Pools : Open(u, q)' => Open(u, q) /\ u # t
  BY <1>1, <1>2, <1>5 DEF Open
<1>11. PoolsCanPay'
  <2>4. \A u \in Transfers : Recorded(u) => Recorded(u)'
    BY <1>1, <1>5 DEF Recorded
  <2> SUFFICES ASSUME NEW q \in Pools, Sound(q)'
               PROVE  /\ pool'[q].balance >= Opening[q].minThreshold
                      /\ \A u \in Transfers : Open(u, q)' =>
                           /\ pool'[q].balance - payment[u].amount >= Opening[q].minThreshold
                           /\ \A v \in Transfers : Open(v, q)' => v = u
    BY <1>1 DEF PoolsCanPay
  <2>1. /\ pool[q].balance >= Opening[q].minThreshold
        /\ \A u \in Transfers : Open(u, q) =>
             /\ pool[q].balance - payment[u].amount >= Opening[q].minThreshold
             /\ \A v \in Transfers : Open(v, q) => v = u
    BY <1>0, <1>1, <2>4, SoundBefore DEF PoolsCanPay
  <2>2. CASE q = p
    <3>4. amount <= payment[t].amount
      <4>1. rail[t] = "internal"
        BY <1>0, <1>1 DEF NettedWasLiquid, NettingFits
      <4>2. Recorded(t)' /\ payment' = payment
        BY <1>1, <1>2, <4>1 DEF Recorded
      <4>3. TakesAsChecked(t, q)'
        BY <4>2 DEF Sound
      <4> QED
        BY <2>2, <4>2, <4>3 DEF TakesAsChecked
    <3>5. pool[q].balance - payment[t].amount >= Opening[q].minThreshold
      BY <2>1, <2>2, <1>3
    <3>6. pool[q].balance \in Int /\ payment[t].amount \in Int /\ Opening[q].minThreshold \in Int
      BY <1>0, TreasuryTyped DEF Pool
    <3>1. pool[q].balance - amount >= Opening[q].minThreshold
      <4> HIDE DEF amount
      <4> QED
        BY <1>2, <3>4, <3>5, <3>6
    <3>2. \A u \in Transfers : ~Open(u, q)'
      BY <2>1, <2>2, <1>3, <1>10
    <3> QED
      BY <3>1, <3>2, <2>2, <1>4
  <2>3. CASE q # p
    BY <2>1, <2>3, <1>4, <1>10
  <2> QED
    BY <2>2, <2>3
<1>12. PoolsAddUp'
  <2>1. ASSUME NEW q \in Pools
        PROVE  pool'[q].balance = Opening[q].balance + pool'[q].inflow - pool'[q].outflow
    <3>1. pool[q] \in Pool /\ Opening[q].balance \in Int
      BY <1>2
    <3>2. pool[q].balance = Opening[q].balance + pool[q].inflow - pool[q].outflow
      BY <1>0 DEF PoolsAddUp
    <3>3. CASE q = p
      <4>1. /\ pool'[q].balance = pool[q].balance - amount
            /\ pool'[q].inflow = pool[q].inflow /\ pool'[q].outflow = pool[q].outflow + amount
        BY <3>3, <1>4
      <4>2. pool[q].balance \in Int /\ pool[q].inflow \in Int /\ pool[q].outflow \in Int
        BY <3>1 DEF Pool
      <4> HIDE DEF amount, p
      <4> QED
        BY <1>2, <3>1, <3>2, <4>1, <4>2
    <3>4. CASE q # p
      BY <3>2, <3>4, <1>4
    <3> QED
      BY <3>3, <3>4
  <2> QED
    BY <2>1 DEF PoolsAddUp
<1> QED
  BY <1>7, <1>8, <1>9, <1>11, <1>12 DEF TreasuryInv

-----------------------------------------------------------------------------
(* The invariant is inductive, and makes the desk's promises true. *)

LEMMA TreasuryInvStep == TreasuryInv /\ [TreasuryNext]_tvars => TreasuryInv'
<1> SUFFICES ASSUME TreasuryInv, [TreasuryNext]_tvars PROVE TreasuryInv'
  OBVIOUS
<1>1. ASSUME NEW t \in Transfers,
             \/ CheckLiquidity(t) \/ FindOptimalRoute(t) \/ SendInternally(t) \/ SendToMock(t)
             \/ Build(t) \/ Broadcast(t) \/ GetStatus(t) \/ RecordInflow(t) \/ RecordOutflow(t)
             \/ \E i \in DOMAIN chain[t] : ChainResolves(t, i)
      PROVE  TreasuryInv'
  BY <1>1, CheckLiquidityStep, FindOptimalRouteStep, SendInternallyStep, SendToMockStep, BuildStep,
     BroadcastStep, GetStatusStep, RecordInflowStep, RecordOutflowStep, ChainResolvesStep
<1>2. CASE UNCHANGED tvars
  BY <1>2 DEF tvars, TreasuryInv, TreasuryTypeOK, AnswersAreKept, AnswerFits, NettedWasLiquid,
              NettingFits, PoolsCanPay, PoolsAddUp, Open, Sound, Recorded, TakesAsChecked
<1> QED
  BY <1>1, <1>2 DEF TreasuryNext

(* Of two rails, the better score costs less, or carries less risk. *)
LEMMA RanksByCost ==
  ASSUME NEW amount \in Nat, NEW ranked \in SimulateAllRoutes(amount)
  PROVE  \/ TotalCostUSD(SimulatedRails[ranked[1]], amount)
              <= TotalCostUSD(SimulatedRails[ranked[2]], amount)
         \/ SimulatedRails[ranked[1]].risk < SimulatedRails[ranked[2]].risk
<1> DEFINE i == ranked[1]
           j == ranked[2]
<1>1. /\ SimulatedRails[1] = Rail("Internal_Netting", 5, 600, 0)
      /\ SimulatedRails[2] = Rail("Solana_USDC", 2, 605, 200)
      /\ SimulatedRails[3] = Rail("SWIFT_Wire", 15, 27000, 0)
      /\ DOMAIN SimulatedRails = 1 .. 3
  BY DEF SimulatedRails
<1>2. \A k \in 1 .. 3 :
        /\ SimulatedRails[k].risk \in {0, 200} /\ TotalCostUSD(SimulatedRails[k], amount) \in Nat
        /\ RouteScore(SimulatedRails[k], amount) =
             100 * amount - TotalCostUSD(SimulatedRails[k], amount)
               - (IF SimulatedRails[k].risk = 0 THEN 0 ELSE amount)
  BY <1>1 DEF Rail, TotalCostUSD, RouteScore
<1> HIDE DEF SimulatedRails
<1>3. /\ i \in 1 .. 3 /\ j \in 1 .. 3
      /\ \/ RouteScore(SimulatedRails[i], amount) > RouteScore(SimulatedRails[j], amount)
         \/ RouteScore(SimulatedRails[i], amount) = RouteScore(SimulatedRails[j], amount)
  BY <1>1 DEF SimulateAllRoutes
<1> DEFINE Charge(k) == IF SimulatedRails[k].risk = 0 THEN 0 ELSE amount
<1> HIDE DEF i, j
<1>4. ASSUME NEW k \in {i, j}
      PROVE  /\ SimulatedRails[k].risk \in {0, 200} /\ TotalCostUSD(SimulatedRails[k], amount) \in Nat
             /\ RouteScore(SimulatedRails[k], amount) =
                  100 * amount - TotalCostUSD(SimulatedRails[k], amount) - Charge(k)
             /\ Charge(k) = IF SimulatedRails[k].risk = 0 THEN 0 ELSE amount
  BY <1>2, <1>3
<1> HIDE DEF Charge
<1>5. \/ TotalCostUSD(SimulatedRails[i], amount) <= TotalCostUSD(SimulatedRails[j], amount)
      \/ SimulatedRails[i].risk < SimulatedRails[j].risk
  BY <1>3, <1>4
<1> QED
  BY <1>5 DEF i, j

LEMMA TreasuryInvHolds == TreasuryInv => TransfersHold
<1> SUFFICES ASSUME TreasuryInv PROVE TransfersHold
  OBVIOUS
<1>1. TreasuryTypeOK /\ AnswersAreKept /\ PoolsCanPay /\ PoolsAddUp
  BY DEF TreasuryInv
<1>2. ThresholdKept
  <2> SUFFICES ASSUME NEW p \in Pools
               PROVE  /\ pool[p].balance = Opening[p].balance + pool[p].inflow - pool[p].outflow
                      /\ /\ p \notin contended /\ Opening[p].balance >= Opening[p].minThreshold
                         /\ \A t \in Transfers : Recorded(t) => TakesAsChecked(t, p)
                         => pool[p].balance >= Opening[p].minThreshold
    BY DEF ThresholdKept
  <2>1. pool[p].balance = Opening[p].balance + pool[p].inflow - pool[p].outflow
    BY <1>1 DEF PoolsAddUp
  <2>2. ASSUME p \notin contended, Opening[p].balance >= Opening[p].minThreshold,
               \A t \in Transfers : Recorded(t) => TakesAsChecked(t, p)
        PROVE  pool[p].balance >= Opening[p].minThreshold
    BY <1>1, <2>2 DEF PoolsCanPay, Sound
  <2> QED
    BY <2>1, <2>2
<1>3. ConfirmedLanded
  BY <1>1 DEF AnswersAreKept, AnswerFits, ConfirmedLanded, AssetSent
<1>4. RankedByCost
  BY <1>1, TreasuryTyped, RanksByCost DEF RankedByCost
<1> QED
  BY <1>1, <1>2, <1>3, <1>4 DEF TransfersHold

(* A pool that no two transfers contend keeps its threshold and its        *)
(* balance is its flows; what is confirmed landed, and only once unless an *)
(* answer was lost; a rail is preferred for its cost or its risk.          *)
THEOREM TransfersAreHeld == TreasurySpec => []TransfersHold
<1>1. TreasurySpec => []TreasuryInv
  BY TreasuryInvInit, TreasuryInvStep, PTL DEF TreasurySpec
<1> QED
  BY <1>1, TreasuryInvHolds, PTL

-----------------------------------------------------------------------------
(* Route planning. *)

LEMMA LeastOfSet ==
  ASSUME NEW S, S \subseteq Nat, S # {}
  PROVE  \E x \in S : \A y \in S : x <= y
<1> DEFINE R == OpToRel(<, Nat)
<1>1. IsWellFoundedOn(R, Nat)
  BY NatLessThanWellFounded
<1>2. PICK x \in S : \A y \in S : ~(<<y, x>> \in R)
  <2> HIDE DEF R
  <2> QED
    BY <1>1, WFMin
<1>3. ASSUME NEW y \in S PROVE x <= y
  <2>1. y < x => <<y, x>> \in R
    BY DEF OpToRel
  <2>2. x \in Nat /\ y \in Nat
    OBVIOUS
  <2> HIDE DEF R
  <2> QED
    BY <1>2, <2>1, <2>2
<1> QED
  BY <1>3

(* Those before i in a strict order. *)
Predecessors(K, R, i) == {j \in K : <<j, i>> \in R}

(* In a finite set with a strict total order, the number of its            *)
(* predecessors is the place of every element, and every place is taken.   *)
LEMMA PlacesAreTaken ==
  ASSUME NEW K, IsFiniteSet(K), NEW R,
         \A i \in K : <<i, i>> \notin R,
         \A i, j \in K : i # j => <<i, j>> \in R \/ <<j, i>> \in R,
         \A i, j, k \in K : <<i, j>> \in R /\ <<j, k>> \in R => <<i, k>> \in R
  PROVE  /\ Cardinality(K) \in Nat
         /\ \A i \in K : Cardinality(Predecessors(K, R, i)) \in 0 .. (Cardinality(K) - 1)
         /\ \A i, j \in K : <<i, j>> \in R =>
              Cardinality(Predecessors(K, R, i)) < Cardinality(Predecessors(K, R, j))
         /\ \A n \in 1 .. Cardinality(K) :
              \E i \in K : Cardinality(Predecessors(K, R, i)) = n - 1
<1> DEFINE P(i) == Predecessors(K, R, i)
           c == Cardinality(K)
           T == 0 .. (c - 1)
           f == [i \in K |-> Cardinality(P(i))]
<1>1. c \in Nat
  BY FS_CardinalityType
<1>2. ASSUME NEW i \in K
      PROVE  /\ P(i) \in SUBSET K /\ P(i) # K /\ IsFiniteSet(P(i))
             /\ Cardinality(P(i)) \in T
  <2>1. P(i) \in SUBSET K /\ i \notin P(i)
    BY DEF Predecessors
  <2>2. /\ IsFiniteSet(P(i)) /\ Cardinality(P(i)) <= c /\ Cardinality(P(i)) # c
    <3> HIDE DEF P
    <3> QED
      BY <2>1, FS_Subset
  <2>3. Cardinality(P(i)) \in Nat
    <3> HIDE DEF P
    <3> QED
      BY <2>2, FS_CardinalityType
  <2> QED
    BY <1>1, <2>1, <2>2, <2>3
<1>3. ASSUME NEW i \in K, NEW j \in K, <<i, j>> \in R
      PROVE  Cardinality(P(i)) < Cardinality(P(j))
  <2>1. P(i) \in SUBSET P(j) /\ i \in P(j) /\ i \notin P(i)
    BY <1>3 DEF Predecessors
  <2>2. IsFiniteSet(P(j)) /\ Cardinality(P(i)) \in Int /\ Cardinality(P(j)) \in Int
    BY <1>1, <1>2
  <2>3. Cardinality(P(i)) <= Cardinality(P(j)) /\ Cardinality(P(i)) # Cardinality(P(j))
    <3> HIDE DEF P
    <3> QED
      BY <2>1, <2>2, FS_Subset
  <2> QED
    BY <2>2, <2>3
<1>4. f \in Injection(K, T)
  <2>1. f \in [K -> T]
    BY <1>2
  <2>2. ASSUME NEW i \in K, NEW j \in K, f[i] = f[j] PROVE i = j
    <3>1. Cardinality(P(i)) \in Int /\ Cardinality(P(j)) \in Int
      BY <1>1, <1>2
    <3>2. Cardinality(P(i)) = Cardinality(P(j))
      BY <2>2
    <3>3. ~(<<i, j>> \in R) /\ ~(<<j, i>> \in R)
      <4> HIDE DEF P
      <4> QED
        BY <1>3, <3>1, <3>2
    <3> QED
      BY <3>3
  <2> HIDE DEF f, T
  <2> QED
    BY <2>1, <2>2, Zenon DEF Injection, IsInjective
<1>5. IsFiniteSet(T) /\ Cardinality(T) = c
  <2>1. /\ IsFiniteSet(T)
        /\ Cardinality(T) = IF 0 > c - 1 THEN 0 ELSE c - 1 - 0 + 1
    BY <1>1, FS_Interval
  <2> QED
    BY <1>1, <2>1
<1>6. f \in Surjection(K, T)
  <2> HIDE DEF f, T
  <2> QED
    BY <1>4, <1>5, FS_Injection
<1>7. ASSUME NEW n \in 1 .. c PROVE \E i \in K : Cardinality(P(i)) = n - 1
  <2>1. n - 1 \in T
    BY <1>1
  <2>2. \E i \in K : f[i] = n - 1
    <3> HIDE DEF f, T
    <3> QED
      BY <1>6, <2>1 DEF Surjection
  <2> QED
    BY <2>2
<1> QED
  BY <1>1, <1>2, <1>3, <1>7

-----------------------------------------------------------------------------
(* What is always true of a planner: the registered objects, the routes    *)
(* over them, what each simulation has heard and added up, and the order.  *)

Quotes == UNION {Catalogue[id] : id \in ProviderIds}

RegistryFits ==
  /\ registry \in Seq(ProviderIds) /\ DOMAIN object = ToSet(registry)
  /\ \A id \in DOMAIN object : object[id] \in Catalogue[id]

\* Every hop of a route is of a provider that is registered.
RoutesFit(routes, found) ==
  /\ IsFiniteSet(DOMAIN routes) /\ DOMAIN routes \subseteq Nat
  /\ \A i \in DOMAIN routes : routes[i] \in Seq(found)

Fees(qs) == [n \in DOMAIN qs |-> IF qs[n].compliance = "fail" THEN 0 ELSE qs[n].fees]
Times(qs) == [n \in DOMAIN qs |-> IF qs[n].compliance = "fail" THEN 0 ELSE qs[n].timeMs]

\* A simulation heard the hops of its route in order, stopped at the first that
\* refused, and has added up what the others asked for.
SimulationFits(route, qs, sum) ==
  /\ qs \in Seq(Quotes) /\ Len(qs) <= Len(route)
  /\ \A n \in DOMAIN qs : qs[n] \in Catalogue[route[n]]
  /\ \A n \in DOMAIN qs : n < Len(qs) => qs[n].compliance # "fail"
  /\ sum \in [costUSD : Nat, timeMs : Nat]
  /\ sum.costUSD = Total(Fees(qs), DOMAIN qs) /\ sum.timeMs = Total(Times(qs), DOMAIN qs)

SimulationsFit ==
  /\ quotes \in [DOMAIN candidates -> Seq(Quotes)]
  /\ totals \in [DOMAIN candidates -> [costUSD : Nat, timeMs : Nat]]
  /\ \A i \in DOMAIN candidates : SimulationFits(candidates[i], quotes[i], totals[i])

RankingFits ==
  /\ ranking.policy \in {"none", "threw", "cheapest", "fastest"}
  /\ ranking.policy = "none" => ranking = Unranked
  /\ ranking.policy \in {"cheapest", "fastest"} =>
       /\ ranking.order = Ranked(ranking.policy)
       /\ \A i \in DOMAIN candidates : Simulated(i)

PlannerInv ==
  RegistryFits /\ RoutesFit(candidates, DOMAIN object) /\ SimulationsFit /\ RankingFits

-----------------------------------------------------------------------------
(* What is always true of a search: the best of those asked so far.        *)

HeardFits(s) ==
  /\ s.heard \in Seq(UNION {Capable[id] : id \in ToSet(Fleet)})
  /\ \A i \in DOMAIN s.heard : i \in DOMAIN Fleet /\ s.heard[i] \in Capable[Fleet[i]]

Ability(s) == {i \in DOMAIN s.heard : Eligible(s.heard[i], s.request)}

BestFits(s) ==
  /\ s.score \in Int
  /\ \A i \in Ability(s) : RouterScore(s.heard[i], s.request.policy) <= s.score
  /\ \/ s.best = "null" /\ s.score = -1
     \/ \E i \in Ability(s) :
          Fleet[i] = s.best /\ RouterScore(s.heard[i], s.request.policy) = s.score

SearchFits ==
  /\ capability \in [ToSet(Fleet) -> UNION {Capable[id] : id \in ToSet(Fleet)}]
  /\ \A id \in ToSet(Fleet) : capability[id] \in Capable[id]
  /\ search = [request |-> search.request, at |-> search.at, best |-> search.best,
               score |-> search.score, heard |-> search.heard]
  /\ search.at = 0 => search = NotSearching
  /\ search.at # 0 =>
       /\ search.request \in Asked /\ search.at \in 1 .. (Len(Fleet) + 1)
       /\ Len(search.heard) = search.at - 1 /\ HeardFits(search) /\ BestFits(search)

\* The seeded providers stay recorded.
ReputationFits == DOMAIN Seeds \subseteq DOMAIN reputation /\ ReputationFollowsFailures

PlanningInv == PlannerInv /\ SearchFits /\ ReputationFits

-----------------------------------------------------------------------------
LEMMA MinOfSet ==
  ASSUME NEW S \in SUBSET Nat, S # {}
  PROVE  Min(S) \in S
BY LeastOfSet DEF Min

(* The routes of a registry are finitely many, over what is registered.    *)
LEMMA RoutesAreFound ==
  ASSUME RegistryFits
  PROVE  RoutesFit(Routes, DOMAIN object)
<1> DEFINE k == Len(registry)
           Places == DOMAIN registry
           ons == OfTypes({"internal"})
           offs == OfTypes({"internal", "bank"})
           ids == DOMAIN object
           hybrid == IF ons = {} THEN {} ELSE HybridRoutes
           bridged == IF ons = {} THEN {} ELSE BridgedRoutes
<1>1. /\ k \in Nat /\ Places = 1 .. k /\ \A n \in Places : registry[n] \in ids
  BY DEF RegistryFits, ToSet
<1>2. /\ DirectRoutes \in SUBSET Places /\ ons \in SUBSET Places /\ offs \in SUBSET Places
      /\ ons \subseteq offs /\ OfTypes({"blockchain"}) \in SUBSET Places
  BY DEF DirectRoutes, OfTypes
<1>3. /\ hybrid \subseteq (k + 1) .. (2 * k) /\ \A n \in hybrid : n - k \in Places
  BY <1>1, <1>2 DEF HybridRoutes
<1>4. bridged \subseteq {2 * k + 1}
  BY DEF BridgedRoutes
<1>5. ons # {} => registry[Min(ons)] \in ids /\ registry[Min(offs)] \in ids
  <2> SUFFICES ASSUME ons # {} PROVE registry[Min(ons)] \in ids /\ registry[Min(offs)] \in ids
    OBVIOUS
  <2>1. ons \in SUBSET Nat /\ offs \in SUBSET Nat /\ offs # {}
    BY <1>1, <1>2
  <2> HIDE DEF ons, offs
  <2>2. Min(ons) \in Places /\ Min(offs) \in Places
    BY <1>2, <2>1, MinOfSet
  <2> QED
    BY <1>1, <2>2
<1>6. bridged # {} => {"Base_USDC", "Solana_USDC", "Circle_CCTP"} \subseteq ids
  BY DEF BridgedRoutes, RegistryFits
<1>7. /\ DOMAIN Routes = DirectRoutes \cup hybrid \cup bridged
      /\ \A n \in DOMAIN Routes :
           Routes[n] = IF n \in DirectRoutes THEN <<registry[n]>>
                       ELSE IF n \in hybrid
                         THEN <<registry[Min(ons)], registry[n - k], registry[Min(offs)]>>
                         ELSE <<registry[Min(ons)], "Base_USDC", "Circle_CCTP", "Solana_USDC",
                                registry[Min(offs)]>>
  BY Zenon DEF Routes
<1>8. DOMAIN Routes \in SUBSET (0 .. (2 * k + 1))
  <2> HIDE DEF k, Places, hybrid, bridged
  <2> QED
    BY <1>1, <1>2, <1>3, <1>4, <1>7
<1>9. IsFiniteSet(DOMAIN Routes) /\ DOMAIN Routes \subseteq Nat
  <2> HIDE DEF k
  <2> DEFINE D == DOMAIN Routes
             I == 0 .. (2 * k + 1)
  <2>1. IsFiniteSet(I) /\ I \subseteq Nat
    BY <1>1, FS_Interval
  <2>2. D \in SUBSET I
    BY <1>8
  <2> HIDE DEF D, I
  <2>3. IsFiniteSet(D) /\ D \subseteq Nat
    BY <2>1, <2>2, FS_Subset
  <2> QED
    BY <2>3 DEF D
<1>10. ASSUME NEW n \in DOMAIN Routes PROVE Routes[n] \in Seq(ids)
  <2>1. CASE n \in DirectRoutes
    <3>1. Routes[n] = <<registry[n]>> /\ registry[n] \in ids
      BY <1>1, <1>2, <1>7, <2>1
    <3> HIDE DEF ids
    <3> QED
      BY <3>1
  <2>2. CASE n \notin DirectRoutes /\ n \in hybrid
    <3>1. /\ Routes[n] = <<registry[Min(ons)], registry[n - k], registry[Min(offs)]>>
      BY <1>7, <2>2
    <3>2. /\ registry[Min(ons)] \in ids /\ registry[n - k] \in ids /\ registry[Min(offs)] \in ids
      BY <1>1, <1>3, <1>5, <2>2
    <3> DEFINE a == registry[Min(ons)]
               b == registry[n - k]
               c == registry[Min(offs)]
    <3> HIDE DEF ids, a, b, c
    <3>3. a \in ids /\ b \in ids /\ c \in ids /\ Routes[n] = <<a, b, c>>
      BY <3>1, <3>2 DEF a, b, c
    <3> QED
      BY <3>3
  <2>3. CASE n \notin DirectRoutes /\ n \notin hybrid
    <3>1. /\ Routes[n] = <<registry[Min(ons)], "Base_USDC", "Circle_CCTP", "Solana_USDC",
                           registry[Min(offs)]>>
          /\ n \in bridged
      BY <1>7, <2>3
    <3>2. /\ registry[Min(ons)] \in ids /\ registry[Min(offs)] \in ids
          /\ "Base_USDC" \in ids /\ "Circle_CCTP" \in ids /\ "Solana_USDC" \in ids
      BY <1>5, <1>6, <3>1
    <3> DEFINE a == registry[Min(ons)]
               c == registry[Min(offs)]
    <3> HIDE DEF ids, a, c
    <3>3. /\ a \in ids /\ c \in ids
          /\ Routes[n] = <<a, "Base_USDC", "Circle_CCTP", "Solana_USDC", c>>
      BY <3>1, <3>2 DEF a, c
    <3> QED
      BY <3>2, <3>3
  <2> QED
    BY <2>1, <2>2, <2>3
<1> QED
  BY <1>9, <1>10 DEF RoutesFit

LEMMA QuoteType ==
  \A q \in Quotes : q.fees \in Nat /\ q.timeMs \in Nat
BY PlanningAssumption DEF Quotes, IsProvider

LEMMA ProviderQuotes ==
  ASSUME NEW id \in ProviderIds, NEW o \in Catalogue[id]
  PROVE  o \in Quotes
BY DEF Quotes

(* One more element adds its amount to the sum over a sequence. *)
LEMMA TotalOfAppend ==
  ASSUME NEW n \in Nat, NEW f, NEW g, NEW x \in Nat,
         \A m \in 1 .. n : f[m] \in Nat /\ g[m] = f[m], g[n + 1] = x
  PROVE  Total(g, 1 .. (n + 1)) = Total(f, 1 .. n) + x
<1> DEFINE S == 1 .. n
<1>1. IsFiniteSet(S)
  BY FS_Interval
<1>0. n + 1 \notin S /\ 1 .. (n + 1) = S \cup {n + 1}
  OBVIOUS
<1>2. \A y \in S \cup {n + 1} : g[y] \in Nat
  OBVIOUS
<1>3. Total(g, S \cup {n + 1}) = Total(g, S) + g[n + 1]
  <2> DEFINE k == n + 1
  <2> HIDE DEF S, k
  <2>1. k \notin S /\ \A y \in S \cup {k} : g[y] \in Nat
    BY <1>0, <1>2 DEF k
  <2>2. Total(g, S \cup {k}) = Total(g, S) + g[k]
    BY ONLY <1>1, <2>1, TotalAdd
  <2> QED
    BY <2>2 DEF k
<1>4. Total(g, S) = Total(f, S)
  <2> HIDE DEF S
  <2>1. \A y \in S : g[y] = f[y]
    BY DEF S
  <2> QED
    BY <2>1, TotalSame
<1> QED
  BY <1>0, <1>3, <1>4

LEMMA SumsOfAppend ==
  ASSUME NEW qs \in Seq(Quotes), NEW q \in Quotes
  PROVE  /\ Total(Fees(Append(qs, q)), DOMAIN Append(qs, q)) =
              Total(Fees(qs), DOMAIN qs) + (IF q.compliance = "fail" THEN 0 ELSE q.fees)
         /\ Total(Times(Append(qs, q)), DOMAIN Append(qs, q)) =
              Total(Times(qs), DOMAIN qs) + (IF q.compliance = "fail" THEN 0 ELSE q.timeMs)
<1> DEFINE n == Len(qs)
           after == Append(qs, q)
<1>1. /\ n \in Nat /\ DOMAIN qs = 1 .. n /\ DOMAIN after = 1 .. (n + 1)
      /\ \A m \in 1 .. n : after[m] = qs[m] /\ qs[m] \in Quotes
      /\ after[n + 1] = q
  OBVIOUS
<1> HIDE DEF n, after
<1>2. q.fees \in Nat /\ q.timeMs \in Nat /\ \A m \in 1 .. n : qs[m].fees \in Nat /\ qs[m].timeMs \in Nat
  BY <1>1, QuoteType
<1>3. Total(Fees(after), 1 .. (n + 1)) =
        Total(Fees(qs), 1 .. n) + (IF q.compliance = "fail" THEN 0 ELSE q.fees)
  <2> DEFINE f == Fees(qs)
             g == Fees(after)
             x == IF q.compliance = "fail" THEN 0 ELSE q.fees
  <2>1. x \in Nat /\ g[n + 1] = x /\ \A m \in 1 .. n : f[m] \in Nat /\ g[m] = f[m]
    BY <1>1, <1>2 DEF Fees
  <2> HIDE DEF f, g, x
  <2>2. Total(g, 1 .. (n + 1)) = Total(f, 1 .. n) + x
    BY <1>1, <2>1, TotalOfAppend
  <2> QED
    BY <2>2 DEF f, g, x
<1>4. Total(Times(after), 1 .. (n + 1)) =
        Total(Times(qs), 1 .. n) + (IF q.compliance = "fail" THEN 0 ELSE q.timeMs)
  <2> DEFINE f == Times(qs)
             g == Times(after)
             x == IF q.compliance = "fail" THEN 0 ELSE q.timeMs
  <2>1. x \in Nat /\ g[n + 1] = x /\ \A m \in 1 .. n : f[m] \in Nat /\ g[m] = f[m]
    BY <1>1, <1>2 DEF Times
  <2> HIDE DEF f, g, x
  <2>2. Total(g, 1 .. (n + 1)) = Total(f, 1 .. n) + x
    BY <1>1, <2>1, TotalOfAppend
  <2> QED
    BY <2>2 DEF f, g, x
<1> QED
  BY <1>1, <1>3, <1>4 DEF after

-----------------------------------------------------------------------------
(* The planner's steps. *)

LEMMA PlanningInvInit == PlanningInit => PlanningInv
<1> SUFFICES ASSUME PlanningInit PROVE PlanningInv
  OBVIOUS
<1>1. RegistryFits
  BY DEF PlanningInit, RegistryFits, ToSet
<1>2. RoutesFit(candidates, DOMAIN object)
  <2>1. DOMAIN candidates = {}
    BY DEF PlanningInit
  <2> QED
    BY <2>1, FS_EmptySet DEF RoutesFit
<1>3. SimulationsFit
  BY DEF PlanningInit, SimulationsFit
<1>4. RankingFits
  BY DEF PlanningInit, RankingFits, Unranked
<1>5. SearchFits
  BY PlanningAssumption DEF PlanningInit, SearchFits, NotSearching
<1>6. ReputationFits
  BY DEF PlanningInit, ReputationFits, ReputationFollowsFailures, ProviderReputation, Seeds
<1> QED
  BY <1>1, <1>2, <1>3, <1>4, <1>5, <1>6 DEF PlanningInv, PlannerInv

(* What the routes, the simulations and the ranking say rests on the plan. *)
LEMMA PlanUnchanged ==
  ASSUME UNCHANGED plan, SimulationsFit, RankingFits
  PROVE  SimulationsFit' /\ RankingFits'
<1>1. /\ candidates' = candidates /\ quotes' = quotes /\ totals' = totals /\ ranking' = ranking
  BY DEF plan
<1>2. SimulationsFit'
  BY <1>1 DEF SimulationsFit, SimulationFits
<1>3. RankingFits'
  BY <1>1 DEF RankingFits, Ranked, Kept, Before, Score, Viable, Failed, Simulated, ExpectedProfit,
     TotalCost, TotalTimeMs
<1> QED
  BY <1>2, <1>3

LEMMA RegisterStep ==
  ASSUME PlannerInv, NEW id \in ProviderIds, NEW o \in Catalogue[id], Register(id, o)
  PROVE  PlannerInv'
<1>1. /\ registry \in Seq(ProviderIds) /\ DOMAIN object = ToSet(registry)
      /\ \A i \in DOMAIN object : object[i] \in Catalogue[i]
      /\ RoutesFit(candidates, DOMAIN object) /\ SimulationsFit /\ RankingFits
  BY DEF PlannerInv, RegistryFits
<1>2. /\ registry' = IF id \in ToSet(registry) THEN registry ELSE Append(registry, id)
      /\ object' = [i \in DOMAIN object \cup {id} |-> IF i = id THEN o ELSE object[i]]
      /\ UNCHANGED plan
  BY DEF Register
<1>3. registry' \in Seq(ProviderIds)
  BY <1>1, <1>2
<1>4. ToSet(registry') = ToSet(registry) \cup {id}
  <2>1. CASE id \in ToSet(registry)
    BY <1>2, <2>1
  <2>2. CASE id \notin ToSet(registry)
    <3>1. registry' = Append(registry, id)
      BY <1>2, <2>2
    <3>2. /\ DOMAIN registry' = DOMAIN registry \cup {Len(registry) + 1}
          /\ \A n \in DOMAIN registry : registry'[n] = registry[n]
          /\ registry'[Len(registry) + 1] = id
      BY <1>1, <3>1
    <3> QED
      BY <3>2 DEF ToSet
  <2> QED
    BY <2>1, <2>2
<1>5. RegistryFits'
  BY <1>1, <1>2, <1>3, <1>4 DEF RegistryFits
<1>6. RoutesFit(candidates', DOMAIN object')
  <2>1. DOMAIN object \subseteq DOMAIN object' /\ candidates' = candidates
    BY <1>2 DEF plan
  <2> DEFINE found == DOMAIN object
             later == DOMAIN object'
  <2> HIDE DEF found, later
  <2>2. found \subseteq later /\ RoutesFit(candidates, found)
    BY <1>1, <2>1 DEF found, later
  <2>3. ASSUME NEW i \in DOMAIN candidates PROVE candidates[i] \in Seq(later)
    BY <2>2 DEF RoutesFit
  <2>4. RoutesFit(candidates, later)
    BY <2>2, <2>3 DEF RoutesFit
  <2> QED
    BY <2>1, <2>4 DEF later
<1>7. SimulationsFit' /\ RankingFits'
  BY <1>1, <1>2, PlanUnchanged
<1> QED
  BY <1>5, <1>6, <1>7 DEF PlannerInv

LEMMA GenerateRoutesStep ==
  ASSUME PlannerInv, GenerateRoutes
  PROVE  PlannerInv'
<1>1. RegistryFits
  BY DEF PlannerInv
<1>2. RoutesFit(Routes, DOMAIN object)
  BY <1>1, RoutesAreFound
<1>3. /\ candidates' = Routes
      /\ quotes' = [i \in DOMAIN Routes |-> <<>>]
      /\ totals' = [i \in DOMAIN Routes |-> [costUSD |-> 0, timeMs |-> 0]]
      /\ ranking' = Unranked /\ registry' = registry /\ object' = object
  BY DEF GenerateRoutes, registered
<1> HIDE DEF Routes
<1>4. RegistryFits' /\ RoutesFit(candidates, DOMAIN object)'
  BY <1>1, <1>2, <1>3 DEF RegistryFits, RoutesFit
<1>5. SimulationsFit'
  <2>1. /\ quotes' \in [DOMAIN Routes -> Seq(Quotes)]
        /\ totals' \in [DOMAIN Routes -> [costUSD : Nat, timeMs : Nat]]
    BY <1>3
  <2>2. ASSUME NEW i \in DOMAIN Routes
        PROVE  SimulationFits(Routes[i], <<>>, [costUSD |-> 0, timeMs |-> 0])
    <3>1. Len(Routes[i]) \in Nat
      BY <1>2 DEF RoutesFit
    <3>2. Total(Fees(<<>>), DOMAIN <<>>) = 0 /\ Total(Times(<<>>), DOMAIN <<>>) = 0
      <4>1. DOMAIN <<>> = {}
        OBVIOUS
      <4> QED
        BY <4>1, TotalEmpty
    <3> QED
      BY <3>1, <3>2 DEF SimulationFits
  <2> QED
    BY <1>3, <2>1, <2>2 DEF SimulationsFit
<1>6. RankingFits'
  BY <1>3 DEF RankingFits, Unranked
<1> QED
  BY <1>4, <1>5, <1>6 DEF PlannerInv

(* One more quote, of the next hop of a route that is not yet simulated. *)
LEMMA SimulationGoesOn ==
  ASSUME NEW ids, NEW route \in Seq(ids), NEW qs, NEW sum, NEW q \in Quotes,
         SimulationFits(route, qs, sum), Len(qs) # Len(route),
         qs # <<>> => Last(qs).compliance # "fail", q \in Catalogue[route[Len(qs) + 1]]
  PROVE  SimulationFits(route, Append(qs, q), Add(sum, q))
<1> DEFINE after == Append(qs, q)
           n == Len(qs)
<1>1. /\ qs \in Seq(Quotes) /\ n <= Len(route) /\ n \in Nat /\ Len(route) \in Nat
      /\ \A m \in DOMAIN qs : qs[m] \in Catalogue[route[m]]
      /\ \A m \in DOMAIN qs : m < n => qs[m].compliance # "fail"
      /\ sum \in [costUSD : Nat, timeMs : Nat]
      /\ sum.costUSD = Total(Fees(qs), DOMAIN qs) /\ sum.timeMs = Total(Times(qs), DOMAIN qs)
  BY DEF SimulationFits
<1>2. /\ after \in Seq(Quotes) /\ Len(after) = n + 1 /\ DOMAIN after = 1 .. (n + 1)
      /\ \A m \in 1 .. n : after[m] = qs[m]
      /\ after[n + 1] = q /\ DOMAIN qs = 1 .. n
  BY <1>1
<1>3. n # 0 => qs[n].compliance # "fail"
  BY <1>1 DEF Last
<1>4. /\ Total(Fees(after), DOMAIN after) =
           Total(Fees(qs), DOMAIN qs) + (IF q.compliance = "fail" THEN 0 ELSE q.fees)
      /\ Total(Times(after), DOMAIN after) =
           Total(Times(qs), DOMAIN qs) + (IF q.compliance = "fail" THEN 0 ELSE q.timeMs)
  BY <1>1, SumsOfAppend
<1> HIDE DEF after, n
<1>5. /\ Add(sum, q) \in [costUSD : Nat, timeMs : Nat]
      /\ Add(sum, q).costUSD = sum.costUSD + (IF q.compliance = "fail" THEN 0 ELSE q.fees)
      /\ Add(sum, q).timeMs = sum.timeMs + (IF q.compliance = "fail" THEN 0 ELSE q.timeMs)
  BY <1>1, QuoteType DEF Add
<1>6. /\ \A m \in DOMAIN after : after[m] \in Catalogue[route[m]]
      /\ \A m \in DOMAIN after : m < Len(after) => after[m].compliance # "fail"
  <2>0. n \in Nat
    BY <1>1
  <2>1. ASSUME NEW m \in 1 .. n
        PROVE  after[m] \in Catalogue[route[m]] /\ after[m].compliance # "fail"
    <3>1. after[m] = qs[m] /\ qs[m] \in Catalogue[route[m]]
      BY <1>1, <1>2
    <3>2. m < n => qs[m].compliance # "fail"
      BY <1>1, <1>2
    <3> QED
      BY <2>0, <3>1, <3>2, <1>3
  <2>2. after[n + 1] \in Catalogue[route[n + 1]]
    BY <1>2 DEF n
  <2>3. \A m \in DOMAIN after : m \in 1 .. n \/ m = n + 1
    BY <1>2, <2>0
  <2> QED
    BY <1>2, <2>0, <2>1, <2>2, <2>3
<1>7. Len(after) <= Len(route)
  BY <1>1, <1>2 DEF n
<1>8. SimulationFits(route, after, Add(sum, q))
  BY <1>1, <1>2, <1>4, <1>5, <1>6, <1>7 DEF SimulationFits
<1> QED
  BY <1>8 DEF after

LEMMA SimulateStep ==
  ASSUME PlannerInv, NEW i \in DOMAIN candidates, Simulate(i)
  PROVE  PlannerInv'
<1> DEFINE hop == candidates[i][Len(quotes[i]) + 1]
           q == object[hop]
<1>1. /\ RegistryFits /\ RoutesFit(candidates, DOMAIN object) /\ SimulationsFit /\ RankingFits
  BY DEF PlannerInv
<1>2. /\ ranking = Unranked /\ ~Simulated(i)
      /\ quotes' = [quotes EXCEPT ![i] = Append(@, q)]
      /\ totals' = [totals EXCEPT ![i] = Add(@, q)]
      /\ candidates' = candidates /\ ranking' = ranking /\ registry' = registry /\ object' = object
  BY DEF Simulate, registered
<1>3. /\ SimulationFits(candidates[i], quotes[i], totals[i])
      /\ candidates[i] \in Seq(DOMAIN object)
      /\ Len(quotes[i]) # Len(candidates[i])
      /\ quotes[i] # <<>> => Last(quotes[i]).compliance # "fail"
  BY <1>1, <1>2 DEF SimulationsFit, RoutesFit, Simulated, Failed
<1>4. hop \in DOMAIN object
  <2>1. quotes[i] \in Seq(Quotes) /\ Len(quotes[i]) <= Len(candidates[i])
    BY <1>3 DEF SimulationFits
  <2>2. Len(quotes[i]) + 1 \in 1 .. Len(candidates[i])
    BY <1>3, <2>1
  <2> QED
    BY <1>3, <2>2
<1>5. q \in Catalogue[hop] /\ q \in Quotes
  <2>1. hop \in ProviderIds
    BY <1>1, <1>4 DEF RegistryFits, ToSet
  <2>2. q \in Catalogue[hop]
    BY <1>1, <1>4 DEF RegistryFits
  <2> QED
    BY <2>1, <2>2, ProviderQuotes
<1>6. SimulationFits(candidates[i], Append(quotes[i], q), Add(totals[i], q))
  <2>1. q \in Catalogue[candidates[i][Len(quotes[i]) + 1]]
    BY <1>5
  <2> DEFINE ids == DOMAIN object
  <2>2. candidates[i] \in Seq(ids)
    BY <1>3
  <2> HIDE DEF q, ids
  <2> QED
    BY <1>3, <1>5, <2>1, <2>2, SimulationGoesOn
<1> HIDE DEF q, hop
<1>7. SimulationsFit'
  <2>1. /\ Append(quotes[i], q) \in Seq(Quotes)
        /\ Add(totals[i], q) \in [costUSD : Nat, timeMs : Nat]
    BY <1>6 DEF SimulationFits
  <2>2. /\ quotes \in [DOMAIN candidates -> Seq(Quotes)]
        /\ totals \in [DOMAIN candidates -> [costUSD : Nat, timeMs : Nat]]
        /\ \A j \in DOMAIN candidates : SimulationFits(candidates[j], quotes[j], totals[j])
    BY <1>1 DEF SimulationsFit
  <2> DEFINE as == Append(quotes[i], q)
             at == Add(totals[i], q)
             Q == Seq(Quotes)
             T == [costUSD : Nat, timeMs : Nat]
  <2>3. /\ quotes' = [quotes EXCEPT ![i] = as] /\ totals' = [totals EXCEPT ![i] = at]
        /\ as \in Q /\ at \in T /\ SimulationFits(candidates[i], as, at)
        /\ quotes \in [DOMAIN candidates -> Q] /\ totals \in [DOMAIN candidates -> T]
    BY <1>2, <1>6, <2>1, <2>2
  <2> HIDE DEF as, at, Q, T
  <2>4. /\ quotes' \in [DOMAIN candidates -> Q] /\ totals' \in [DOMAIN candidates -> T]
        /\ \A j \in DOMAIN candidates : SimulationFits(candidates[j], quotes'[j], totals'[j])
    BY <2>2, <2>3
  <2> QED
    BY <1>2, <2>4 DEF SimulationsFit, Q, T
<1>8. RankingFits'
  BY <1>2 DEF RankingFits, Unranked
<1>9. RegistryFits' /\ RoutesFit(candidates, DOMAIN object)'
  BY <1>1, <1>2 DEF RegistryFits, RoutesFit
<1> QED
  BY <1>7, <1>8, <1>9 DEF PlannerInv

LEMMA RankRoutesStep ==
  ASSUME PlannerInv, NEW policy \in {"cheapest", "fastest", "safest"}, RankRoutes(policy)
  PROVE  PlannerInv'
<1>1. /\ RegistryFits /\ RoutesFit(candidates, DOMAIN object) /\ SimulationsFit /\ RankingFits
  BY DEF PlannerInv
<1>2. /\ \A i \in DOMAIN candidates : Simulated(i)
      /\ ranking' = IF policy \in {"cheapest", "fastest"}
                    THEN [policy |-> policy, order |-> Ranked(policy)]
                    ELSE [Unranked EXCEPT !.policy = "threw"]
      /\ candidates' = candidates /\ quotes' = quotes /\ totals' = totals
      /\ registry' = registry /\ object' = object
  BY DEF RankRoutes, registered
<1>3. SimulationsFit' /\ RegistryFits' /\ RoutesFit(candidates, DOMAIN object)'
  BY <1>1, <1>2 DEF RegistryFits, RoutesFit, SimulationsFit
<1>4. \A i \in DOMAIN candidates : Simulated(i)'
  BY <1>2 DEF Simulated, Failed
<1>5. \A p : Ranked(p)' = Ranked(p)
  BY <1>2 DEF Ranked, Kept, Before, Score, Viable, Failed, ExpectedProfit, TotalCost, TotalTimeMs
<1>6. RankingFits'
  <2>1. CASE policy \in {"cheapest", "fastest"}
    <3>1. ranking'.policy = policy /\ ranking'.order = Ranked(policy)
      BY <1>2, <2>1
    <3> HIDE DEF Ranked
    <3>2. Ranked(policy)' = Ranked(policy)
      BY <1>5
    <3>3. Ranked(ranking.policy)' = Ranked(policy)
      <4>1. \A p : p = policy => Ranked(p)' = Ranked(policy)
        BY <3>2
      <4> QED
        BY <1>5, <3>1
    <3> QED
      BY <1>2, <1>4, <2>1, <3>1, <3>3 DEF RankingFits
  <2>2. CASE policy \notin {"cheapest", "fastest"}
    <3>1. ranking'.policy = "threw"
      BY <1>2, <2>2 DEF Unranked
    <3> QED
      BY <3>1 DEF RankingFits
  <2> QED
    BY <2>1, <2>2
<1> QED
  BY <1>3, <1>6 DEF PlannerInv

-----------------------------------------------------------------------------
(* What is ranked. *)

LEMMA ScoreType ==
  ASSUME SimulationsFit, NEW i \in DOMAIN candidates, NEW policy
  PROVE  Score(i, policy) \in Int
<1>1. totals[i].costUSD \in Nat /\ totals[i].timeMs \in Nat
  BY DEF SimulationsFit
<1> QED
  BY <1>1, PlanningAssumption DEF Score, ExpectedProfit, TotalCost, TotalTimeMs

(* The order holds every route that was kept, at its place: whatever is    *)
(* before it scores no less.                                               *)
LEMMA RankedSorts ==
  ASSUME RoutesFit(candidates, DOMAIN object), SimulationsFit, NEW policy
  PROVE  LET order == Ranked(policy)
         IN  /\ ToSet(order) = Kept(policy)
             /\ \A m, n \in DOMAIN order : m < n => Before(order[m], order[n], policy)
             /\ Kept(policy) # {} => 1 \in DOMAIN order
<1> DEFINE K == Kept(policy)
           R == {p \in K \X K : Before(p[1], p[2], policy)}
           c == Cardinality(K)
           order == Ranked(policy)
           Pre(i) == {j \in K : Before(j, i, policy)}
<1>1. /\ IsFiniteSet(K) /\ K \subseteq DOMAIN candidates
      /\ \A i \in K : i \in Nat /\ Score(i, policy) \in Int
  <2>1. K \in SUBSET DOMAIN candidates
    BY DEF Kept
  <2>2. IsFiniteSet(K)
    BY <2>1, FS_Subset DEF RoutesFit
  <2> QED
    BY <2>1, <2>2, ScoreType DEF RoutesFit
<1>2. \A i, j \in K : <<i, j>> \in R <=> Before(i, j, policy)
  OBVIOUS
<1>3. \A i \in K : Predecessors(K, R, i) = Pre(i)
  BY DEF Predecessors
<1> HIDE DEF K, R
<1>4. /\ \A i \in K : ~Before(i, i, policy)
      /\ \A i, j \in K : i # j => Before(i, j, policy) \/ Before(j, i, policy)
      /\ \A i, j, k \in K : Before(i, j, policy) /\ Before(j, k, policy) => Before(i, k, policy)
  BY <1>1 DEF Before
<1>5. /\ \A i \in K : <<i, i>> \notin R
      /\ \A i, j \in K : i # j => <<i, j>> \in R \/ <<j, i>> \in R
      /\ \A i, j, k \in K : <<i, j>> \in R /\ <<j, k>> \in R => <<i, k>> \in R
  BY <1>2, <1>4
<1>6. /\ c \in Nat
      /\ \A i \in K : Cardinality(Pre(i)) \in 0 .. (c - 1)
      /\ \A i, j \in K : Before(i, j, policy) => Cardinality(Pre(i)) < Cardinality(Pre(j))
      /\ \A n \in 1 .. c : \E i \in K : Cardinality(Pre(i)) = n - 1
  <2>1. /\ Cardinality(K) \in Nat
        /\ \A i \in K : Cardinality(Predecessors(K, R, i)) \in 0 .. (Cardinality(K) - 1)
        /\ \A i, j \in K : <<i, j>> \in R =>
             Cardinality(Predecessors(K, R, i)) < Cardinality(Predecessors(K, R, j))
        /\ \A n \in 1 .. Cardinality(K) :
             \E i \in K : Cardinality(Predecessors(K, R, i)) = n - 1
    BY ONLY <1>1, <1>5, PlacesAreTaken
  <2> HIDE DEF Pre
  <2> QED
    BY <2>1, <1>2, <1>3
<1>7. order = [n \in 1 .. c |-> CHOOSE i \in K : Cardinality(Pre(i)) = n - 1]
  BY DEF Ranked, K
<1> HIDE DEF Pre, c, order
<1>8. DOMAIN order = 1 .. c /\ \A n \in 1 .. c : order[n] \in K /\ Cardinality(Pre(order[n])) = n - 1
  BY <1>6, <1>7
<1>9. \A i, j \in K : Cardinality(Pre(i)) = Cardinality(Pre(j)) => i = j
  BY <1>4, <1>6
<1>10. ASSUME NEW i \in K PROVE \E n \in 1 .. c : order[n] = i
  <2>1. Cardinality(Pre(i)) + 1 \in 1 .. c
    BY <1>6
  <2> DEFINE n == Cardinality(Pre(i)) + 1
  <2>2. order[n] \in K /\ Cardinality(Pre(order[n])) = n - 1
    BY <1>8, <2>1
  <2>3. Cardinality(Pre(order[n])) = Cardinality(Pre(i))
    BY <1>6, <2>2
  <2> QED
    BY <1>9, <2>1, <2>2, <2>3
<1>11. ToSet(order) = K
  BY <1>8, <1>10 DEF ToSet
<1>12. ASSUME NEW m \in DOMAIN order, NEW n \in DOMAIN order, m < n
       PROVE  Before(order[m], order[n], policy)
  <2>1. /\ order[m] \in K /\ order[n] \in K
        /\ Cardinality(Pre(order[m])) = m - 1 /\ Cardinality(Pre(order[n])) = n - 1
        /\ m \in Int /\ n \in Int
    BY <1>6, <1>8
  <2>2. order[m] # order[n]
    BY <1>12, <2>1
  <2>3. ~Before(order[n], order[m], policy)
    BY <1>6, <1>12, <2>1
  <2> QED
    BY <1>4, <2>1, <2>2, <2>3
<1>13. K # {} => 1 \in DOMAIN order
  BY <1>6, <1>8, <1>10
<1> QED
  BY <1>11, <1>12, <1>13 DEF K, order

LEMMA RankedIsQuoted == PlannerInv => RankedWasQuoted
<1> DEFINE p == ranking.policy
           order == ranking.order
           first == order[1]
           quoted == {i \in DOMAIN candidates : Len(quotes[i]) = Len(candidates[i])
                        /\ \A n \in DOMAIN quotes[i] : quotes[i][n].compliance # "fail"}
           ranked == ToSet(order)
<1> SUFFICES ASSUME PlannerInv, p \in {"cheapest", "fastest"} PROVE RankedWasQuoted
  BY DEF RankedWasQuoted
<1>1. /\ RoutesFit(candidates, DOMAIN object) /\ SimulationsFit
      /\ order = Ranked(p) /\ \A i \in DOMAIN candidates : Simulated(i)
  BY DEF PlannerInv, RankingFits
<1>2. /\ ranked = Kept(p)
      /\ \A m, n \in DOMAIN order : m < n => Before(order[m], order[n], p)
      /\ Kept(p) # {} => 1 \in DOMAIN order
  BY <1>1, RankedSorts
<1>3. ASSUME NEW i \in DOMAIN candidates
      PROVE  /\ TotalCost(i) \in Nat /\ TotalTimeMs(i) \in Nat
             /\ Score(i, p) = IF ~Viable(i) THEN -1
                              ELSE IF p = "cheapest" THEN 100000 + 10 * Principal - TotalCost(i)
                              ELSE IF TotalTimeMs(i) > 100000 THEN 0 ELSE 100000 - TotalTimeMs(i)
             /\ i \in quoted <=> Viable(i)
  <2>1. /\ quotes[i] \in Seq(Quotes) /\ totals[i].costUSD \in Nat /\ totals[i].timeMs \in Nat
        /\ \A n \in DOMAIN quotes[i] : n < Len(quotes[i]) => quotes[i][n].compliance # "fail"
    BY <1>1 DEF SimulationsFit, SimulationFits
  <2>2. Viable(i) <=> (quotes[i] # <<>> => quotes[i][Len(quotes[i])].compliance # "fail")
    BY DEF Viable, Failed, Last
  <2>3. i \in quoted <=> Viable(i)
    <3>1. ASSUME Viable(i) PROVE i \in quoted
      <4>1. Len(quotes[i]) = Len(candidates[i])
        BY <1>1, <3>1 DEF Simulated, Viable
      <4>2. ASSUME NEW n \in DOMAIN quotes[i] PROVE quotes[i][n].compliance # "fail"
        <5>1. n < Len(quotes[i]) \/ n = Len(quotes[i])
          BY <2>1
        <5>2. quotes[i] # <<>>
          OBVIOUS
        <5> QED
          BY <2>1, <2>2, <3>1, <5>1, <5>2
      <4> QED
        BY <4>1, <4>2
    <3>2. ASSUME i \in quoted PROVE Viable(i)
      <4>1. quotes[i] # <<>> => Len(quotes[i]) \in DOMAIN quotes[i]
        BY <2>1
      <4> QED
        BY <2>2, <3>2, <4>1
    <3> QED
      BY <3>1, <3>2
  <2>4. TotalCost(i) \in Nat /\ TotalTimeMs(i) \in Nat
    BY <2>1 DEF TotalCost, TotalTimeMs
  <2>5. Score(i, p) = IF ~Viable(i) THEN -1
                      ELSE IF p = "cheapest" THEN 100000 + 10 * Principal - TotalCost(i)
                      ELSE IF TotalTimeMs(i) > 100000 THEN 0 ELSE 100000 - TotalTimeMs(i)
    <3> HIDE DEF p
    <3>1. 100000 + ExpectedProfit(i) = 100000 + 10 * Principal - TotalCost(i)
      BY <2>4, PlanningAssumption DEF ExpectedProfit
    <3> QED
      BY <3>1 DEF Score
  <2> QED
    BY <2>3, <2>4, <2>5
<1> HIDE DEF quoted, ranked
<1>4. \A i : i \in ranked <=> i \in DOMAIN candidates /\ Score(i, p) >= 0
  BY <1>2 DEF Kept
<1>5. ranked \subseteq quoted
  BY <1>3, <1>4
<1>6. ASSUME NEW i \in quoted \ ranked
      PROVE  p = "cheapest" /\ TotalCost(i) > 10 * Principal + 100000
  <2>1. i \in DOMAIN candidates
    BY DEF quoted
  <2>2. /\ TotalCost(i) \in Nat /\ TotalTimeMs(i) \in Nat /\ Principal \in Nat
        /\ Score(i, p) = IF p = "cheapest" THEN 100000 + 10 * Principal - TotalCost(i)
                         ELSE IF TotalTimeMs(i) > 100000 THEN 0 ELSE 100000 - TotalTimeMs(i)
        /\ ~(Score(i, p) >= 0)
    BY <1>3, <1>4, <2>1, PlanningAssumption
  <2> HIDE DEF p
  <2> QED
    BY <2>2
<1>7. ASSUME NEW i \in ranked
      PROVE  IF p = "cheapest" THEN TotalCost(first) <= TotalCost(i)
             ELSE TotalTimeMs(first) <= TotalTimeMs(i) \/ TotalTimeMs(i) >= 100000
  <2>1. 1 \in DOMAIN order /\ first \in ranked
    BY <1>2 DEF ranked, ToSet
  <2>2. PICK n \in DOMAIN order : order[n] = i
    BY DEF ranked, ToSet
  <2>3. first = i \/ Before(first, i, p)
    <3>1. n \in Nat \ {0}
      BY <1>1 DEF Ranked
    <3>2. n = 1 \/ 1 < n
      BY <3>1
    <3> QED
      BY <1>2, <2>1, <2>2, <3>2
  <2>4. first \in DOMAIN candidates /\ i \in DOMAIN candidates /\ first \in quoted /\ i \in quoted
    BY <1>4, <1>5, <2>1
  <2>5. \A j \in {first, i} :
          /\ TotalCost(j) \in Nat /\ TotalTimeMs(j) \in Nat
          /\ Score(j, p) = IF p = "cheapest" THEN 100000 + 10 * Principal - TotalCost(j)
                           ELSE IF TotalTimeMs(j) > 100000 THEN 0 ELSE 100000 - TotalTimeMs(j)
    BY <1>3, <2>4
  <2> HIDE DEF p, first
  <2>6. Score(first, p) >= Score(i, p)
    <3>1. Score(i, p) \in Int /\ Score(first, p) \in Int
      BY <1>1, <2>4, ScoreType
    <3>2. first = i \/ Score(first, p) > Score(i, p) \/ Score(first, p) = Score(i, p)
      BY <2>3 DEF Before
    <3> QED
      BY <3>1, <3>2
  <2> DEFINE cf == TotalCost(first)
             ci == TotalCost(i)
             tf == TotalTimeMs(first)
             ti == TotalTimeMs(i)
             sf == Score(first, p)
             si == Score(i, p)
  <2>7. /\ cf \in Nat /\ ci \in Nat /\ tf \in Nat /\ ti \in Nat /\ Principal \in Nat /\ sf >= si
        /\ p = "cheapest" => /\ sf = 100000 + 10 * Principal - cf
                             /\ si = 100000 + 10 * Principal - ci
        /\ p # "cheapest" => /\ sf = IF tf > 100000 THEN 0 ELSE 100000 - tf
                             /\ si = IF ti > 100000 THEN 0 ELSE 100000 - ti
    BY <2>5, <2>6, PlanningAssumption
  <2> HIDE DEF cf, ci, tf, ti, sf, si
  <2>8. p = "cheapest" => cf <= ci
    BY <2>7
  <2>9. p # "cheapest" => tf <= ti \/ ti >= 100000
    <3> SUFFICES ASSUME p # "cheapest", ti < 100000 PROVE tf <= ti
      BY <2>7
    <3>1. si = 100000 - ti /\ sf = IF tf > 100000 THEN 0 ELSE 100000 - tf
      BY <2>7
    <3>2. CASE tf > 100000
      BY <2>7, <3>1, <3>2
    <3>3. CASE ~(tf > 100000)
      BY <2>7, <3>1, <3>3
    <3> QED
      BY <3>2, <3>3
  <2> QED
    BY <2>8, <2>9 DEF cf, ci, tf, ti
<1> QED
  BY <1>5, <1>6, <1>7 DEF RankedWasQuoted, quoted, ranked

-----------------------------------------------------------------------------
(* The router's steps. *)

LEMMA ValueType ==
  ASSUME NEW i \in DOMAIN Fleet, NEW c \in Capable[Fleet[i]], NEW policy
  PROVE  /\ RouterScore(c, policy) \in Int
         /\ policy # "FASTEST" => RouterScore(c, policy) \in Nat
<1>1. IsCapability(c)
  BY PlanningAssumption DEF ToSet
<1>2. c.averageLatencyMs \in Nat /\ c.successRate \in Nat /\ c.priority \in Nat
  BY <1>1 DEF IsCapability
<1>3. \/ RouterScore(c, policy) = 100000 - c.averageLatencyMs /\ policy = "FASTEST"
      \/ RouterScore(c, policy) = c.successRate
      \/ RouterScore(c, policy) = c.priority
  BY DEF RouterScore
<1>4. policy # "FASTEST" => RouterScore(c, policy) \in {c.successRate, c.priority}
  BY DEF RouterScore
<1> QED
  BY <1>2, <1>3, <1>4

LEMMA CapabilityChangesStep ==
  ASSUME SearchFits, NEW id \in ToSet(Fleet), NEW c \in Capable[id], CapabilityChanges(id, c)
  PROVE  SearchFits'
<1>1. capability' = [capability EXCEPT ![id] = c] /\ search' = search
  BY DEF CapabilityChanges
<1>2. /\ capability' \in [ToSet(Fleet) -> UNION {Capable[i] : i \in ToSet(Fleet)}]
      /\ \A i \in ToSet(Fleet) : capability'[i] \in Capable[i]
  BY <1>1 DEF SearchFits
<1> QED
  BY <1>1, <1>2 DEF SearchFits

LEMMA FindBestProviderStep ==
  ASSUME SearchFits, NEW r \in Asked, FindBestProvider(r)
  PROVE  SearchFits'
<1>1. capability' = capability
  BY DEF FindBestProvider
<1>2. search' = [request |-> r, at |-> 1, best |-> "null", score |-> -1, heard |-> <<>>]
  BY DEF FindBestProvider, NotSearching
<1>3. Len(Fleet) \in Nat
  BY PlanningAssumption
<1>4. HeardFits(search') /\ BestFits(search') /\ Len(search'.heard) = search'.at - 1
  BY <1>2 DEF HeardFits, BestFits, Ability
<1> QED
  BY <1>1, <1>2, <1>3, <1>4 DEF SearchFits

LEMMA UseProviderStep ==
  ASSUME SearchFits, UseProvider
  PROVE  SearchFits'
BY DEF SearchFits, UseProvider, NotSearching

LEMMA GetCapabilitiesStep ==
  ASSUME SearchFits, GetCapabilities
  PROVE  SearchFits'
<1> DEFINE at == search.at
           id == Fleet[at]
           c == capability[id]
           r == search.request
           v == RouterScore(c, r.policy)
           kept == Consider(search.best, search.score, id, c, r)
           heard == search.heard
<1>1. /\ at \in DOMAIN Fleet /\ capability' = capability
      /\ search' = [search EXCEPT !.at = @ + 1, !.best = kept[1], !.score = kept[2],
                                  !.heard = Append(@, c)]
  BY DEF GetCapabilities
<1>2. /\ \A i \in ToSet(Fleet) : capability[i] \in Capable[i]
      /\ search = [request |-> search.request, at |-> search.at, best |-> search.best,
                   score |-> search.score, heard |-> search.heard]
      /\ r \in Asked /\ at \in 1 .. (Len(Fleet) + 1) /\ Len(heard) = at - 1
      /\ HeardFits(search) /\ BestFits(search)
  <2>1. at # 0
    BY <1>1, PlanningAssumption
  <2> QED
    BY <2>1 DEF SearchFits
<1>3. id \in ToSet(Fleet) /\ c \in Capable[id] /\ at \in 1 .. Len(Fleet)
  BY <1>1, <1>2, PlanningAssumption DEF ToSet
<1>4. v \in Int
  BY <1>1, <1>3, ValueType
<1> DEFINE C == UNION {Capable[i] : i \in ToSet(Fleet)}
           after == Append(heard, c)
           E(h) == Eligible(h, r)
           V(h) == RouterScore(h, r.policy)
<1>5. /\ heard \in Seq(C) /\ c \in C
      /\ \A i \in DOMAIN heard : i \in DOMAIN Fleet /\ heard[i] \in Capable[Fleet[i]]
  BY <1>2, <1>3 DEF HeardFits
<1> HIDE DEF C
<1>6. /\ after \in Seq(C) /\ DOMAIN after = 1 .. at /\ Len(after) = at
      /\ DOMAIN heard = 1 .. (at - 1) /\ \A i \in 1 .. (at - 1) : after[i] = heard[i]
      /\ after[at] = c /\ at \in Nat \ {0}
  BY <1>2, <1>5
<1>7. /\ search.score \in Int
      /\ \A i \in 1 .. (at - 1) : E(heard[i]) => V(heard[i]) <= search.score
      /\ \/ search.best = "null" /\ search.score = -1
         \/ \E i \in 1 .. (at - 1) :
              /\ E(heard[i]) /\ Fleet[i] = search.best /\ V(heard[i]) = search.score
  BY <1>2, <1>6 DEF BestFits, Ability
<1>8. \/ E(c) /\ v > search.score /\ kept[1] = id /\ kept[2] = v
      \/ ~(E(c) /\ v > search.score) /\ kept[1] = search.best /\ kept[2] = search.score
  BY DEF Consider
<1>9. search' = [request |-> r, at |-> at + 1, best |-> kept[1], score |-> kept[2],
                 heard |-> after]
  <2> DEFINE k1 == kept[1]
             k2 == kept[2]
             r1 == search.request
             b1 == search.best
             s1 == search.score
             a1 == search.at
             h1 == search.heard
  <2>1. /\ search = [request |-> r1, at |-> a1, best |-> b1, score |-> s1, heard |-> h1]
        /\ search' = [search EXCEPT !.at = a1 + 1, !.best = k1, !.score = k2, !.heard = after]
    BY <1>1, <1>2
  <2> HIDE DEF k1, k2, after, r1, b1, s1, a1, h1
  <2>2. search' = [request |-> r1, at |-> a1 + 1, best |-> k1, score |-> k2, heard |-> after]
    BY <2>1
  <2> QED
    BY <2>2 DEF k1, k2, r1, a1
<1> HIDE DEF kept, after, heard, v, E, V, id, c
<1>10. V(c) = v /\ id = Fleet[at]
  BY DEF V, v, id
<1>11. /\ kept[2] \in Int
       /\ \A i \in 1 .. at : E(after[i]) => V(after[i]) <= kept[2]
       /\ \/ kept[1] = "null" /\ kept[2] = -1
          \/ \E i \in 1 .. at : E(after[i]) /\ Fleet[i] = kept[1] /\ V(after[i]) = kept[2]
  <2>1. ASSUME NEW i \in 1 .. (at - 1), E(heard[i]) PROVE V(heard[i]) \in Int
    BY <1>5, <1>6, ValueType DEF V
  <2> HIDE DEF at
  <2>2. \A i \in 1 .. at : i = at \/ i \in 1 .. (at - 1)
    BY <1>6
  <2>3. CASE E(c) /\ v > search.score /\ kept[1] = id /\ kept[2] = v
    <3>1. ASSUME NEW i \in 1 .. at, E(after[i]) PROVE V(after[i]) <= kept[2]
      <4>1. CASE i = at
        BY <1>4, <1>6, <1>10, <2>3, <4>1
      <4>2. CASE i \in 1 .. (at - 1)
        <5>1. V(heard[i]) \in Int /\ V(heard[i]) <= search.score /\ after[i] = heard[i]
          BY <1>6, <1>7, <2>1, <3>1, <4>2
        <5> QED
          BY <1>4, <1>7, <2>3, <5>1
      <4> QED
        BY <2>2, <4>1, <4>2
    <3>2. at \in 1 .. at /\ E(after[at]) /\ Fleet[at] = kept[1] /\ V(after[at]) = kept[2]
      BY <1>6, <1>10, <2>3
    <3> QED
      BY <1>4, <2>3, <3>1, <3>2
  <2>4. CASE ~(E(c) /\ v > search.score) /\ kept[1] = search.best /\ kept[2] = search.score
    <3>1. ASSUME NEW i \in 1 .. at, E(after[i]) PROVE V(after[i]) <= kept[2]
      <4>1. CASE i = at
        BY <1>4, <1>6, <1>7, <1>10, <2>4, <3>1, <4>1
      <4>2. CASE i \in 1 .. (at - 1)
        BY <1>6, <1>7, <2>4, <3>1, <4>2
      <4> QED
        BY <2>2, <4>1, <4>2
    <3>2. \A i \in 1 .. (at - 1) : i \in 1 .. at /\ after[i] = heard[i]
      BY <1>6
    <3> QED
      BY <1>7, <2>4, <3>1, <3>2
  <2> QED
    BY <1>8, <2>3, <2>4
<1>12. HeardFits(search')
  <2>1. ASSUME NEW i \in DOMAIN after PROVE i \in DOMAIN Fleet /\ after[i] \in Capable[Fleet[i]]
    <3>1. CASE i = at
      BY <1>1, <1>3, <1>6, <3>1 DEF id
    <3>2. CASE i # at
      <4>1. i \in DOMAIN heard /\ after[i] = heard[i]
        BY <1>6, <3>2
      <4> QED
        BY <1>5, <4>1
    <3> QED
      BY <3>1, <3>2
  <2> QED
    BY <1>6, <1>9, <2>1 DEF HeardFits, C
<1>13. BestFits(search')
  BY <1>6, <1>9, <1>11 DEF BestFits, Ability, E, V
<1>14. search'.at \in 1 .. (Len(Fleet) + 1) /\ search'.at # 0 /\ Len(search'.heard) = search'.at - 1
  BY <1>3, <1>6, <1>9, PlanningAssumption
<1> QED
  BY <1>1, <1>2, <1>9, <1>12, <1>13, <1>14 DEF SearchFits

LEMMA BestIsBest == SearchFits => BestOfThoseAsked
<1> SUFFICES ASSUME SearchFits, Found PROVE BestOfThoseAsked
  BY DEF BestOfThoseAsked
<1> DEFINE policy == search.request.policy
           able == {i \in DOMAIN Fleet : Eligible(search.heard[i], search.request)}
           V(i) == RouterScore(search.heard[i], policy)
<1>1. Len(Fleet) \in Nat /\ DOMAIN Fleet = 1 .. Len(Fleet) /\ search.at = Len(Fleet) + 1
  BY PlanningAssumption DEF Found
<1>2. Len(search.heard) = Len(Fleet) /\ HeardFits(search) /\ BestFits(search)
  BY <1>1 DEF SearchFits
<1>3. /\ DOMAIN search.heard = DOMAIN Fleet
      /\ \A i \in DOMAIN Fleet : search.heard[i] \in Capable[Fleet[i]]
  BY <1>1, <1>2 DEF HeardFits
<1>4. able = Ability(search)
  BY <1>3 DEF Ability
<1>5. \A i \in able : V(i) \in Int /\ (policy # "FASTEST" => V(i) \in Nat)
  BY <1>3, ValueType
<1>6. /\ search.score \in Int /\ \A i \in able : V(i) <= search.score
      /\ \/ search.best = "null" /\ search.score = -1
         \/ \E i \in able : Fleet[i] = search.best /\ V(i) = search.score
  BY <1>2, <1>4 DEF BestFits
<1>7. \A i \in able : Fleet[i] # "null"
  BY PlanningAssumption DEF ToSet
<1> HIDE DEF V, able, policy
<1>8. CASE search.best = "null"
  <2>1. search.score = -1
    BY <1>6, <1>7, <1>8
  <2>2. \A i \in able : V(i) < 0 /\ policy = "FASTEST"
    BY <1>5, <1>6, <2>1
  <2>3. able # {} => policy = "FASTEST" /\ \A i \in able : V(i) < 0
    BY <2>2
  <2> QED
    BY <1>8, <2>3 DEF BestOfThoseAsked, V, able, policy
<1>9. CASE search.best # "null"
  <2>1. \E i \in able : Fleet[i] = search.best /\ \A j \in able : V(j) <= V(i)
    BY <1>6, <1>9
  <2> QED
    BY <1>9, <2>1 DEF BestOfThoseAsked, V, able, policy
<1> QED
  BY <1>8, <1>9

-----------------------------------------------------------------------------
(* The invariant is inductive. *)

LEMMA RecordFailureStep ==
  ASSUME ReputationFits, NEW id, RecordFailure(id)
  PROVE  ReputationFits'
<1> DEFINE rep == GetReputation(id)
           left == IF rep.availability > 10 THEN rep.availability - 10 ELSE 0
           now == [availability |-> left, failures |-> rep.failures + 1,
                   healthy |-> rep.healthy /\ left >= 50]
           Seed(i) == IF i \in DOMAIN Seeds THEN Seeds[i] ELSE 50
           Follows(i, r) ==
             /\ r \in ProviderReputation /\ (r.healthy <=> r.availability >= 50)
             /\ r.availability = 0 \/ r.availability = Seed(i) - 10 * r.failures
<1>1. DOMAIN Seeds \subseteq DOMAIN reputation /\ \A i \in DOMAIN reputation : Follows(i, reputation[i])
  BY DEF ReputationFits, ReputationFollowsFailures
<1>2. /\ rep.availability > 0
      /\ reputation' = [i \in DOMAIN reputation \cup {id} |->
                          IF i = id THEN now ELSE reputation[i]]
  BY DEF RecordFailure
<1>3. \A i : Seed(i) \in 0 .. 100
  BY DEF Seeds
<1>4. Follows(id, rep) \/ (id \notin DOMAIN Seeds
                            /\ rep = [availability |-> 50, failures |-> 0, healthy |-> TRUE])
  BY <1>1 DEF GetReputation
<1>5. rep \in ProviderReputation /\ (rep.healthy <=> rep.availability >= 50)
  <2>1. CASE Follows(id, rep)
    <3> HIDE DEF rep
    <3> QED
      BY <2>1
  <2>2. CASE rep = [availability |-> 50, failures |-> 0, healthy |-> TRUE]
    <3> HIDE DEF rep
    <3> QED
      BY <2>2 DEF ProviderReputation
  <2> QED
    BY <1>4, <2>1, <2>2
<1> HIDE DEF rep
<1>6. Follows(id, now)
  <2>1. /\ rep.availability \in 0 .. 100 /\ rep.failures \in Nat /\ rep.healthy \in BOOLEAN
    BY <1>5 DEF ProviderReputation
  <2>2. left \in 0 .. 90 /\ left = IF rep.availability > 10 THEN rep.availability - 10 ELSE 0
    BY <2>1
  <2>3. rep.availability = 0 \/ rep.availability = Seed(id) - 10 * rep.failures
    <3>1. CASE Follows(id, rep)
      BY <3>1
    <3>2. CASE id \notin DOMAIN Seeds
               /\ rep = [availability |-> 50, failures |-> 0, healthy |-> TRUE]
      BY <3>2
    <3> QED
      BY <1>4, <3>1, <3>2
  <2> HIDE DEF left, Seed
  <2>4. left = 0 \/ left = Seed(id) - 10 * (rep.failures + 1)
    BY <1>2, <1>3, <2>1, <2>2, <2>3
  <2>5. (rep.healthy /\ left >= 50) <=> left >= 50
    BY <1>5, <2>1, <2>2
  <2>6. now \in ProviderReputation
    BY <2>1, <2>2 DEF ProviderReputation
  <2>7. (now.healthy <=> now.availability >= 50)
    BY <2>5
  <2> QED
    BY <2>4, <2>6, <2>7
<1> HIDE DEF now
<1>7. \A i \in DOMAIN reputation' : Follows(i, reputation'[i])
  BY <1>1, <1>2, <1>6
<1> QED
  BY <1>1, <1>2, <1>7 DEF ReputationFits, ReputationFollowsFailures

LEMMA PlanningInvStep == PlanningInv /\ [PlanningNext]_pvars => PlanningInv'
<1> SUFFICES ASSUME PlanningInv, [PlanningNext]_pvars PROVE PlanningInv'
  OBVIOUS
<1>0. PlannerInv /\ SearchFits /\ ReputationFits
  BY DEF PlanningInv
<1>1. UNCHANGED <<registered, plan>> => PlannerInv'
  <2> SUFFICES ASSUME UNCHANGED <<registered, plan>> PROVE PlannerInv'
    OBVIOUS
  <2>1. registry' = registry /\ object' = object /\ candidates' = candidates /\ UNCHANGED plan
    BY DEF registered, plan
  <2>2. SimulationsFit' /\ RankingFits'
    BY <1>0, <2>1, PlanUnchanged DEF PlannerInv
  <2>3. RegistryFits' /\ RoutesFit(candidates, DOMAIN object)'
    BY <1>0, <2>1 DEF PlannerInv, RegistryFits, RoutesFit
  <2> QED
    BY <2>2, <2>3 DEF PlannerInv
<1>2. UNCHANGED <<capability, search>> => SearchFits'
  BY <1>0 DEF SearchFits
<1>3. UNCHANGED reputation => ReputationFits'
  BY <1>0 DEF ReputationFits, ReputationFollowsFailures
<1>4. CASE PlannerNext
  <2>1. UNCHANGED <<capability, search, reputation>>
    BY <1>4 DEF PlannerNext, Register, GenerateRoutes, Simulate, RankRoutes
  <2>2. PlannerInv'
    BY <1>0, <1>4, RegisterStep, GenerateRoutesStep, SimulateStep, RankRoutesStep DEF PlannerNext
  <2> QED
    BY <1>2, <1>3, <2>1, <2>2 DEF PlanningInv
<1>5. CASE RouterNext
  <2>1. UNCHANGED <<registered, plan, reputation>>
    BY <1>5 DEF RouterNext, CapabilityChanges, FindBestProvider, GetCapabilities, UseProvider
  <2>2. SearchFits'
    BY <1>0, <1>5, CapabilityChangesStep, FindBestProviderStep, GetCapabilitiesStep,
       UseProviderStep DEF RouterNext
  <2> QED
    BY <1>1, <1>3, <2>1, <2>2 DEF PlanningInv
<1>6. CASE ReputationNext
  <2>1. UNCHANGED <<registered, plan, capability, search>>
    BY <1>6 DEF ReputationNext, RecordFailure
  <2>2. ReputationFits'
    BY <1>0, <1>6, RecordFailureStep DEF ReputationNext
  <2> QED
    BY <1>1, <1>2, <2>1, <2>2 DEF PlanningInv
<1>7. CASE UNCHANGED pvars
  <2>1. UNCHANGED <<registered, plan, capability, search, reputation>>
    BY <1>7 DEF pvars, registered, plan
  <2> QED
    BY <1>1, <1>2, <1>3, <2>1 DEF PlanningInv
<1> QED
  BY <1>4, <1>5, <1>6, <1>7 DEF PlanningNext

LEMMA PlanningInvHolds == PlanningSpec => []PlanningInv
BY PlanningInvInit, PlanningInvStep, PTL DEF PlanningSpec

(* For any catalogue, fleet and requests, however registrations, quotes    *)
(* and capabilities change between the awaits: the ranking is the sorted   *)
(* list of the fully quoted routes, the provider found is the best of      *)
(* those able when asked, and a reputation follows the failures recorded.  *)
THEOREM ProvidersAreJudgedRightly == PlanningSpec => []ProvidersAreJudged
<1>1. PlanningInv => ProvidersAreJudged
  BY RankedIsQuoted, BestIsBest DEF PlanningInv, ReputationFits, ProvidersAreJudged
<1> QED
  BY <1>1, PlanningInvHolds, PTL

(* The hop a simulation asks next is always of a registered provider: the  *)
(* failure "not found" of simulate is never returned for a generated route. *)
HopsAreFound ==
  \A i \in DOMAIN candidates :
    ~Simulated(i) => candidates[i][Len(quotes[i]) + 1] \in DOMAIN object

(* What a simulation has added up is the sum of the quotes it received.    *)
QuotesAddUp ==
  \A i \in DOMAIN candidates :
    /\ TotalCost(i) = Total(Fees(quotes[i]), DOMAIN quotes[i])
    /\ TotalTimeMs(i) = Total(Times(quotes[i]), DOMAIN quotes[i])

(* Every hop of a generated route is found, whatever is registered while   *)
(* it is simulated, and a route costs and takes what its hops do.          *)
THEOREM SimulationsAreSound == PlanningSpec => [](HopsAreFound /\ QuotesAddUp)
<1>1. ASSUME PlannerInv PROVE HopsAreFound
  <2> SUFFICES ASSUME NEW i \in DOMAIN candidates, ~Simulated(i)
               PROVE  candidates[i][Len(quotes[i]) + 1] \in DOMAIN object
    BY DEF HopsAreFound
  <2>1. /\ candidates[i] \in Seq(DOMAIN object) /\ quotes[i] \in Seq(Quotes)
        /\ Len(quotes[i]) <= Len(candidates[i]) /\ Len(quotes[i]) # Len(candidates[i])
    BY <1>1 DEF PlannerInv, RoutesFit, SimulationsFit, SimulationFits, Simulated
  <2>2. Len(quotes[i]) + 1 \in 1 .. Len(candidates[i])
    BY <2>1
  <2> QED
    BY <2>1, <2>2
<1>2. PlannerInv => QuotesAddUp
  BY DEF PlannerInv, SimulationsFit, SimulationFits, QuotesAddUp, TotalCost, TotalTimeMs
<1>3. PlanningInv => HopsAreFound /\ QuotesAddUp
  BY <1>1, <1>2 DEF PlanningInv
<1> QED
  BY <1>3, PlanningInvHolds, PTL
=============================================================================
