------------------------------- MODULE Clearing -------------------------------
(***************************************************************************)
(* The clearing house: ClearingHouse with MultiLevelNetting and its        *)
(* ReportingEngine, CompressionEngine, and ExposureLimitManager.           *)
(*                                                                         *)
(* ClearingHouse calls the first two; a desk is the caller of the others:  *)
(* it compresses what the finished cycles produced, reserves exposure to   *)
(* the receiver of every compressed item, and then confirms or releases    *)
(* it.  Ingestions and cycles interleave at every await of a publish.      *)
(***************************************************************************)
EXTENDS Integers, FiniteSets, Totals

CONSTANTS
  Parties,       \* sources and destinations
  Obligations,   \* [id, source, destination, amount]; one currency
  Cycles,        \* calls of triggerNettingCycle
  Limits         \* limits the operator may set: [maximum, emergency]

ASSUME ClearingAssumption ==
  /\ IsFiniteSet(Parties) /\ IsFiniteSet(Obligations) /\ IsFiniteSet(Cycles)
  /\ \A o \in Obligations :
       /\ o.source \in Parties /\ o.destination \in Parties /\ o.amount \in Nat \ {0}
       /\ \A x \in Obligations : x.id = o.id => x = o
  /\ \A l \in Limits : l.maximum \in Nat /\ l.emergency \in Nat

VARIABLES
  validating,    \* obligations whose ingestion awaits its event
  unnetted,      \* unnettedObligations
  ingested,      \* every obligation that was put there
  cycle,         \* each cycle: [state, batch, net]
  volume,        \* ReportingEngine: [gross, net]
  compressed,    \* cycles whose net obligations were compressed
  items,         \* compressed items: [from, source, destination, netAmount]
  limit,         \* each party's exposure limit, or NoLimit
  reservation    \* items that asked for capacity: [item, state, counted]

house == <<validating, unnetted, ingested, cycle, volume>>
cvars == <<house, compressed, items, limit, reservation>>

NoLimit == [maximum |-> -1, emergency |-> -1, current |-> 0, reserved |-> 0]

NetObligation == [source : Parties, destination : Parties, amount : Nat \ {0}]

CompressedItem ==
  [from : SUBSET Cycles, source : Parties, destination : Parties, netAmount : Nat \ {0}]

ClearingTypeOK ==
  /\ validating \cup unnetted \cup ingested \subseteq Obligations
  /\ cycle \in [Cycles -> [state : {"new", "started", "netted", "done"},
                          batch : SUBSET Obligations, net : SUBSET NetObligation]]
  /\ volume \in [gross : Nat, net : Nat]
  /\ compressed \subseteq Cycles
  /\ items \subseteq CompressedItem
  /\ limit \in [Parties -> {NoLimit} \cup
                  [maximum : Nat, emergency : Nat, current : Int, reserved : Int]]
  /\ reservation \subseteq
       [item : items, state : {"refused", "reserved", "confirmed", "released"}, counted : BOOLEAN]

ClearingInit ==
  /\ validating = {} /\ unnetted = {} /\ ingested = {}
  /\ cycle = [c \in Cycles |-> [state |-> "new", batch |-> {}, net |-> {}]]
  /\ volume = [gross |-> 0, net |-> 0]
  /\ compressed = {} /\ items = {} /\ reservation = {}
  /\ limit = [p \in Parties |-> NoLimit]

Sum(S) == Total([x \in S |-> x.amount], S)

-----------------------------------------------------------------------------
(* Netting.                                                                *)

Owed(S, p) == Sum({x \in S : x.destination = p})
Owing(S, p) == Sum({x \in S : x.source = p})

(* A party's balance after the loop over the batch.  Both balances are read *)
(* before either is written, so an obligation to oneself only credits.      *)
NetBalance(batch, p) == Owed(batch, p) - Owing({o \in batch : o.destination # p}, p)

Debts(batch) == [p \in {x \in Parties : NetBalance(batch, x) < 0} |-> -NetBalance(batch, p)]
Credits(batch) == [p \in {x \in Parties : NetBalance(batch, x) > 0} |-> NetBalance(batch, p)]

(* The sort is stable: among equals the party that the batch named first.   *)
Rankings == {r \in [Parties -> 1 .. Cardinality(Parties)] :
               \A p, q \in Parties : r[p] = r[q] => p = q}

(* Those who come before a party: the largest amount first.                 *)
Ahead(amount, rank, p) ==
  {q \in DOMAIN amount :
     \/ amount[q] > amount[p]
     \/ amount[q] = amount[p] /\ rank[q] < rank[p]}

(* Debtors and creditors are matched from the largest down.  Laid end to    *)
(* end, the amounts of each side cut the units that change hands into       *)
(* spans; a debtor pays a creditor the units that their spans share.        *)
Span(amount, rank, p) ==
  LET start == Total(amount, Ahead(amount, rank, p)) IN (start + 1) .. (start + amount[p])

Shared(batch, rank, p, q) ==
  Span(Debts(batch), rank, p) \cap Span(Credits(batch), rank, q)

EveryObligation(batch, rank) ==
  {[source |-> o.source, destination |-> o.destination, amount |-> o.amount] : o \in batch}

NetObligations(batch, rank) ==
  {[source |-> m[1], destination |-> m[2],
    amount |-> Cardinality(Shared(batch, rank, m[1], m[2]))] :
     m \in {x \in (DOMAIN Debts(batch)) \X (DOMAIN Credits(batch)) :
              Shared(batch, rank, x[1], x[2]) # {}}}

-----------------------------------------------------------------------------
(* ClearingHouse.                                                          *)

(* ingestObligation awaits the event before the obligation joins the list.  *)
BeginIngestion(o) ==
  /\ o \notin validating \cup ingested
  /\ validating' = validating \cup {o}
  /\ UNCHANGED <<unnetted, ingested, cycle, volume, compressed, items, limit, reservation>>

Ingest(o) ==
  /\ o \in validating
  /\ validating' = validating \ {o}
  /\ unnetted' = unnetted \cup {o} /\ ingested' = ingested \cup {o}
  /\ volume' = [volume EXCEPT !.gross = @ + o.amount]
  /\ UNCHANGED <<cycle, compressed, items, limit, reservation>>

TriggerWithoutTaking(c) ==
  /\ cycle[c].state = "new" /\ unnetted # {}
  /\ cycle' = [cycle EXCEPT ![c].state = "started", ![c].batch = unnetted]
  /\ UNCHANGED <<validating, unnetted, ingested, volume, compressed, items, limit, reservation>>

(* triggerNettingCycle takes the whole list before it first awaits.         *)
TriggerNettingCycle(c) ==
  /\ cycle[c].state = "new" /\ unnetted # {}
  /\ cycle' = [cycle EXCEPT ![c].state = "started", ![c].batch = unnetted]
  /\ unnetted' = {}
  /\ UNCHANGED <<validating, ingested, volume, compressed, items, limit, reservation>>

(* net, between its two events.                                             *)
Net(c) ==
  /\ cycle[c].state = "started"
  /\ \E rank \in Rankings :
       cycle' = [cycle EXCEPT ![c].state = "netted",
                              ![c].net = NetObligations(cycle[c].batch, rank)]
  /\ UNCHANGED <<validating, unnetted, ingested, volume, compressed, items, limit, reservation>>

Finish(c) ==
  /\ cycle[c].state = "netted"
  /\ cycle' = [cycle EXCEPT ![c].state = "done"]
  /\ volume' = [volume EXCEPT !.net = @ + Sum(cycle[c].net)]
  /\ UNCHANGED <<validating, unnetted, ingested, compressed, items, limit, reservation>>

-----------------------------------------------------------------------------
(* The desk.                                                               *)

(* compress: the items of one source and one destination become one.  An    *)
(* item carries the cycle it came from, as its id does.                     *)
Produced(from) == UNION {{c} \X cycle[c].net : c \in from}

Compress(from) ==
  LET parties(x) == <<x[2].source, x[2].destination>>
      groups == {parties(x) : x \in Produced(from)}
  IN  {[from |-> from, source |-> g[1], destination |-> g[2],
        netAmount |-> Total([x \in Produced(from) |-> x[2].amount],
                            {x \in Produced(from) : parties(x) = g})] : g \in groups}

CompressFinished ==
  LET from == {c \in Cycles : cycle[c].state = "done"} \ compressed
  IN  /\ from # {}
      /\ items' = items \cup Compress(from) /\ compressed' = compressed \cup from
      /\ UNCHANGED <<house, limit, reservation>>

(* setLimit, once for a party; what was granted before is not known to it.  *)
SetLimit(p, l) ==
  /\ limit[p] = NoLimit
  /\ limit' = [limit EXCEPT ![p] = [maximum |-> l.maximum, emergency |-> l.emergency,
                                    current |-> 0, reserved |-> 0]]
  /\ UNCHANGED <<house, compressed, items, reservation>>

EmergencyAllowed(p, amount) ==
  \/ limit[p] = NoLimit
  \/ limit[p].current + limit[p].reserved + amount <= limit[p].emergency

(* checkCapacity: no limit allows everything; the emergency limit is only   *)
(* told apart in the reason.  Nothing ever sets the projected exposure.     *)
Allowed(p, amount) ==
  \/ limit[p] = NoLimit
  \/ limit[p].current + limit[p].reserved + amount <= limit[p].maximum

(* reserveCapacity: check and reservation before the first await.           *)
ReserveCapacity(i) ==
  LET p == i.destination
      counted == limit[p] # NoLimit
  IN  /\ i \in items /\ \A r \in reservation : r.item # i
      /\ \/ /\ Allowed(p, i.netAmount)
            /\ reservation' = reservation \cup
                 {[item |-> i, state |-> "reserved", counted |-> counted]}
            /\ limit' = IF counted THEN [limit EXCEPT ![p].reserved = @ + i.netAmount] ELSE limit
         \/ /\ ~Allowed(p, i.netAmount)
            /\ reservation' = reservation \cup
                 {[item |-> i, state |-> "refused", counted |-> FALSE]}
            /\ UNCHANGED limit
      /\ UNCHANGED <<house, compressed, items>>

Close(r, state) ==
  /\ r.state = "reserved"
  /\ reservation' = (reservation \ {r}) \cup {[r EXCEPT !.state = state]}
  /\ UNCHANGED <<house, compressed, items>>

(* confirmCapacity and releaseCapacity do as they are told.                 *)
ConfirmCapacity(r) ==
  LET p == r.item.destination
  IN  /\ Close(r, "confirmed")
      /\ limit' = IF limit[p] = NoLimit THEN limit
                  ELSE [limit EXCEPT ![p].reserved = @ - r.item.netAmount,
                                     ![p].current = @ + r.item.netAmount]

ReleaseCapacity(r) ==
  LET p == r.item.destination
  IN  /\ Close(r, "released")
      /\ limit' = IF limit[p] = NoLimit THEN limit
                  ELSE [limit EXCEPT ![p].reserved = @ - r.item.netAmount]

ClearingNext ==
  \/ \E o \in Obligations : BeginIngestion(o) \/ Ingest(o)
  \/ \E c \in Cycles : TriggerNettingCycle(c) \/ Net(c) \/ Finish(c)
  \/ CompressFinished
  \/ \E p \in Parties, l \in Limits : SetLimit(p, l)
  \/ \E i \in items : ReserveCapacity(i)
  \/ \E r \in reservation : ConfirmCapacity(r) \/ ReleaseCapacity(r)

ClearingSpec == ClearingInit /\ [][ClearingNext]_cvars

-----------------------------------------------------------------------------
CyclesIn(states) == {c \in Cycles : cycle[c].state \in states}

(* What a party is to be paid, and what it is to pay, by the obligations in *)
(* the list, in a batch under way, in the net obligations and in the        *)
(* compressed items.                                                        *)
Receivable(p) ==
  Owed(unnetted, p)
    + Total([c \in Cycles |-> Owed(cycle[c].batch, p)], CyclesIn({"started"}))
    + Total([c \in Cycles |-> Owed(cycle[c].net, p)], CyclesIn({"netted", "done"}) \ compressed)
    + Total([i \in items |-> i.netAmount], {i \in items : i.destination = p})

Payable(p) ==
  Owing(unnetted, p)
    + Total([c \in Cycles |-> Owing(cycle[c].batch, p)], CyclesIn({"started"}))
    + Total([c \in Cycles |-> Owing(cycle[c].net, p)], CyclesIn({"netted", "done"}) \ compressed)
    + Total([i \in items |-> i.netAmount], {i \in items : i.source = p})

(* Every party's position in the house is that of all the obligations that  *)
(* were taken in, wherever they are now, with cycles that overlap and       *)
(* obligations that come in between.  An obligation to oneself that was     *)
(* netted breaks this, and is left out.                                     *)
PositionsPreserved ==
  (\A c \in Cycles : \A o \in cycle[c].batch : o.source # o.destination) =>
    \A p \in Parties : Receivable(p) - Payable(p) = Owed(ingested, p) - Owing(ingested, p)

(* After a cycle nobody both pays and is paid, nobody pays itself, and      *)
(* there are fewer payments than parties: for every batch, those with       *)
(* obligations to oneself too.                                              *)
PayersNeverReceive ==
  \A c \in Cycles :
    LET net == cycle[c].net
        payers == {n.source : n \in net}
        payees == {n.destination : n \in net}
    IN  /\ payers \cap payees = {}
        /\ net = {} \/ Cardinality(net) < Cardinality(payers \cup payees)

(* Netting never adds volume: the netting ratio of the report stays between *)
(* 0 and 1, whatever overlaps, and the report agrees with the cycles.       *)
VolumeNeverGrows ==
  /\ volume.net <= volume.gross
  /\ volume.net = Total([c \in Cycles |-> Sum(cycle[c].net)], CyclesIn({"done"}))

(* What a cycle finds is reduced, and the report says so.                   *)
CyclesReduce == ClearingTypeOK /\ PayersNeverReceive /\ VolumeNeverGrows

(* The reservations of exposure to a party, and the amount of those that    *)
(* are in a state.                                                          *)
ReservedOn(p) == {r \in reservation : r.item.destination = p}
AmountIn(state, p) ==
  Total([r \in reservation |-> r.item.netAmount], {r \in ReservedOn(p) : r.state = state})

(* While no capacity was granted before its limit was set, the books of a   *)
(* limit are its open and its confirmed reservations, and stay within the   *)
(* maximum.                                                                 *)
LimitKept ==
  \A p \in {x \in Parties : limit[x] # NoLimit} :
    (\A r \in ReservedOn(p) : r.counted \/ r.state = "refused") =>
      /\ limit[p].reserved = AmountIn("reserved", p)
      /\ limit[p].current = AmountIn("confirmed", p)
      /\ limit[p].current + limit[p].reserved <= limit[p].maximum

=============================================================================
