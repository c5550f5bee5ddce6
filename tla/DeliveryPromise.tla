--------------------------- MODULE DeliveryPromise ---------------------------
(***************************************************************************)
(* What the outbox promises those who write and those who consume: a fact  *)
(* that was recorded is told to every handler at least once before it is   *)
(* dropped from the queue, unless it was given up openly; none is told     *)
(* that was not recorded; and nothing that was recorded, told or dropped   *)
(* is ever taken back.                                                     *)
(***************************************************************************)
CONSTANTS
  Facts,      \* what may be recorded
  Handlers    \* those who want to hear of it

VARIABLES
  recorded,   \* facts that are visible to everyone
  confirmed,  \* facts whose writer was told so
  heard,      \* <<handler, fact>>: the handler was told of the fact
  givenUp,    \* facts that some handler may miss, and somebody was told
  dropped     \* facts that nobody will be told of again by the queue

vars == <<recorded, confirmed, heard, givenUp, dropped>>

Init ==
  /\ recorded = {} /\ confirmed = {}
  /\ heard = {} /\ givenUp = {} /\ dropped = {}

(* A writer may be left in doubt, and is not told of what was not recorded. *)
Record(f) ==
  /\ f \notin recorded /\ recorded' = recorded \cup {f}
  /\ confirmed' \in {confirmed, confirmed \cup {f}}
  /\ UNCHANGED <<heard, givenUp, dropped>>

(* A handler is told, perhaps again, or the fact is given up, or both: the *)
(* handler that was told last could not cope.                              *)
Tell(f) ==
  /\ f \in recorded
  /\ heard' \in {heard} \cup {heard \cup {<<h, f>>} : h \in Handlers}
  /\ givenUp' \in {givenUp, givenUp \cup {f}}
  /\ UNCHANGED <<recorded, confirmed, dropped>>

Drop(facts) ==
  /\ \A f \in facts : f \in recorded /\ (f \in givenUp \/ \A h \in Handlers : <<h, f>> \in heard)
  /\ dropped' = dropped \cup facts
  /\ UNCHANGED <<recorded, confirmed, heard, givenUp>>

Next ==
  \/ \E f \in Facts : Record(f) \/ Tell(f)
  \/ \E facts \in SUBSET Facts : Drop(facts)

Spec == Init /\ [][Next]_vars
=============================================================================
