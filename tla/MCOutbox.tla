------------------------------- MODULE MCOutbox -------------------------------
(* Two writers and two overlapping polls; a handler subscribed through the   *)
(* bus and one at the broker.  With one client a writer or a poll can find the pool   *)
(* empty, and with two faults a publish can fail for good.                   *)
EXTENDS Outbox

MCConsumers == <<"bus", "broker">>
=============================================================================
