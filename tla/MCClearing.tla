------------------------------ MODULE MCClearing ------------------------------
(* A ring of three parties that does not cancel out, one obligation to       *)
(* oneself, and two cycles; a limit that some items fit and others do not.   *)
EXTENDS Clearing

Owes(id, s, d, a) == [id |-> id, source |-> s, destination |-> d, amount |-> a]

MCObligations ==
  {Owes(1, "A", "B", 3), Owes(2, "B", "C", 2), Owes(3, "C", "A", 1), Owes(4, "A", "A", 1)}

MCLimits == {[maximum |-> 2, emergency |-> 3]}
=============================================================================
