----------------------------- MODULE MCCompliance -----------------------------
(* Amounts on both sides of every threshold, two watchlists and two          *)
(* analytics providers of any opinion, features that make the AI reject,     *)
(* review and approve, and rules of each kind.                               *)
EXTENDS Compliance

Condition(field, operator, value) == [field |-> field, operator |-> operator, value |-> value]
Rule(logic, conditions, action) ==
  [logic |-> logic, conditions |-> conditions, action |-> action, enabled |-> TRUE]

MCInputs ==
  [amount : {5000, 9500, 10000, 60000}, country : {"US", "HIGH_RISK_COUNTRY"},
   lists : {<<"CLEAR", "MATCH">>, <<"REVIEW", "CLEAR">>, <<"BLOCK", "CLEAR">>},
   wallet : {Absent, <<0, 100>>, <<80, 20>>},
   features : {{"age"}, {"age", "velocity", "volume"}, {"velocity", "volume", "countries"}},
   aiUp : BOOLEAN]

MCRules ==
  {Rule("AND", <<Condition("riskScore", "gt", 34), Condition("amount", "gte", 5000)>>, "REVIEW"),
   Rule("OR", <<Condition("fraudScore", "gt", 50), Condition("amlScore", "gte", 50)>>, "BLOCK"),
   Rule("NOT", <<Condition("senderCountry", "in", {"US"})>>, "REVIEW")}
=============================================================================
