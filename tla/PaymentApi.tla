------------------------------ MODULE PaymentApi ------------------------------
(***************************************************************************)
(* The gateway of packages/api-gateway over the routes of RestRouter: one  *)
(* address's requests through the rate limiter, the idempotency manager    *)
(* and a handler.  A request that a client sends again is another call     *)
(* with the same key.  Everything between two awaits of handleRequest is   *)
(* one step; the records and buckets are in memory and end with the        *)
(* process.                                                                *)
(***************************************************************************)
EXTENDS Integers, FiniteSets

CONSTANTS
  ApiCalls,    \* calls of handleRequest
  Keys,        \* values of the idempotency-key header
  NoKey,       \* ... which may be missing
  Paths,       \* method and path of a request
  Registered,  \* ... and those that RestRouter registers
  Capacity,    \* of a token bucket
  Refill,      \* tokens that come with a tick
  MaxTicks,    \* bound on the ticks of a life
  MaxLives     \* bound on the lives of the process

ASSUME ApiAssumption ==
  /\ Capacity \in Nat /\ Refill \in Nat /\ MaxTicks \in Nat /\ MaxLives \in Nat \ {0}
  /\ Registered \subseteq Paths /\ Paths # {} /\ NoKey \notin Keys /\ IsFiniteSet(ApiCalls)

VARIABLES
  life,        \* how often the process has been started
  bucket,      \* tokens left to the address
  ticks,       \* refills in this life
  records,     \* the idempotency record of each key
  calls        \* what each call asked for and how far it is

papi == <<life, bucket, ticks, records, calls>>

NoRecord == [status |-> "none", response |-> "none"]
Waiting == {"admitted", "acquired", "known", "running"}
StatusCodes == {"200", "401", "404", "409", "429", "500", "threw"}

Call ==
  [state : Waiting \cup StatusCodes \cup {"new", "lost"}, life : Nat, path : Paths,
   key : Keys \cup {NoKey}, authorised : BOOLEAN, response : ApiCalls \cup {"none"}, ran : BOOLEAN]

\* A call before it is made: what it will ask for, and the answer it will have.
NewCall ==
  [state |-> "new", life |-> 0, path |-> CHOOSE p \in Paths : TRUE, key |-> NoKey,
   authorised |-> FALSE, response |-> "none", ran |-> FALSE]

ApiInit ==
  /\ life = 1 /\ bucket = Capacity /\ ticks = 0
  /\ records = [k \in Keys |-> NoRecord]
  /\ calls = [c \in ApiCalls |-> NewCall]

Goes(c, state) == calls' = [calls EXCEPT ![c].state = state]
HasKey(c) == calls[c].key # NoKey
Key(c) == calls[c].key

\* consume refills by the time since the last call; here the tokens come when
\* the time passes, which consume cannot tell from it.
RefillBucket ==
  /\ ticks < MaxTicks /\ ticks' = ticks + 1
  /\ bucket' = IF bucket + Refill > Capacity THEN Capacity ELSE bucket + Refill
  /\ UNCHANGED <<life, records, calls>>

Allowed == bucket >= 1

Consume(c) ==
  /\ calls[c].state = "new" /\ Allowed /\ bucket' = bucket - 1
  /\ \E path \in Paths, key \in Keys \cup {NoKey}, authorised \in BOOLEAN :
       calls' = [calls EXCEPT ![c] = [@ EXCEPT !.state = "admitted", !.life = life, !.path = path,
                                               !.key = key, !.authorised = authorised]]
  /\ UNCHANGED <<life, ticks, records>>

TooMany(c) ==
  /\ calls[c].state = "new" /\ ~Allowed
  /\ calls' = [calls EXCEPT ![c].state = "429", ![c].life = life]
  /\ UNCHANGED <<life, bucket, ticks, records>>

Unauthorised(c) ==
  /\ calls[c].state = "admitted" /\ ~calls[c].authorised
  /\ Goes(c, "401") /\ UNCHANGED <<life, bucket, ticks, records>>

AcquireUnlessDone(c) ==
  /\ calls[c].state = "admitted" /\ calls[c].authorised /\ HasKey(c)
  /\ Goes(c, IF records[Key(c)].status = "COMPLETED" THEN "known" ELSE "acquired")
  /\ records' = IF records[Key(c)].status = "COMPLETED" THEN records
                ELSE [records EXCEPT ![Key(c)].status = "STARTED"]
  /\ UNCHANGED <<life, bucket, ticks>>

\* acquire: a key that was never seen is taken; one that is under way throws out
\* of handleRequest, since the call stands before its try; any other is known,
\* whether its request succeeded or failed.
Acquire(c) ==
  /\ calls[c].state = "admitted" /\ calls[c].authorised /\ HasKey(c)
  /\ LET status == records[Key(c)].status
     IN  /\ Goes(c, CASE status = "none" -> "acquired" [] status = "STARTED" -> "threw"
                      [] OTHER -> "known")
         /\ records' = IF status = "none" THEN [records EXCEPT ![Key(c)].status = "STARTED"]
                       ELSE records
  /\ UNCHANGED <<life, bucket, ticks>>

\* The response recorded for the key, or "Request in progress" if there is none.
GetResponse(c) ==
  /\ calls[c].state = "known"
  /\ LET response == records[Key(c)].response
     IN  calls' = [calls EXCEPT ![c].state = IF response = "none" THEN "409" ELSE "200",
                                ![c].response = response]
  /\ UNCHANGED <<life, bucket, ticks, records>>

Fail(c) ==
  IF HasKey(c) THEN records' = [records EXCEPT ![Key(c)].status = "FAILED"]
  ELSE UNCHANGED records

Complete(c) ==
  IF HasKey(c)
  THEN records' = [records EXCEPT ![Key(c)] = [status |-> "COMPLETED", response |-> c]]
  ELSE UNCHANGED records

\* Without a key the routing follows the authorisation in the same step.
ReadyToRoute(c) ==
  \/ calls[c].state = "acquired"
  \/ calls[c].state = "admitted" /\ calls[c].authorised /\ ~HasKey(c)

\* Paths are compared as they are written: no parameter of a route ever matches.
HasRoute(c) == calls[c].path \in Registered

NotFound(c) ==
  /\ ReadyToRoute(c) /\ ~HasRoute(c)
  /\ Fail(c) /\ Goes(c, "404") /\ UNCHANGED <<life, bucket, ticks>>

CallHandler(c) ==
  /\ ReadyToRoute(c) /\ HasRoute(c)
  /\ calls' = [calls EXCEPT ![c].state = "running", ![c].ran = TRUE]
  /\ UNCHANGED <<life, bucket, ticks, records>>

HandlerReturns(c) ==
  /\ calls[c].state = "running" /\ Complete(c)
  /\ calls' = [calls EXCEPT ![c].state = "200", ![c].response = c]
  /\ UNCHANGED <<life, bucket, ticks>>

\* The handlers of RestRouter do not throw; the services they stand for may.
HandlerThrows(c) ==
  /\ calls[c].state = "running" /\ Fail(c)
  /\ Goes(c, "500") /\ UNCHANGED <<life, bucket, ticks>>

\* The process restarts: calls under way get no answer, and no record is left.
ApiRestart ==
  /\ life < MaxLives /\ life' = life + 1
  /\ calls' = [c \in ApiCalls |->
       IF calls[c].state \in Waiting THEN [calls[c] EXCEPT !.state = "lost"] ELSE calls[c]]
  /\ records' = [k \in Keys |-> NoRecord] /\ bucket' = Capacity /\ ticks' = 0

ApiNext ==
  \/ RefillBucket \/ ApiRestart
  \/ \E c \in ApiCalls :
       \/ Consume(c) \/ TooMany(c) \/ Unauthorised(c) \/ Acquire(c)
       \/ GetResponse(c) \/ NotFound(c)
       \/ CallHandler(c) \/ HandlerReturns(c) \/ HandlerThrows(c)

ApiSpec == ApiInit /\ [][ApiNext]_papi

-----------------------------------------------------------------------------
ApiTypeOK ==
  /\ life \in 1..MaxLives /\ bucket \in 0..Capacity /\ ticks \in 0..MaxTicks
  /\ records \in [Keys -> [status : {"none", "STARTED", "COMPLETED", "FAILED"},
                           response : ApiCalls \cup {"none"}]]
  /\ calls \in [ApiCalls -> Call]

Now == {c \in ApiCalls : calls[c].life = life}

\* In one life of the process the handlers run once for a key, however often
\* its request is sent and whatever overlaps; a 200 under a key tells of the
\* very request that ran for it; a key is under way only while the request that
\* took it is, so that none is blocked for good; and an address gets no more
\* than its bucket and what was added to it.
KeysAreKept ==
  /\ ApiTypeOK
  /\ \A c, d \in ApiCalls :
       /\ calls[c].ran /\ calls[d].ran /\ HasKey(c)
       /\ Key(c) = Key(d) /\ calls[c].life = calls[d].life
       => c = d
  /\ \A c \in ApiCalls : calls[c].state = "200" =>
       LET ran == calls[c].response
       IN  /\ calls[ran].ran /\ calls[ran].state = "200"
           /\ Key(ran) = Key(c) /\ calls[ran].life = calls[c].life
  /\ \A k \in Keys : records[k].status = "STARTED" =>
       \E c \in Now : Key(c) = k /\ calls[c].state \in {"acquired", "running"}
  /\ Cardinality({c \in Now : calls[c].state # "429"}) <= Capacity + Refill * ticks
=============================================================================
