------------------------------- MODULE Gateway -------------------------------
(***************************************************************************)
(* The demonstration gateway (apps/api-gateway): an HTTP server that keeps *)
(* users, quotes and orders in memory and loses them when it restarts.     *)
(*                                                                         *)
(* Each handler runs to its end without a pause.  It takes a request out   *)
(* of net and puts its answer in the same exchange.  auth is the header    *)
(* the request was sent with; the other fields of an exchange are the      *)
(* sender's.  Amounts are pounds, destination amounts paise.               *)
(***************************************************************************)
EXTENDS Integers, FiniteSets, Sequences

CONSTANTS
  Emails, Passwords,
  Amounts,           \* amounts a customer asks a quote for, at least 10
  Nothing,           \* no token, quote, order or answer
  Refused,           \* an answer other than 200
  MaxUsers, MaxQuotes, MaxOrders   \* bounds: identifiers handed out

OrderRecord == [id : Nat, user : 1 .. MaxUsers, quote : Nat, amount : Nat, dest : Int]

ASSUME GatewayAssumption ==
  /\ Nothing # Refused /\ Nothing \notin Nat /\ Nothing \notin OrderRecord
  /\ MaxUsers \in Nat /\ Amounts \subseteq Nat

VARIABLES
  users,     \* set of [email, password, id]
  quotes,    \* set of [id, amount, dest]
  orders,    \* set of [id, user, quote, amount, dest]; quote is kept for the properties
  issued,    \* identifiers handed out of each kind: a counter and the time, never used again
  net        \* exchanges under way

gatewayVars == <<users, quotes, orders, issued>>

GatewayInit ==
  /\ users = {} /\ quotes = {} /\ orders = {} /\ net = {}
  /\ issued = [users |-> 0, quotes |-> 0, orders |-> 0]

\* Math.round((amount - 2.99) * 110.25 * 100) / 100, in paise.
Converted(amount) == ((100 * amount - 299) * 11025 + 50) \div 100

Unanswered(m) == m \in net /\ m.answer = Nothing
Answer(m, a) == net' = (net \ {m}) \cup {[m EXCEPT !.answer = a]}

User(email) == {u \in users : u.email = email}

\* The identifier of a user is the time in milliseconds: two registrations in
\* one millisecond get the same.
UserIds == {n \in {issued.users, issued.users + 1} : n \in 1..MaxUsers}

Register(m, id) ==
  /\ users' = (users \ User(m.body.email))
                \cup {[email |-> m.body.email, password |-> m.body.password, id |-> id]}
  /\ issued' = [issued EXCEPT !.users = id]
  /\ Answer(m, [id |-> id])
  /\ UNCHANGED <<quotes, orders>>

Signup(m) ==
  /\ Unanswered(m) /\ m.kind = "signup"
  /\ \/ User(m.body.email) # {} /\ Answer(m, Refused) /\ UNCHANGED gatewayVars
     \/ User(m.body.email) = {} /\ \E id \in UserIds : Register(m, id)

\* An unknown email or another password registers the account anew.
Login(m) ==
  /\ Unanswered(m) /\ m.kind = "login"
  /\ \/ /\ \A u \in User(m.body.email) : u.password # m.body.password
        /\ \E id \in UserIds : Register(m, id)
     \/ \E u \in User(m.body.email) : /\ u.password = m.body.password
                                 /\ Answer(m, [id |-> u.id])
                                 /\ UNCHANGED gatewayVars

Authenticated(m) == m.auth # Nothing

Reject(m) ==
  /\ Unanswered(m) /\ m.kind \notin {"signup", "login"} /\ ~Authenticated(m)
  /\ Answer(m, Refused)
  /\ UNCHANGED gatewayVars

PostQuote(m) ==
  /\ Unanswered(m) /\ m.kind = "quote" /\ Authenticated(m)
  /\ issued.quotes < MaxQuotes
  /\ LET q == [id |-> issued.quotes + 1, amount |-> m.body.amount,
                dest |-> Converted(m.body.amount)]
     IN  quotes' = quotes \cup {q} /\ Answer(m, q)
  /\ issued' = [issued EXCEPT !.quotes = @ + 1]
  /\ UNCHANGED <<users, orders>>

Order(m, amount, dest) ==
  [id |-> issued.orders + 1, user |-> m.auth, quote |-> m.body.quote,
   amount |-> amount, dest |-> dest]

\* The order is priced by the quote it names, or anew when the quote is unknown;
\* nothing tells a repeated request from a new one.
PostRemittance(m) ==
  /\ Unanswered(m) /\ m.kind = "transfer" /\ Authenticated(m)
  /\ issued.orders < MaxOrders
  /\ LET known == {q \in quotes : q.id = m.body.quote}
         o == IF known = {} THEN Order(m, m.body.amount, Converted(m.body.amount))
              ELSE LET q == CHOOSE q \in known : TRUE IN Order(m, q.amount, q.dest)
     IN  orders' = orders \cup {o} /\ Answer(m, o)
  /\ issued' = [issued EXCEPT !.orders = @ + 1]
  /\ UNCHANGED <<users, quotes>>

\* The order shown for an identifier that no order has.
DemoOrder(id) == [id |-> id, user |-> Nothing, quote |-> Nothing, amount |-> 500, dest |-> 5481072]

GetRemittance(m) ==
  /\ Unanswered(m) /\ m.kind = "detail" /\ Authenticated(m)
  /\ LET found == {o \in orders : o.id = m.body.order}
     IN  Answer(m, IF found = {} THEN DemoOrder(m.body.order) ELSE CHOOSE o \in found : TRUE)
  /\ UNCHANGED gatewayVars

ListRemittances(m) ==
  /\ Unanswered(m) /\ m.kind = "list" /\ Authenticated(m)
  /\ Answer(m, [orders |-> {o \in orders : o.user = m.auth}])
  /\ UNCHANGED gatewayVars

\* The process ends and starts again: its memory is gone, and requests it has
\* not answered are not answered any more.
Restart ==
  /\ users # {} \/ quotes # {} \/ orders # {}
  /\ users' = {} /\ quotes' = {} /\ orders' = {}
  /\ net' = {m \in net : m.answer # Nothing}
               \cup {[m EXCEPT !.answer = Refused] : m \in {n \in net : n.answer = Nothing}}
  /\ UNCHANGED issued

=============================================================================
