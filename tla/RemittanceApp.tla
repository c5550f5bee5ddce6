---------------------------- MODULE RemittanceApp ----------------------------
(***************************************************************************)
(* One browser window of the remittance application (apps/remittance-web)  *)
(* and the gateway it talks to.                                            *)
(*                                                                         *)
(* view is what the page that is mounted keeps in its useState hooks.  A   *)
(* page that is left forgets it, and the answers to its requests change    *)
(* nothing any more ("mounted" turns FALSE); login and signup belong to    *)
(* AuthProvider, which lives as long as the document ("open").  The state, *)
(* the local storage and the default header hold the same token except in  *)
(* the first effects after a reload (see Reload), so token stands for all. *)
(***************************************************************************)
EXTENDS Gateway

CONSTANTS MaxRestarts,   \* bound: restarts of the gateway
          MaxPending     \* bound: exchanges under way when the next is asked for

VARIABLES
  token,     \* the session: a user's identifier, or Nothing
  view,      \* the mounted page and its state
  failed,    \* history: quotes whose transfer was reported as failed
  restarts   \* counts restarts, for the bound

client == <<token, view, failed, restarts>>
avars == <<gatewayVars, net, client>>

Pages == {"landing", "login", "signup", "dashboard", "send", "tx"}
Protected == {"dashboard", "send", "tx"}

\* The initial state of a page; order is the id in the path of "tx".
NewView(page, order) ==
  [page |-> page, order |-> order, step |-> 1, loading |-> FALSE,
   quote |-> Nothing, receipt |-> Nothing, shown |-> Nothing]

Request(kind, auth, body) ==
  [kind |-> kind, auth |-> auth, body |-> body, mounted |-> TRUE, open |-> TRUE, answer |-> Nothing]

\* What the effects of a page ask for when it is mounted.
OnMount(page, order, auth) ==
  CASE page = "dashboard" -> {Request("list", auth, Nothing)}
    [] page = "tx" -> {Request("detail", auth, [order |-> order])}
    [] OTHER -> {}

\* Of the requests of a page that is gone only those that change what someone
\* sees later are kept; the rest is answered or lost without effect.
Lasting(msgs) == {m \in msgs : m.kind \in {"login", "signup", "transfer"}}
Left(msgs) == {[m EXCEPT !.mounted = FALSE] : m \in Lasting(msgs)}
Closed(msgs) == {[m EXCEPT !.mounted = FALSE, !.open = FALSE] : m \in Lasting(msgs)}

\* Another page is mounted; the router leaves the page alone when it stays.
Open(page, order, auth, msgs) ==
  IF view.page = page /\ view.order = order
  THEN view' = view /\ net' = msgs
  ELSE /\ view' = NewView(page, order)
       /\ net' = Left(msgs) \cup OnMount(page, order, auth)

Go(page, order) ==
  /\ Open(page, order, token, net)
  /\ UNCHANGED <<gatewayVars, token, failed, restarts>>

LandingPage == view.page = "landing" /\ \E page \in {"login", "signup"} : Go(page, Nothing)
LoginPage == view.page = "login" /\ \E page \in {"landing", "signup"} : Go(page, Nothing)
SignupPage == view.page = "signup" /\ \E page \in {"landing", "login"} : Go(page, Nothing)

Ask(request) ==
  /\ ~view.loading /\ Cardinality(net) < MaxPending
  /\ view' = [view EXCEPT !.loading = TRUE]
  /\ net' = net \cup {request}
  /\ UNCHANGED <<gatewayVars, token, failed, restarts>>

Credentials(kind, email, password) ==
  Request(kind, token, [email |-> email, password |-> password])

SubmitLogin(email, password) == view.page = "login" /\ Ask(Credentials("login", email, password))
SubmitSignup(email, password) == view.page = "signup" /\ Ask(Credentials("signup", email, password))

Answered(m, kinds) == m \in net /\ m.kind \in kinds /\ m.answer # Nothing

\* login or signup returned: the session changes even if the form is gone, and
\* navigate leaves whatever page there is by now.
SignedIn(m) ==
  /\ Answered(m, {"login", "signup"}) /\ m.answer # Refused /\ m.open
  /\ token' = m.answer.id
  /\ Open("dashboard", Nothing, m.answer.id, net \ {m})
  /\ UNCHANGED <<gatewayVars, failed, restarts>>

DashboardHistory(order) == /\ view.page = "dashboard" /\ view.shown # Nothing
                           /\ order \in view.shown.orders /\ Go("tx", order.id)
DashboardSend == view.page = "dashboard" /\ Go("send", Nothing)

Logout ==
  /\ view.page = "dashboard"
  /\ token' = Nothing
  /\ Open("landing", Nothing, Nothing, net)
  /\ UNCHANGED <<gatewayVars, failed, restarts>>

BackToDashboard == view.page \in {"send", "tx"} /\ Go("dashboard", Nothing)
TrackTransfer == view.page = "send" /\ view.step = 3 /\ Go("tx", view.receipt.id)

-----------------------------------------------------------------------------
(* SendMoney: amount, review, success *)

GetQuote(amount) ==
  /\ view.page = "send" /\ view.step = 1
  /\ Ask(Request("quote", token, [amount |-> amount]))

Transfer == [quote |-> view.quote.id, amount |-> view.quote.amount, again |-> FALSE]

\* A button that is not disabled while its request is under way.
ConfirmSendAgain ==
  /\ view.page = "send" /\ view.step = 2
  /\ view' = [view EXCEPT !.loading = TRUE]
  /\ \E again \in BOOLEAN :
       net' = net \cup {Request("transfer", token, [Transfer EXCEPT !.again = again])}
  /\ UNCHANGED <<gatewayVars, token, failed, restarts>>

ConfirmSend ==
  /\ view.page = "send" /\ view.step = 2
  /\ Ask(Request("transfer", token, Transfer))

BackToAmount ==
  /\ view.page = "send" /\ view.step = 2
  /\ view' = [view EXCEPT !.step = 1]
  /\ UNCHANGED <<gatewayVars, net, token, failed, restarts>>

Accept(m, new) ==
  /\ view' = IF m.mounted THEN new ELSE view
  /\ net' = net \ {m}
  /\ UNCHANGED <<gatewayVars, token, failed, restarts>>

\* setLoading(false) inside the catch block only.
QuoteReceivedLoading(m) ==
  /\ Answered(m, {"quote"}) /\ m.answer # Refused
  /\ Accept(m, [view EXCEPT !.quote = m.answer, !.step = 2])

QuoteReceived(m) ==
  /\ Answered(m, {"quote"}) /\ m.answer # Refused
  /\ Accept(m, [view EXCEPT !.quote = m.answer, !.step = 2, !.loading = FALSE])

TransferReceived(m) ==
  /\ Answered(m, {"transfer"}) /\ m.answer # Refused
  /\ Accept(m, [view EXCEPT !.receipt = m.answer, !.step = 3, !.loading = FALSE])

\* The list of the dashboard, or the order of a detail page.
PageReceived(m) ==
  /\ Answered(m, {"list", "detail"}) /\ m.answer # Refused
  /\ Accept(m, [view EXCEPT !.shown = m.answer])

\* An exchange that the gateway refused or that the network lost, before or
\* after the gateway handled it.  Pages keep silent about a list or a detail.
RequestFailed(m) ==
  /\ m \in net
  /\ view' = IF m.mounted THEN [view EXCEPT !.loading = FALSE] ELSE view
  /\ failed' = IF m.kind = "transfer" /\ m.open THEN failed \cup {m.body.quote} ELSE failed
  /\ net' = net \ {m}
  /\ UNCHANGED <<gatewayVars, token, restarts>>

\* The document is loaded again, at any path.  The effects of the page run
\* before the one of AuthProvider that restores the header, so that its first
\* request carries none.
Reload(page, order) ==
  /\ LET shown == IF page \in Protected /\ token = Nothing THEN "login" ELSE page
     IN  /\ view' = NewView(shown, IF shown = "tx" THEN order ELSE Nothing)
         /\ net' = Closed(net) \cup OnMount(shown, order, Nothing)
  /\ UNCHANGED <<gatewayVars, token, failed, restarts>>

GatewayRestarts ==
  /\ restarts < MaxRestarts /\ Restart /\ restarts' = restarts + 1
  /\ UNCHANGED <<token, view, failed>>

GatewayHandles(m) ==
  \/ Signup(m) \/ Login(m) \/ Reject(m) \/ PostQuote(m)
  \/ PostRemittance(m) \/ GetRemittance(m) \/ ListRemittances(m)

AppInit ==
  /\ GatewayInit
  /\ token = Nothing /\ view = NewView("landing", Nothing) /\ failed = {} /\ restarts = 0

AppNext ==
  \/ LandingPage \/ LoginPage \/ SignupPage \/ DashboardSend \/ Logout
  \/ BackToDashboard \/ TrackTransfer \/ ConfirmSend \/ BackToAmount
  \/ \E email \in Emails, password \in Passwords :
       SubmitLogin(email, password) \/ SubmitSignup(email, password)
  \/ \E o \in orders \cup {DemoOrder(1)} : DashboardHistory(o)
  \/ \E amount \in Amounts : GetQuote(amount)
  \/ \E m \in net : GatewayHandles(m) /\ UNCHANGED client
  \/ \E m \in net :
       \/ SignedIn(m) \/ QuoteReceived(m) \/ TransferReceived(m)
       \/ PageReceived(m) \/ RequestFailed(m)
  \/ \E page \in Pages, order \in 1..MaxOrders : Reload(page, IF page = "tx" THEN order ELSE Nothing)
  \/ GatewayRestarts

AppSpec == AppInit /\ [][AppNext]_avars

-----------------------------------------------------------------------------
UserOrNone == 1..MaxUsers \cup {Nothing}

\* The hooks of a page and the exchanges fit together: a page has what its step
\* shows, and its buttons are disabled exactly while the exchange they wait for
\* is under way, so that no order of answers, failures, page changes and reloads
\* leaves a form disabled for good.
AppTypeOK ==
  /\ token \in UserOrNone
  /\ view.page \in Protected => token # Nothing
  /\ view.page = "send" => /\ view.step >= 2 => view.quote # Nothing
                           /\ view.step = 3 => view.receipt # Nothing
  /\ \A m \in net : m.kind \in {"list", "detail", "quote"} => m.mounted
  /\ view.loading <=> \E m \in net : m.mounted /\ m.kind \notin {"list", "detail"}

\* The receipt of a transfer has the amounts of the quote that was reviewed,
\* even when the gateway forgot the quote in a restart before the confirmation.
ReceiptMatchesReview ==
  view.page = "send" /\ view.step = 3 =>
    /\ view.receipt.quote = view.quote.id
    /\ view.receipt.amount = view.quote.amount /\ view.receipt.dest = view.quote.dest

\* The gateway cannot tell a repeated transfer from a new one: a quote has two
\* orders only if the customer was told that the first one had failed.  No
\* double click, page change or reload sends a transfer twice.
NoSilentDuplicate ==
  \A o, p \in orders : o.quote = p.quote /\ o # p => o.quote \in failed

\* The customer is told the truth about the transfers that were made: the amounts
\* of each, and that each was made once.
TransfersAreTold == ReceiptMatchesReview /\ NoSilentDuplicate
=============================================================================
