---------------------------- MODULE WalletPostgres ----------------------------
(***************************************************************************)
(* The PostgreSQL repositories (src/src/infrastructure/repositories/       *)
(* postgres): one wallet row, its holds and the ledger entries, under      *)
(* calls that run at the same time, each in a connection of its own.       *)
(*                                                                         *)
(* A step is one SQL statement.  PostgreSQL runs it at READ COMMITTED: a   *)
(* query sees what is committed, an UPDATE waits for the row's lock and    *)
(* then works on the row as it was committed last, and a CHECK of the      *)
(* schema that fails ends the transaction.  A connection may break before  *)
(* a statement, or after the database has executed it and before its       *)
(* answer: the call throws either way.  The calls are those of             *)
(* WalletService.reserveFunds and releaseFunds and of LedgerService.       *)
(***************************************************************************)
EXTENDS Integers, FiniteSets, Totals

CONSTANTS
  Calls,      \* calls of the services, each made once
  Amounts,    \* amounts a caller asks for
  Funding,    \* the wallet's available balance before the calls
  Entries,    \* entries that one recordEntries call inserts
  None        \* no call

ASSUME PostgresAssumption ==
  /\ IsFiniteSet(Calls) /\ None \notin Calls
  /\ Amounts \subseteq Int /\ Funding \in Nat /\ Entries \in Nat \ {0}

VARIABLES
  wallet,     \* the committed row: [available, locked]
  holds,      \* calls whose hold row is committed
  released,   \* holds with a released_at, committed
  entries,    \* committed ledger entries of each call
  walletLock, holdLock,   \* which transaction has updated the row and not ended
  pc,         \* where each call is
  job         \* what each call does: [kind, amount, hold, sent]

vars == <<wallet, holds, released, entries, walletLock, holdLock, pc, job>>

Kinds == {"reserve", "release", "record"}
Releasing == {"read", "marked", "refunded"}
Open == {"inserted", "moved", "recording"} \cup Releasing

\* The calls by what their committed statements did.  Of a call that is Untold
\* the last answer was lost: like one that threw, it ends with an error.
HeldOnce == {"held", "onceHeld", "heldUntold"}
HeldTwice == {"reserved", "movedUntold"}
GaveBack == {"released", "releasedUntold"}
Recorded == {"recorded", "recordedUntold"}
Ended == {"refused", "threw", "onceHeld", "heldUntold"} \cup HeldTwice \cup GaveBack \cup Recorded

Jobs == [kind : Kinds, amount : Amounts \cup {0}, hold : Calls, sent : 0..Entries]

TypeOK ==
  /\ wallet \in [available : Nat, locked : Nat]
  /\ holds \subseteq Calls /\ released \subseteq holds
  /\ entries \in [Calls -> 0..Entries]
  /\ walletLock \in Calls \cup {None} /\ holdLock \in [Calls -> Calls \cup {None}]
  /\ pc \in [Calls -> Open \cup Ended \cup {"new", "checked", "held"}]
  /\ job \in [Calls -> Jobs \cup {None}]
  /\ \A c \in Calls : pc[c] # "new" => job[c] \in Jobs
  /\ \A c \in Calls : walletLock = c => pc[c] \in {"moved", "refunded"}

Init ==
  /\ wallet = [available |-> Funding, locked |-> 0]
  /\ holds = {} /\ released = {} /\ entries = [c \in Calls |-> 0]
  /\ walletLock = None /\ holdLock = [c \in Calls |-> None]
  /\ pc = [c \in Calls |-> "new"]
  /\ job = [c \in Calls |-> None]

At(c, from) == pc[c] = from
Goto(c, to) == pc' = [pc EXCEPT ![c] = to]
Rows == <<wallet, holds, released, entries>>
Locks == <<walletLock, holdLock>>

\* The row after moving an amount from available to locked, or back if negative.
Moved(row, amount) == [available |-> row.available - amount, locked |-> row.locked + amount]
ValidBalances(row) == row.available >= 0 /\ row.locked >= 0

Unlocked(c) ==
  /\ walletLock' = IF walletLock = c THEN None ELSE walletLock
  /\ holdLock' = [h \in Calls |-> IF holdLock[h] = c THEN None ELSE holdLock[h]]

\* A connection that goes back to the pool with its transaction open.
ReleaseOnly(c) == Goto(c, "threw") /\ UNCHANGED <<Rows, Locks, job>>

\* A statement failed or the connection broke before the COMMIT was executed:
\* nothing of the transaction stays.
Rollback(c) == Goto(c, "threw") /\ Unlocked(c) /\ UNCHANGED <<Rows, job>>

-----------------------------------------------------------------------------
(* WalletService.reserveFunds *)

Begin(c, kind, amount, hold, to) ==
  /\ At(c, "new")
  /\ job' = [job EXCEPT ![c] = [kind |-> kind, amount |-> amount, hold |-> hold, sent |-> 0]]
  /\ Goto(c, to)
  /\ UNCHANGED <<Rows, Locks>>

CheckBalance(c, amount) ==
  Begin(c, "reserve", amount, c, IF wallet.available >= amount THEN "checked" ELSE "refused")

\* The hold row, or an error: no connection, an amount that is not positive, or a transaction
\* id that is no UUID, as are all of those of PaymentOrchestrator.
InsertHold(c) ==
  /\ At(c, "checked")
  /\ \/ job[c].amount > 0 /\ Goto(c, "inserted") /\ UNCHANGED <<Rows, Locks, job>>
     \/ Rollback(c)

\* The UPDATE if it did not wait for the row.
MoveWithoutLock(c) ==
  /\ At(c, "inserted")
  /\ IF ValidBalances(Moved(wallet, job[c].amount))
     THEN Goto(c, "moved") /\ walletLock' = c /\ UNCHANGED <<Rows, holdLock, job>>
     ELSE Rollback(c)

MoveToLocked(c) ==
  /\ At(c, "inserted") /\ walletLock = None
  /\ IF ValidBalances(Moved(wallet, job[c].amount))
     THEN Goto(c, "moved") /\ walletLock' = c /\ UNCHANGED <<Rows, holdLock, job>>
     ELSE Rollback(c)

\* The balances as the caller saw them, written back.
CommitHoldStale(c) ==
  /\ At(c, "moved")
  /\ wallet' = Moved([available |-> Funding, locked |-> 0], job[c].amount)
  /\ holds' = holds \cup {c}
  /\ Goto(c, "held") /\ Unlocked(c)
  /\ UNCHANGED <<released, entries, job>>

\* The COMMIT is answered, or its answer is lost and the call ends with an error.
CommitHold(c) ==
  /\ At(c, "moved")
  /\ wallet' = Moved(wallet, job[c].amount)
  /\ holds' = holds \cup {c}
  /\ \E to \in {"held", "heldUntold"} : Goto(c, to)
  /\ Unlocked(c)
  /\ UNCHANGED <<released, entries, job>>

\* reserveFunds moves the amount once more, in a statement of its own, which may
\* take effect and lose its answer.
UpdateBalances(c) ==
  /\ At(c, "held") /\ walletLock = None
  /\ LET row == Moved(wallet, job[c].amount)
     IN  \/ ValidBalances(row) /\ wallet' = row /\ \E to \in HeldTwice : Goto(c, to)
         \/ ~ValidBalances(row) /\ wallet' = wallet /\ Goto(c, "onceHeld")
  /\ UNCHANGED <<holds, released, entries, Locks, job>>

-----------------------------------------------------------------------------
(* WalletService.releaseFunds and commitFunds *)

\* The row is read without a lock: two calls can both find the hold open.
ReadHold(c, h) ==
  /\ h \in holds
  /\ Begin(c, "release", job[h].amount, h, IF h \in released THEN "refused" ELSE "read")

MarkReleased(c) ==
  /\ At(c, "read") /\ holdLock[job[c].hold] = None
  /\ holdLock' = [holdLock EXCEPT ![job[c].hold] = c]
  /\ Goto(c, "marked")
  /\ UNCHANGED <<Rows, walletLock, job>>

MoveBack(c) ==
  /\ At(c, "marked") /\ walletLock = None
  /\ IF ValidBalances(Moved(wallet, -job[c].amount))
     THEN Goto(c, "refunded") /\ walletLock' = c /\ UNCHANGED <<Rows, holdLock, job>>
     ELSE Rollback(c)

CommitRelease(c) ==
  /\ At(c, "refunded")
  /\ wallet' = Moved(wallet, -job[c].amount)
  /\ released' = released \cup {job[c].hold}
  /\ \E to \in GaveBack : Goto(c, to)
  /\ Unlocked(c)
  /\ UNCHANGED <<holds, entries, job>>

-----------------------------------------------------------------------------
(* LedgerService.createProvisionalEntries and recordCrossCurrencyEntries *)

StartRecording(c, amount) == Begin(c, "record", amount, c, "recording")

\* An INSERT, or an error: an unknown account, an id that is no UUID, an amount
\* that is not positive.
InsertEntry(c) ==
  /\ At(c, "recording") /\ job[c].sent < Entries
  /\ \/ /\ job[c].amount > 0
        /\ job' = [job EXCEPT ![c].sent = @ + 1]
        /\ UNCHANGED <<Rows, Locks, pc>>
     \/ Rollback(c)

CommitEntries(c) ==
  /\ At(c, "recording") /\ job[c].sent = Entries
  /\ entries' = [entries EXCEPT ![c] = Entries]
  /\ \E to \in Recorded : Goto(c, to)
  /\ UNCHANGED <<wallet, holds, released, Locks, job>>

\* updateEntryStatus: the rule of the schema keeps ledger_entries from changing,
\* and PostgreSQL refuses UPDATE ... RETURNING under such a rule.
UpdateEntryStatus(c) ==
  /\ At(c, "new")
  /\ Goto(c, "threw")
  /\ job' = [job EXCEPT ![c] = [kind |-> "record", amount |-> 0, hold |-> c, sent |-> 0]]
  /\ UNCHANGED <<Rows, Locks>>

-----------------------------------------------------------------------------
\* The connection of an open transaction breaks, or that for the second movement
\* of reserveFunds does, which leaves the hold and the first movement.
ConnectionLost(c) ==
  \/ pc[c] \in Open /\ Rollback(c)
  \/ At(c, "held") /\ Goto(c, "onceHeld") /\ UNCHANGED <<Rows, Locks, job>>

Statement(c) ==
  \/ InsertHold(c) \/ MoveToLocked(c) \/ CommitHold(c) \/ UpdateBalances(c)
  \/ MarkReleased(c) \/ MoveBack(c) \/ CommitRelease(c)
  \/ InsertEntry(c) \/ CommitEntries(c)

Call(c) ==
  \/ \E amount \in Amounts : CheckBalance(c, amount) \/ StartRecording(c, amount)
  \/ \E h \in Calls : ReadHold(c, h)
  \/ UpdateEntryStatus(c)

Next == \E c \in Calls : Call(c) \/ Statement(c) \/ ConnectionLost(c)

Spec == Init /\ [][Next]_vars

\* A call that has begun goes on: its statements are executed once they can be.
FairSpec == Spec /\ \A c \in Calls : WF_vars(Statement(c))

-----------------------------------------------------------------------------
\* How often the amount of a call's hold has been moved to locked for good.
Moves(c) == CASE pc[c] \in HeldOnce -> 1 [] pc[c] \in HeldTwice -> 2 [] OTHER -> 0

\* What each call moved to locked for good, and what it moved back.
moved == [c \in Calls |-> IF Moves(c) > 0 THEN Moves(c) * job[c].amount ELSE 0]
returned == [c \in Calls |-> IF pc[c] \in GaveBack THEN job[c].amount ELSE 0]

\* The rows are what the calls that have ended did, whichever overlap, are rolled
\* back or lose their connection: no balance update is lost.  A call that
\* returned had its whole effect.  One that threw had none, with two exceptions:
\* reserveFunds leaves its hold and one movement if only its second movement
\* fails, and a call whose last answer was lost has had the effect of that
\* statement in full.
OutcomesMatchRows ==
  /\ TypeOK
  /\ wallet.locked + Total(returned, Calls) = Total(moved, Calls)
  /\ wallet.available + wallet.locked = Funding
  /\ holds = {c \in Calls : Moves(c) > 0}
  /\ released = {h \in Calls : \E c \in Calls : pc[c] \in GaveBack /\ job[c].hold = h}
  /\ \A c \in Calls : entries[c] = IF pc[c] \in Recorded THEN Entries ELSE 0

\* What the rows show of each call.
Effect(c) ==
  IF c \in holds
  THEN [kind |-> IF pc[c] \in HeldTwice THEN "heldTwice" ELSE "held", amount |-> job[c].amount]
  ELSE IF pc[c] \in GaveBack THEN [kind |-> "gaveBack", amount |-> job[c].amount]
  ELSE IF entries[c] > 0 THEN [kind |-> "recorded", amount |-> entries[c]]
  ELSE [kind |-> "none", amount |-> 0]

\* The hold that a release found open.
Found(c) == IF pc[c] \in Releasing \cup GaveBack THEN job[c].hold ELSE None

Serial == INSTANCE SerialWallet WITH
  effect <- [c \in Calls |-> Effect(c)],
  open   <- holds \ released,
  found  <- [c \in Calls |-> Found(c)]

\* However the statements of calls interleave at READ COMMITTED, with balances
\* checked early and connections that break, the rows change as if the calls ran
\* one after the other, but for one thing that SerialWallet names: releases that
\* overlap may all have found their hold open, and each gives its amount back.
RunsInTurn == Serial!Spec

\* A call that has begun ends: calls wait for the rows of others, never for each
\* other, and a transaction that fails gives its rows back.
EveryCallEnds == \A c \in Calls : pc[c] # "new" ~> pc[c] \in Ended

=============================================================================
