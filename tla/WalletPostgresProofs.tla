------------------------ MODULE WalletPostgresProofs ------------------------
(***************************************************************************)
(* Proofs about WalletPostgres for any number of calls, any amounts and    *)
(* any funding.                                                            *)
(*                                                                         *)
(* A transaction that has updated the wallet's row commits a row that was  *)
(* checked when it was updated.  That the check still stands then is not   *)
(* in the row but in its lock, so the inductive invariant says who has the *)
(* lock and what was checked under it.  That the calls run in turn needs,  *)
(* besides, that a release is of the amount of its hold.                   *)
(***************************************************************************)
EXTENDS WalletPostgres, TLAPS

\* Exactly the transactions that have updated the row and not ended hold its lock.
LockIsHeld ==
  \A c \in Calls : walletLock = c <=> pc[c] \in {"moved", "refunded"}

\* The row such a transaction will commit passes the CHECK of the schema.
RowIsChecked ==
  \A c \in Calls :
    /\ pc[c] = "moved" => ValidBalances(Moved(wallet, job[c].amount))
    /\ pc[c] = "refunded" => ValidBalances(Moved(wallet, -job[c].amount))

\* A release works on a hold that is there.
HoldWasRead == \A c \in Calls : pc[c] \in Releasing => job[c].hold \in holds

\* What is moved, or moved back, is a positive amount: that of a hold.
Moving == {"inserted", "moved"} \cup Releasing
MovesPositive ==
  \A c \in Calls :
    pc[c] \in Moving \cup HeldOnce \cup HeldTwice \cup GaveBack => job[c].amount > 0

RowsInv == OutcomesMatchRows /\ LockIsHeld /\ RowIsChecked /\ HoldWasRead /\ MovesPositive

-----------------------------------------------------------------------------
(* What the type of a job says of its parts. *)
LEMMA JobParts ==
  ASSUME TypeOK, NEW c \in Calls, pc[c] # "new"
  PROVE  /\ job[c] \in Jobs /\ job[c].kind \in Kinds
         /\ job[c].amount \in Int /\ job[c].amount \in Amounts \cup {0}
         /\ job[c].hold \in Calls /\ job[c].sent \in 0..Entries
<1>1. job[c] \in Jobs
  BY DEF TypeOK
<1>2. /\ job[c].kind \in Kinds /\ job[c].amount \in Amounts \cup {0}
      /\ job[c].hold \in Calls /\ job[c].sent \in 0..Entries
  <2> HIDE DEF Kinds
  <2> QED
    BY <1>1 DEF Jobs
<1>3. \A a \in Amounts \cup {0} : a \in Int
  BY PostgresAssumption
<1> QED
  BY <1>1, <1>2, <1>3

(* What a call moves is a natural number. *)
LEMMA MovingPositive ==
  ASSUME RowsInv, NEW c \in Calls,
         pc[c] \in Moving \cup HeldOnce \cup HeldTwice \cup GaveBack
  PROVE  job[c].amount \in Nat /\ job[c].amount > 0
<1>1. job[c].amount > 0
  BY DEF RowsInv, MovesPositive
<1>2. pc[c] # "new"
  BY DEF Moving, Releasing, HeldOnce, HeldTwice, GaveBack
<1>3. job[c].amount \in Int
  BY <1>2, JobParts DEF RowsInv, OutcomesMatchRows
<1> QED
  BY <1>1, <1>3

(* What a call moved and returned are natural numbers. *)
LEMMA MovedType ==
  ASSUME RowsInv
  PROVE  /\ \A c \in Calls : moved[c] \in Nat /\ returned[c] \in Nat
         /\ Total(moved, Calls) \in Nat /\ Total(returned, Calls) \in Nat
<1>1. ASSUME NEW c \in Calls PROVE moved[c] \in Nat /\ returned[c] \in Nat
  <2>1. CASE pc[c] \notin HeldOnce \cup HeldTwice \cup GaveBack
    BY <2>1 DEF moved, returned, Moves
  <2>2. CASE pc[c] \in HeldOnce \cup HeldTwice \cup GaveBack
    <3>1. job[c].amount \in Nat
      BY <2>2, MovingPositive
    <3>2. 1 * job[c].amount \in Nat /\ 2 * job[c].amount \in Nat
      BY <3>1
    <3> QED
      BY <3>1, <3>2 DEF moved, returned, Moves
  <2> QED
    BY <2>1, <2>2
<1> QED
  BY <1>1, PostgresAssumption, TotalType

\* Only this call goes on.
OnlyMoves(c) == \A d \in Calls \ {c} : pc'[d] = pc[d] /\ job'[d] = job[d]

(* A sum whose terms change at one call by m changes by m. *)
LEMMA TotalGrows ==
  ASSUME NEW f, NEW g, NEW c \in Calls, NEW m \in Nat,
         \A d \in Calls : f[d] \in Nat,
         \A d \in Calls \ {c} : g[d] = f[d], g[c] = f[c] + m
  PROVE  Total(g, Calls) = Total(f, Calls) + m
<1>1. \A d \in Calls : f[d] \in Nat /\ g[d] \in Nat
  OBVIOUS
<1>2. Total(g, Calls) = Total(f, Calls) - f[c] + g[c]
  BY <1>1, PostgresAssumption, TotalUpdate
<1>3. Total(f, Calls) \in Nat /\ f[c] \in Nat
  BY PostgresAssumption, TotalType
<1> QED
  BY <1>2, <1>3

(* When one call goes on, the sums change by what it changes. *)
LEMMA TotalsMove ==
  ASSUME RowsInv, NEW c \in Calls, OnlyMoves(c),
         NEW m \in Nat, moved'[c] = moved[c] + m, NEW n \in Nat, returned'[c] = returned[c] + n
  PROVE  /\ Total(moved, Calls)' = Total(moved, Calls) + m
         /\ Total(returned, Calls)' = Total(returned, Calls) + n
<1>1. \A d \in Calls : moved[d] \in Nat /\ returned[d] \in Nat
  BY MovedType
<1>2. \A d \in Calls \ {c} : moved'[d] = moved[d] /\ returned'[d] = returned[d]
  BY DEF OnlyMoves, moved, returned, Moves
<1> PICK f, g, h, k : f = moved /\ g = moved' /\ h = returned /\ k = returned'
  OBVIOUS
<1>3. Total(g, Calls) = Total(f, Calls) + m
  BY <1>1, <1>2, TotalGrows
<1>4. Total(k, Calls) = Total(h, Calls) + n
  BY <1>1, <1>2, TotalGrows
<1> QED
  BY <1>3, <1>4

(* A row that passes the CHECK has the type of a row. *)
LEMMA CheckedRow ==
  ASSUME NEW row \in [available : Nat, locked : Nat], NEW m \in Int,
         ValidBalances(Moved(row, m))
  PROVE  /\ Moved(row, m) \in [available : Nat, locked : Nat]
         /\ Moved(row, m).available = row.available - m
         /\ Moved(row, m).locked = row.locked + m
BY DEF ValidBalances, Moved

\* The state of the balances and of the rows, but for its type.
RowsMatch ==
  /\ wallet.locked + Total(returned, Calls) = Total(moved, Calls)
  /\ wallet.available + wallet.locked = Funding
  /\ holds = {c \in Calls : Moves(c) > 0}
  /\ released = {h \in Calls : \E c \in Calls : pc[c] \in GaveBack /\ job[c].hold = h}
  /\ \A c \in Calls : entries[c] = IF pc[c] \in Recorded THEN Entries ELSE 0

(* A step of one call that changes no row keeps the rows right. *)
LEMMA RowsStay ==
  ASSUME RowsInv, NEW c \in Calls, OnlyMoves(c), UNCHANGED Rows,
         pc[c] \in Open \cup {"new", "checked"},
         pc'[c] \in Open \cup {"checked", "refused", "threw"}
  PROVE  RowsMatch'
<1> USE DEF HeldOnce, HeldTwice, GaveBack, Recorded, Releasing, Open
<1>1. moved'[c] = 0 /\ moved[c] = 0 /\ returned'[c] = 0 /\ returned[c] = 0
  BY DEF moved, returned, Moves
<1>2. /\ Total(moved, Calls)' = Total(moved, Calls) + 0
      /\ Total(returned, Calls)' = Total(returned, Calls) + 0
  BY <1>1, TotalsMove
<1>3. Total(moved, Calls) \in Nat /\ Total(returned, Calls) \in Nat
  BY MovedType
<1>4. wallet' = wallet /\ holds' = holds /\ released' = released /\ entries' = entries
  BY DEF Rows
<1>5. holds' = {d \in Calls : Moves(d)' > 0}
  BY <1>4 DEF RowsInv, OutcomesMatchRows, OnlyMoves, Moves
<1>7. released' = {h \in Calls : \E d \in Calls : pc'[d] \in GaveBack /\ job'[d].hold = h}
  BY <1>4 DEF RowsInv, OutcomesMatchRows, OnlyMoves
<1>6. \A d \in Calls : entries'[d] = IF pc'[d] \in Recorded THEN Entries ELSE 0
  BY <1>4 DEF RowsInv, OutcomesMatchRows, OnlyMoves
<1> QED
  BY <1>2, <1>3, <1>4, <1>5, <1>6, <1>7 DEF RowsInv, OutcomesMatchRows, RowsMatch

(* It keeps the invariant when what it says of this call is true. *)
LEMMA CallStays ==
  ASSUME RowsInv, NEW c \in Calls, OnlyMoves(c), UNCHANGED Rows, TypeOK', LockIsHeld',
         pc[c] \in Open \cup {"new", "checked"},
         pc'[c] \in Open \cup {"checked", "refused", "threw"},
         pc'[c] = "moved" => ValidBalances(Moved(wallet, job'[c].amount)),
         pc'[c] = "refunded" => ValidBalances(Moved(wallet, -job'[c].amount)),
         pc'[c] \in Releasing => job'[c].hold \in holds,
         pc'[c] \in Moving => job'[c].amount > 0
  PROVE  RowsInv'
<1>1. wallet' = wallet /\ holds' = holds
  BY DEF Rows
<1>2. RowsMatch'
  BY RowsStay
<1>3. RowIsChecked'
  BY <1>1 DEF RowsInv, RowIsChecked, OnlyMoves, ValidBalances, Moved
<1>4. HoldWasRead'
  BY <1>1 DEF RowsInv, HoldWasRead, OnlyMoves
<1>5. MovesPositive'
  BY DEF RowsInv, MovesPositive, OnlyMoves, Open, HeldOnce, HeldTwice, GaveBack, Releasing, Moving
<1> QED
  BY <1>2, <1>3, <1>4, <1>5 DEF RowsInv, OutcomesMatchRows, RowsMatch

(* The beginning of a call keeps the rows right. *)
LEMMA BeginInv ==
  ASSUME RowsInv, NEW c \in Calls, NEW kind \in Kinds, NEW amount \in Amounts \cup {0},
         NEW hold \in Calls, NEW to \in {"checked", "refused", "read", "recording", "threw"},
         At(c, "new"), Goto(c, to), UNCHANGED <<Rows, Locks>>,
         job' = [job EXCEPT ![c] = [kind |-> kind, amount |-> amount, hold |-> hold, sent |-> 0]],
         to = "read" => hold \in holds /\ amount > 0
  PROVE  RowsInv'
<1> DEFINE new == [kind |-> kind, amount |-> amount, hold |-> hold, sent |-> 0]
<1>1. new \in Jobs
  BY PostgresAssumption DEF Jobs
<1>2. /\ pc \in [Calls -> Open \cup Ended \cup {"new", "checked", "held"}]
      /\ job \in [Calls -> Jobs \cup {None}]
      /\ \A d \in Calls : pc[d] # "new" => job[d] \in Jobs
      /\ pc[c] = "new"
  BY DEF RowsInv, OutcomesMatchRows, TypeOK, At
<1>3. pc' = [pc EXCEPT ![c] = to] /\ job' = [job EXCEPT ![c] = new]
  BY DEF Goto
<1> HIDE DEF new
<1>4. OnlyMoves(c) /\ pc'[c] = to /\ job'[c] = new
  BY <1>2, <1>3 DEF OnlyMoves
<1>5. pc' \in [Calls -> Open \cup Ended \cup {"new", "checked", "held"}]
  BY <1>2, <1>3 DEF Open, Releasing, Ended
<1>6. job' \in [Calls -> Jobs \cup {None}] /\ \A d \in Calls : pc'[d] # "new" => job'[d] \in Jobs
  <2> HIDE DEF Jobs
  <2> QED
    BY <1>1, <1>2, <1>3, <1>4 DEF OnlyMoves
<1>7. LockIsHeld'
  BY <1>2, <1>4 DEF RowsInv, LockIsHeld, Locks, OnlyMoves
<1>8. TypeOK'
  <2>1. UNCHANGED <<wallet, holds, released, entries, walletLock, holdLock>>
    BY DEF Rows, Locks
  <2>2. \A d \in Calls : walletLock' = d => pc'[d] \in {"moved", "refunded"}
    BY <1>7 DEF LockIsHeld
  <2> QED
    BY <1>5, <1>6, <2>1, <2>2 DEF RowsInv, OutcomesMatchRows, TypeOK
<1> QED
  BY <1>2, <1>4, <1>7, <1>8, CallStays DEF Open, Releasing, Moving, new

(* The end of a transaction that changed nothing keeps the rows right. *)
LEMMA RollbackInv ==
  ASSUME RowsInv, NEW c \in Calls, pc[c] \in Open \cup {"checked"}, Rollback(c)
  PROVE  RowsInv'
<1>1. /\ pc \in [Calls -> Open \cup Ended \cup {"new", "checked", "held"}]
      /\ job' = job /\ pc' = [pc EXCEPT ![c] = "threw"]
      /\ UNCHANGED <<wallet, holds, released, entries>>
  BY DEF RowsInv, OutcomesMatchRows, TypeOK, Rollback, Goto, Rows
<1>2. OnlyMoves(c) /\ pc'[c] = "threw"
  BY <1>1 DEF OnlyMoves
<1>3. LockIsHeld'
  BY <1>1, <1>2, PostgresAssumption DEF RowsInv, LockIsHeld, OnlyMoves, Rollback, Unlocked
<1>4. walletLock' \in Calls \cup {None} /\ holdLock' \in [Calls -> Calls \cup {None}]
  BY DEF RowsInv, OutcomesMatchRows, TypeOK, Rollback, Unlocked
<1>5. TypeOK'
  <2>1. pc' \in [Calls -> Open \cup Ended \cup {"new", "checked", "held"}]
    BY <1>1 DEF Open, Releasing, Ended
  <2>2. \A d \in Calls : walletLock' = d => pc'[d] \in {"moved", "refunded"}
    BY <1>3 DEF LockIsHeld
  <2>3. \A d \in Calls : pc'[d] # "new" => job'[d] \in Jobs
    BY <1>1, <1>2 DEF RowsInv, OutcomesMatchRows, TypeOK, OnlyMoves, Open, Releasing
  <2> QED
    BY <1>1, <1>4, <2>1, <2>2, <2>3 DEF RowsInv, OutcomesMatchRows, TypeOK
<1> QED
  BY <1>1, <1>2, <1>3, <1>5, CallStays DEF Rows, Open, Releasing, Moving

(* A step of an open transaction that neither ends it nor changes a row. *)
LEMMA ProceedInv ==
  ASSUME RowsInv, NEW c \in Calls, pc[c] \in Open \cup {"checked"},
         NEW to \in {"inserted", "moved", "marked", "refunded"}, Goto(c, to),
         UNCHANGED <<Rows, job>>,
         holdLock' \in [Calls -> Calls \cup {None}],
         \/ to \notin {"moved", "refunded"} /\ pc[c] \notin {"moved", "refunded"}
            /\ walletLock' = walletLock
         \/ to \in {"moved", "refunded"} /\ walletLock = None /\ walletLock' = c,
         to = "moved" => ValidBalances(Moved(wallet, job[c].amount)),
         to = "refunded" => ValidBalances(Moved(wallet, -job[c].amount)),
         to \in {"marked", "refunded"} => job[c].hold \in holds,
         to \in Moving => job[c].amount > 0
  PROVE  RowsInv'
<1>1. /\ pc \in [Calls -> Open \cup Ended \cup {"new", "checked", "held"}]
      /\ job' = job /\ pc' = [pc EXCEPT ![c] = to]
      /\ UNCHANGED <<wallet, holds, released, entries>>
  BY DEF RowsInv, OutcomesMatchRows, TypeOK, Goto, Rows
<1>2. OnlyMoves(c) /\ pc'[c] = to /\ job'[c] = job[c]
  BY <1>1 DEF OnlyMoves
<1>3. LockIsHeld'
  <2> SUFFICES ASSUME NEW d \in Calls
               PROVE  walletLock' = d <=> pc'[d] \in {"moved", "refunded"}
    BY DEF LockIsHeld
  <2>1. (walletLock = d <=> pc[d] \in {"moved", "refunded"}) /\ None \notin Calls
    BY PostgresAssumption DEF RowsInv, LockIsHeld
  <2>2. d # c => pc'[d] = pc[d]
    BY <1>2 DEF OnlyMoves
  <2> QED
    BY <1>2, <2>1, <2>2
<1>4. TypeOK'
  <2>1. pc' \in [Calls -> Open \cup Ended \cup {"new", "checked", "held"}]
    BY <1>1 DEF Open, Releasing, Ended
  <2>2. \A d \in Calls : walletLock' = d => pc'[d] \in {"moved", "refunded"}
    BY <1>3 DEF LockIsHeld
  <2>3. \A d \in Calls : pc'[d] # "new" => job'[d] \in Jobs
    BY <1>1, <1>2 DEF RowsInv, OutcomesMatchRows, TypeOK, OnlyMoves, Open, Releasing
  <2>4. walletLock' \in Calls \cup {None}
    BY DEF RowsInv, OutcomesMatchRows, TypeOK
  <2> QED
    BY <1>1, <2>1, <2>2, <2>3, <2>4 DEF RowsInv, OutcomesMatchRows, TypeOK
<1> QED
  BY <1>1, <1>2, <1>3, <1>4, CallStays DEF Rows, Open, Releasing, Moving

(* An inserted entry keeps the rows right: it is not committed yet. *)
LEMMA InsertEntryInv ==
  ASSUME RowsInv, NEW c \in Calls, InsertEntry(c)
  PROVE  RowsInv'
<1>1. pc[c] = "recording" /\ job[c].sent < Entries
  BY DEF InsertEntry, At
<1>2. CASE Rollback(c)
  BY <1>1, <1>2, RollbackInv DEF Open
<1>3. CASE job' = [job EXCEPT ![c].sent = @ + 1] /\ UNCHANGED <<Rows, Locks, pc>>
  <2>1. job[c] \in Jobs /\ job[c].sent \in 0..Entries
    BY <1>1, JobParts DEF RowsInv, OutcomesMatchRows
  <2> DEFINE new == [job[c] EXCEPT !.sent = @ + 1]
  <2>2. job[c].sent + 1 \in 0..Entries
    BY <1>1, <2>1, PostgresAssumption
  <2>3. new \in Jobs
    <3> HIDE DEF Kinds
    <3> QED
      BY <2>1, <2>2 DEF Jobs
  <2>4. job \in [Calls -> Jobs \cup {None}] /\ job' = [job EXCEPT ![c] = new]
    BY <1>3 DEF RowsInv, OutcomesMatchRows, TypeOK
  <2> HIDE DEF new
  <2>5. job' \in [Calls -> Jobs \cup {None}] /\ OnlyMoves(c) /\ job'[c] = new
    <3> HIDE DEF Jobs
    <3> QED
      BY <1>3, <2>3, <2>4 DEF OnlyMoves
  <2>6. UNCHANGED <<wallet, holds, released, entries, walletLock, holdLock, pc>>
    BY <1>3 DEF Rows, Locks
  <2>7. TypeOK'
    BY <2>3, <2>5, <2>6 DEF RowsInv, OutcomesMatchRows, TypeOK, OnlyMoves
  <2>8. LockIsHeld'
    BY <2>6 DEF RowsInv, LockIsHeld
  <2> QED
    BY <1>1, <1>3, <2>5, <2>6, <2>7, <2>8, CallStays DEF Open, Releasing, Moving
<1> QED
  BY <1>2, <1>3 DEF InsertEntry

-----------------------------------------------------------------------------
(* Where the call that commits has the lock, no other has it. *)
LEMMA OneHolder ==
  ASSUME RowsInv, NEW c \in Calls, pc[c] \in {"moved", "refunded"} \/ walletLock = None
  PROVE  \A d \in Calls \ {c} : pc[d] \notin {"moved", "refunded"}
BY PostgresAssumption DEF RowsInv, LockIsHeld

(* A hold that is committed is a row, a movement and an outcome at once. *)
LEMMA CommitHoldInv ==
  ASSUME RowsInv, NEW c \in Calls, CommitHold(c)
  PROVE  RowsInv'
<1> USE DEF HeldOnce, HeldTwice, GaveBack, Recorded
<1>0. PICK to \in {"held", "heldUntold"} : Goto(c, to)
  BY DEF CommitHold
<1> DEFINE amount == job[c].amount
<1>1. /\ pc[c] = "moved" /\ wallet' = Moved(wallet, amount) /\ holds' = holds \cup {c}
      /\ pc' = [pc EXCEPT ![c] = to]
      /\ Unlocked(c) /\ UNCHANGED <<released, entries, job>>
  BY <1>0 DEF CommitHold, At, Goto
<1>2. /\ wallet \in [available : Nat, locked : Nat]
      /\ pc \in [Calls -> Open \cup Ended \cup {"new", "checked", "held"}]
  BY DEF RowsInv, OutcomesMatchRows, TypeOK
<1>3. amount \in Nat /\ amount > 0
  BY <1>1, MovingPositive DEF Moving
<1>4. OnlyMoves(c) /\ pc'[c] = to /\ job' = job
  BY <1>1, <1>2 DEF OnlyMoves
<1> HIDE DEF amount
<1>5. /\ wallet' \in [available : Nat, locked : Nat]
      /\ wallet'.available = wallet.available - amount /\ wallet'.locked = wallet.locked + amount
  <2>1. ValidBalances(Moved(wallet, amount))
    BY <1>1 DEF RowsInv, RowIsChecked, amount
  <2> QED
    BY <1>1, <1>2, <1>3, <2>1, CheckedRow
<1>6. LockIsHeld'
  <2>1. walletLock = c /\ walletLock' = None
    BY <1>1 DEF RowsInv, LockIsHeld, Unlocked
  <2>2. \A d \in Calls : pc'[d] \notin {"moved", "refunded"}
    BY <1>1, <1>4, OneHolder DEF OnlyMoves
  <2> QED
    BY <2>1, <2>2, PostgresAssumption DEF LockIsHeld
<1>7. TypeOK'
  <2>1. pc' \in [Calls -> Open \cup Ended \cup {"new", "checked", "held"}]
    BY <1>1, <1>2 DEF Ended
  <2>2. walletLock' \in Calls \cup {None} /\ holdLock' \in [Calls -> Calls \cup {None}]
    BY <1>1 DEF RowsInv, OutcomesMatchRows, TypeOK, Unlocked
  <2>3. \A d \in Calls : walletLock' = d => pc'[d] \in {"moved", "refunded"}
    BY <1>6 DEF LockIsHeld
  <2>4. \A d \in Calls : pc'[d] # "new" => job'[d] \in Jobs
    BY <1>1, <1>4 DEF RowsInv, OutcomesMatchRows, TypeOK, OnlyMoves
  <2> QED
    BY <1>1, <1>5, <2>1, <2>2, <2>3, <2>4 DEF RowsInv, OutcomesMatchRows, TypeOK
<1>8. RowsMatch'
  <2>1. moved[c] = 0 /\ moved'[c] = 0 + amount /\ returned[c] = 0 /\ returned'[c] = 0
    BY <1>1, <1>3, <1>4 DEF moved, returned, Moves, amount
  <2>2. /\ Total(moved, Calls)' = Total(moved, Calls) + amount
        /\ Total(returned, Calls)' = Total(returned, Calls) + 0
    BY <1>3, <1>4, <2>1, TotalsMove
  <2>3. Total(moved, Calls) \in Nat /\ Total(returned, Calls) \in Nat
    BY MovedType
  <2>4. wallet'.locked + Total(returned, Calls)' = Total(moved, Calls)'
    BY <1>2, <1>3, <1>5, <2>2, <2>3 DEF RowsInv, OutcomesMatchRows
  <2>5. wallet'.available + wallet'.locked = Funding
    BY <1>2, <1>3, <1>5 DEF RowsInv, OutcomesMatchRows
  <2>6. holds' = {d \in Calls : Moves(d)' > 0}
    BY <1>1, <1>4 DEF RowsInv, OutcomesMatchRows, OnlyMoves, Moves
  <2>7. \A d \in Calls : entries'[d] = IF pc'[d] \in Recorded THEN Entries ELSE 0
    BY <1>1, <1>4 DEF RowsInv, OutcomesMatchRows, OnlyMoves
  <2>8. released' = {h \in Calls : \E d \in Calls : pc'[d] \in GaveBack /\ job'[d].hold = h}
    BY <1>1, <1>4 DEF RowsInv, OutcomesMatchRows, OnlyMoves
  <2> QED
    BY <2>4, <2>5, <2>6, <2>7, <2>8 DEF RowsMatch
<1>9. RowIsChecked' /\ HoldWasRead'
  BY <1>1, <1>4, OneHolder DEF RowsInv, RowIsChecked, HoldWasRead, OnlyMoves, Releasing
<1>10. MovesPositive'
  BY <1>3, <1>4 DEF RowsInv, MovesPositive, OnlyMoves, amount
<1> QED
  BY <1>6, <1>7, <1>8, <1>9, <1>10 DEF RowsInv, OutcomesMatchRows, RowsMatch

(* A release that is committed returns what its hold moved once. *)
LEMMA CommitReleaseInv ==
  ASSUME RowsInv, NEW c \in Calls, CommitRelease(c)
  PROVE  RowsInv'
<1> USE DEF HeldOnce, HeldTwice, GaveBack, Recorded
<1>0. PICK to \in GaveBack : Goto(c, to)
  BY DEF CommitRelease
<1> DEFINE amount == job[c].amount
<1>1. /\ pc[c] = "refunded" /\ wallet' = Moved(wallet, -amount)
      /\ released' = released \cup {job[c].hold}
      /\ pc' = [pc EXCEPT ![c] = to]
      /\ Unlocked(c) /\ UNCHANGED <<holds, entries, job>>
  BY <1>0 DEF CommitRelease, At, Goto
<1>2. /\ wallet \in [available : Nat, locked : Nat]
      /\ pc \in [Calls -> Open \cup Ended \cup {"new", "checked", "held"}]
  BY DEF RowsInv, OutcomesMatchRows, TypeOK
<1>3. amount \in Nat /\ amount > 0 /\ -amount \in Int
  BY <1>1, MovingPositive DEF Moving, Releasing
<1>4. OnlyMoves(c) /\ pc'[c] = to /\ job' = job
  BY <1>1, <1>2 DEF OnlyMoves
<1> HIDE DEF amount
<1>5. /\ wallet' \in [available : Nat, locked : Nat]
      /\ wallet'.available = wallet.available + amount /\ wallet'.locked = wallet.locked - amount
  <2>1. ValidBalances(Moved(wallet, -amount))
    BY <1>1 DEF RowsInv, RowIsChecked, amount
  <2>2. /\ wallet' \in [available : Nat, locked : Nat]
        /\ wallet'.available = wallet.available - (-amount)
        /\ wallet'.locked = wallet.locked + (-amount)
    BY <1>1, <1>2, <1>3, <2>1, CheckedRow
  <2> QED
    BY <1>2, <1>3, <2>2
<1>6. LockIsHeld'
  <2>1. walletLock = c /\ walletLock' = None
    BY <1>1 DEF RowsInv, LockIsHeld, Unlocked
  <2>2. \A d \in Calls : pc'[d] \notin {"moved", "refunded"}
    BY <1>1, <1>4, OneHolder DEF OnlyMoves
  <2> QED
    BY <2>1, <2>2, PostgresAssumption DEF LockIsHeld
<1>7. TypeOK'
  <2>1. pc' \in [Calls -> Open \cup Ended \cup {"new", "checked", "held"}]
    BY <1>1, <1>2 DEF Ended
  <2>2. walletLock' \in Calls \cup {None} /\ holdLock' \in [Calls -> Calls \cup {None}]
    BY <1>1 DEF RowsInv, OutcomesMatchRows, TypeOK, Unlocked
  <2>3. \A d \in Calls : walletLock' = d => pc'[d] \in {"moved", "refunded"}
    BY <1>6 DEF LockIsHeld
  <2>4. \A d \in Calls : pc'[d] # "new" => job'[d] \in Jobs
    BY <1>1, <1>4 DEF RowsInv, OutcomesMatchRows, TypeOK, OnlyMoves
  <2>5. released' \subseteq holds'
    BY <1>1 DEF RowsInv, OutcomesMatchRows, TypeOK, HoldWasRead, Releasing
  <2> QED
    BY <1>1, <1>5, <2>1, <2>2, <2>3, <2>4, <2>5 DEF RowsInv, OutcomesMatchRows, TypeOK
<1>8. RowsMatch'
  <2>1. moved[c] = 0 /\ moved'[c] = 0 /\ returned[c] = 0 /\ returned'[c] = 0 + amount
    BY <1>1, <1>3, <1>4 DEF moved, returned, Moves, amount
  <2>8. moved'[c] = moved[c] + 0 /\ returned'[c] = returned[c] + amount
    BY <2>1
  <2>9. 0 \in Nat
    OBVIOUS
  <2>2. /\ Total(moved, Calls)' = Total(moved, Calls) + 0
        /\ Total(returned, Calls)' = Total(returned, Calls) + amount
    BY <1>3, <1>4, <2>8, <2>9, TotalsMove
  <2>3. Total(moved, Calls) \in Nat /\ Total(returned, Calls) \in Nat
    BY MovedType
  <2>4. wallet'.locked + Total(returned, Calls)' = Total(moved, Calls)'
    BY <1>2, <1>3, <1>5, <2>2, <2>3 DEF RowsInv, OutcomesMatchRows
  <2>5. wallet'.available + wallet'.locked = Funding
    BY <1>2, <1>3, <1>5 DEF RowsInv, OutcomesMatchRows
  <2>6. holds' = {d \in Calls : Moves(d)' > 0}
    BY <1>1, <1>4 DEF RowsInv, OutcomesMatchRows, OnlyMoves, Moves
  <2>7. \A d \in Calls : entries'[d] = IF pc'[d] \in Recorded THEN Entries ELSE 0
    BY <1>1, <1>4 DEF RowsInv, OutcomesMatchRows, OnlyMoves
  <2>10. released' = {h \in Calls : \E d \in Calls : pc'[d] \in GaveBack /\ job'[d].hold = h}
    <3>1. job[c].hold \in Calls
      BY <1>1, JobParts DEF RowsInv, OutcomesMatchRows
    <3> QED
      BY <1>0, <1>1, <1>4, <3>1 DEF RowsInv, OutcomesMatchRows, OnlyMoves
  <2> QED
    BY <2>4, <2>5, <2>6, <2>7, <2>10 DEF RowsMatch
<1>9. RowIsChecked' /\ HoldWasRead'
  BY <1>1, <1>4, OneHolder DEF RowsInv, RowIsChecked, HoldWasRead, OnlyMoves, Releasing
<1>10. MovesPositive'
  BY <1>3, <1>4 DEF RowsInv, MovesPositive, OnlyMoves, amount
<1> QED
  BY <1>6, <1>7, <1>8, <1>9, <1>10 DEF RowsInv, OutcomesMatchRows, RowsMatch

(* The second movement of reserveFunds is made, and told, or neither. *)
LEMMA UpdateBalancesInv ==
  ASSUME RowsInv, NEW c \in Calls, UpdateBalances(c)
  PROVE  RowsInv'
<1> USE DEF HeldOnce, HeldTwice, GaveBack, Recorded
<1> DEFINE amount == job[c].amount
           row == Moved(wallet, amount)
<1>1. /\ pc[c] = "held" /\ walletLock = None
      /\ \/ ValidBalances(row) /\ wallet' = row /\ \E to \in HeldTwice : pc' = [pc EXCEPT ![c] = to]
         \/ wallet' = wallet /\ pc' = [pc EXCEPT ![c] = "onceHeld"]
      /\ UNCHANGED <<holds, released, entries, walletLock, holdLock, job>>
  BY DEF UpdateBalances, At, Goto, Locks
<1>2. /\ wallet \in [available : Nat, locked : Nat]
      /\ pc \in [Calls -> Open \cup Ended \cup {"new", "checked", "held"}]
  BY DEF RowsInv, OutcomesMatchRows, TypeOK
<1>3. amount \in Nat /\ amount > 0
  BY <1>1, MovingPositive
<1>4. OnlyMoves(c) /\ pc'[c] \in HeldTwice \cup {"onceHeld"} /\ job' = job
  BY <1>1, <1>2 DEF OnlyMoves
<1>5. PICK more \in Nat :
        /\ wallet' \in [available : Nat, locked : Nat]
        /\ wallet'.available = wallet.available - more
        /\ wallet'.locked = wallet.locked + more
        /\ moved'[c] = moved[c] + more
  <2>1. moved[c] = amount
    BY <1>1, <1>3 DEF moved, Moves
  <2>2. CASE ValidBalances(row) /\ wallet' = row /\ \E to \in HeldTwice : pc' = [pc EXCEPT ![c] = to]
    <3>1. pc'[c] \in HeldTwice
      BY <1>2, <2>2
    <3>2. moved'[c] = 2 * amount
      BY <1>3, <1>4, <3>1 DEF moved, Moves
    <3>3. /\ wallet' \in [available : Nat, locked : Nat]
          /\ wallet'.available = wallet.available - amount
          /\ wallet'.locked = wallet.locked + amount
      <4> HIDE DEF amount
      <4> QED
        BY <1>2, <1>3, <2>2, CheckedRow
    <3> HIDE DEF amount
    <3> QED
      BY <1>3, <2>1, <3>2, <3>3
  <2>3. CASE wallet' = wallet /\ pc' = [pc EXCEPT ![c] = "onceHeld"]
    <3>1. pc'[c] = "onceHeld"
      BY <1>2, <2>3
    <3>2. moved'[c] = amount
      BY <1>3, <1>4, <3>1 DEF moved, Moves
    <3>3. wallet'.available = wallet.available - 0 /\ wallet'.locked = wallet.locked + 0
      BY <1>2, <2>3
    <3> HIDE DEF amount
    <3> QED
      BY <1>2, <1>3, <2>1, <2>3, <3>2, <3>3
  <2> QED
    BY <1>1, <2>2, <2>3
<1> HIDE DEF amount, row
<1>6. LockIsHeld'
  BY <1>1, <1>4 DEF RowsInv, LockIsHeld, OnlyMoves
<1>7. TypeOK'
  <2>1. pc' \in [Calls -> Open \cup Ended \cup {"new", "checked", "held"}]
    BY <1>1, <1>2 DEF Ended
  <2>2. \A d \in Calls : walletLock' = d => pc'[d] \in {"moved", "refunded"}
    BY <1>6 DEF LockIsHeld
  <2>3. \A d \in Calls : pc'[d] # "new" => job'[d] \in Jobs
    BY <1>1, <1>4 DEF RowsInv, OutcomesMatchRows, TypeOK, OnlyMoves
  <2> QED
    BY <1>1, <1>5, <2>1, <2>2, <2>3 DEF RowsInv, OutcomesMatchRows, TypeOK
<1>8. RowsMatch'
  <2>1. returned[c] = 0 /\ returned'[c] = 0
    BY <1>1, <1>4 DEF returned
  <2>2. /\ Total(moved, Calls)' = Total(moved, Calls) + more
        /\ Total(returned, Calls)' = Total(returned, Calls) + 0
    BY <1>4, <1>5, <2>1, TotalsMove
  <2>3. Total(moved, Calls) \in Nat /\ Total(returned, Calls) \in Nat
    BY MovedType
  <2>4. wallet'.locked + Total(returned, Calls)' = Total(moved, Calls)'
    BY <1>2, <1>5, <2>2, <2>3 DEF RowsInv, OutcomesMatchRows
  <2>5. wallet'.available + wallet'.locked = Funding
    BY <1>2, <1>5 DEF RowsInv, OutcomesMatchRows
  <2>6. holds' = {d \in Calls : Moves(d)' > 0}
    BY <1>1, <1>4 DEF RowsInv, OutcomesMatchRows, OnlyMoves, Moves
  <2>7. \A d \in Calls : entries'[d] = IF pc'[d] \in Recorded THEN Entries ELSE 0
    BY <1>1, <1>4 DEF RowsInv, OutcomesMatchRows, OnlyMoves
  <2>8. released' = {h \in Calls : \E d \in Calls : pc'[d] \in GaveBack /\ job'[d].hold = h}
    BY <1>1, <1>4 DEF RowsInv, OutcomesMatchRows, OnlyMoves
  <2> QED
    BY <2>4, <2>5, <2>6, <2>7, <2>8 DEF RowsMatch
<1>9. RowIsChecked' /\ HoldWasRead'
  BY <1>1, <1>4, OneHolder DEF RowsInv, RowIsChecked, HoldWasRead, OnlyMoves, Releasing
<1>10. MovesPositive'
  BY <1>3, <1>4 DEF RowsInv, MovesPositive, OnlyMoves, amount
<1> QED
  BY <1>6, <1>7, <1>8, <1>9, <1>10 DEF RowsInv, OutcomesMatchRows, RowsMatch

(* The entries of a call are committed together. *)
LEMMA CommitEntriesInv ==
  ASSUME RowsInv, NEW c \in Calls, CommitEntries(c)
  PROVE  RowsInv'
<1> USE DEF HeldOnce, HeldTwice, GaveBack, Recorded
<1>0. PICK to \in Recorded : Goto(c, to)
  BY DEF CommitEntries
<1>1. /\ pc[c] = "recording" /\ pc' = [pc EXCEPT ![c] = to]
      /\ entries' = [entries EXCEPT ![c] = Entries]
      /\ UNCHANGED <<wallet, holds, released, walletLock, holdLock, job>>
  BY <1>0 DEF CommitEntries, At, Goto, Locks
<1>2. /\ entries \in [Calls -> 0..Entries] /\ Entries \in 0..Entries
      /\ pc \in [Calls -> Open \cup Ended \cup {"new", "checked", "held"}]
  BY PostgresAssumption DEF RowsInv, OutcomesMatchRows, TypeOK
<1>3. OnlyMoves(c) /\ pc'[c] = to /\ entries'[c] = Entries
  BY <1>1, <1>2 DEF OnlyMoves
<1>4. LockIsHeld'
  BY <1>1, <1>3 DEF RowsInv, LockIsHeld, OnlyMoves
<1>5. TypeOK'
  <2>1. pc' \in [Calls -> Open \cup Ended \cup {"new", "checked", "held"}]
    BY <1>1, <1>2 DEF Ended
  <2>2. \A d \in Calls : walletLock' = d => pc'[d] \in {"moved", "refunded"}
    BY <1>4 DEF LockIsHeld
  <2>3. \A d \in Calls : pc'[d] # "new" => job'[d] \in Jobs
    BY <1>1, <1>3 DEF RowsInv, OutcomesMatchRows, TypeOK, OnlyMoves
  <2>4. entries' \in [Calls -> 0..Entries]
    BY <1>1, <1>2
  <2> QED
    BY <1>1, <2>1, <2>2, <2>3, <2>4 DEF RowsInv, OutcomesMatchRows, TypeOK
<1>6. RowsMatch'
  <2>1. moved'[c] = 0 /\ moved[c] = 0 /\ returned'[c] = 0 /\ returned[c] = 0
    BY <1>1, <1>3 DEF moved, returned, Moves
  <2>2. /\ Total(moved, Calls)' = Total(moved, Calls) + 0
        /\ Total(returned, Calls)' = Total(returned, Calls) + 0
    BY <1>3, <2>1, TotalsMove
  <2>3. Total(moved, Calls) \in Nat /\ Total(returned, Calls) \in Nat
    BY MovedType
  <2>4. holds' = {d \in Calls : Moves(d)' > 0}
    BY <1>1, <1>3 DEF RowsInv, OutcomesMatchRows, OnlyMoves, Moves
  <2>5. \A d \in Calls : entries'[d] = IF pc'[d] \in Recorded THEN Entries ELSE 0
    BY <1>1, <1>2, <1>3 DEF RowsInv, OutcomesMatchRows, OnlyMoves
  <2>6. released' = {h \in Calls : \E d \in Calls : pc'[d] \in GaveBack /\ job'[d].hold = h}
    BY <1>1, <1>3 DEF RowsInv, OutcomesMatchRows, OnlyMoves
  <2> QED
    BY <1>1, <2>2, <2>3, <2>4, <2>5, <2>6 DEF RowsInv, OutcomesMatchRows, RowsMatch
<1>7. RowIsChecked' /\ HoldWasRead'
  BY <1>1, <1>3 DEF RowsInv, RowIsChecked, HoldWasRead, OnlyMoves, Releasing
<1>8. MovesPositive'
  BY <1>1, <1>3 DEF RowsInv, MovesPositive, OnlyMoves, Moving, Releasing
<1> QED
  BY <1>4, <1>5, <1>6, <1>7, <1>8 DEF RowsInv, OutcomesMatchRows, RowsMatch

-----------------------------------------------------------------------------
(* The beginning of each call of the services keeps the rows right. *)
LEMMA CallInv ==
  ASSUME RowsInv, NEW c \in Calls, Call(c)
  PROVE  RowsInv'
<1>1. ASSUME NEW amount \in Amounts, CheckBalance(c, amount) PROVE RowsInv'
  <2> DEFINE to == IF wallet.available >= amount THEN "checked" ELSE "refused"
  <2>1. Begin(c, "reserve", amount, c, to) /\ to \in {"checked", "refused"}
    BY <1>1 DEF CheckBalance
  <2> HIDE DEF to
  <2> QED
    BY <2>1, BeginInv DEF Begin, Kinds
<1>2. ASSUME NEW amount \in Amounts, StartRecording(c, amount) PROVE RowsInv'
  BY <1>2, BeginInv DEF StartRecording, Begin, Kinds
<1>3. ASSUME NEW h \in Calls, ReadHold(c, h) PROVE RowsInv'
  <2> DEFINE to == IF h \in released THEN "refused" ELSE "read"
  <2>1. h \in holds /\ Begin(c, "release", job[h].amount, h, to) /\ to \in {"refused", "read"}
    BY <1>3 DEF ReadHold
  <2>2. pc[h] \in HeldOnce \cup HeldTwice /\ pc[h] # "new"
    BY <2>1 DEF RowsInv, OutcomesMatchRows, Moves, HeldOnce, HeldTwice
  <2>3. job[h].amount \in Amounts \cup {0}
    BY <2>2, JobParts DEF RowsInv, OutcomesMatchRows
  <2>4. job[h].amount > 0
    BY <2>2, MovingPositive
  <2> HIDE DEF to
  <2> QED
    BY <2>1, <2>3, <2>4, BeginInv DEF Begin, Kinds
<1>4. ASSUME UpdateEntryStatus(c) PROVE RowsInv'
  <2>1. /\ At(c, "new") /\ Goto(c, "threw") /\ UNCHANGED <<Rows, Locks>>
        /\ job' = [job EXCEPT ![c] = [kind |-> "record", amount |-> 0, hold |-> c, sent |-> 0]]
        /\ "record" \in Kinds /\ 0 \in Amounts \cup {0}
    BY <1>4 DEF UpdateEntryStatus, Kinds
  <2> QED
    BY <2>1, BeginInv
<1> QED
  BY <1>1, <1>2, <1>3, <1>4 DEF Call

(* Every statement keeps the rows right. *)
LEMMA StatementInv ==
  ASSUME RowsInv, NEW c \in Calls, Statement(c)
  PROVE  RowsInv'
<1>0. holdLock \in [Calls -> Calls \cup {None}]
  BY DEF RowsInv, OutcomesMatchRows, TypeOK
<1>1. ASSUME InsertHold(c) PROVE RowsInv'
  <2>1. pc[c] = "checked"
    BY <1>1 DEF InsertHold, At
  <2>2. CASE job[c].amount > 0 /\ Goto(c, "inserted") /\ UNCHANGED <<Rows, Locks, job>>
    BY <1>0, <2>1, <2>2, ProceedInv DEF Locks
  <2>3. CASE Rollback(c)
    BY <2>1, <2>3, RollbackInv
  <2> QED
    BY <1>1, <2>2, <2>3 DEF InsertHold
<1>2. ASSUME MoveToLocked(c) PROVE RowsInv'
  <2>1. pc[c] = "inserted" /\ walletLock = None /\ job[c].amount > 0
    BY <1>2, MovingPositive DEF MoveToLocked, At, Moving
  <2>2. CASE ValidBalances(Moved(wallet, job[c].amount))
    BY <1>0, <1>2, <2>1, <2>2, ProceedInv DEF MoveToLocked, Open
  <2>3. CASE ~ValidBalances(Moved(wallet, job[c].amount))
    BY <1>2, <2>1, <2>3, RollbackInv DEF MoveToLocked, Open
  <2> QED
    BY <2>2, <2>3
<1>3. ASSUME MarkReleased(c) PROVE RowsInv'
  <2>1. /\ pc[c] = "read" /\ Goto(c, "marked") /\ UNCHANGED <<Rows, walletLock, job>>
        /\ holdLock' = [holdLock EXCEPT ![job[c].hold] = c]
    BY <1>3 DEF MarkReleased, At
  <2>2. job[c].hold \in holds /\ job[c].amount > 0
    BY <2>1, MovingPositive DEF RowsInv, HoldWasRead, Moving, Releasing
  <2>3. holdLock' \in [Calls -> Calls \cup {None}]
    BY <1>0, <2>1
  <2> QED
    BY <2>1, <2>2, <2>3, ProceedInv DEF Open, Releasing
<1>4. ASSUME MoveBack(c) PROVE RowsInv'
  <2>1. pc[c] = "marked" /\ walletLock = None
    BY <1>4 DEF MoveBack, At
  <2>4. job[c].hold \in holds /\ job[c].amount > 0
    BY <2>1, MovingPositive DEF RowsInv, HoldWasRead, Moving, Releasing
  <2>2. CASE ValidBalances(Moved(wallet, -job[c].amount))
    BY <1>0, <1>4, <2>1, <2>2, <2>4, ProceedInv DEF MoveBack, Open, Releasing
  <2>3. CASE ~ValidBalances(Moved(wallet, -job[c].amount))
    BY <1>4, <2>1, <2>3, RollbackInv DEF MoveBack, Open, Releasing
  <2> QED
    BY <2>2, <2>3
<1> QED
  BY <1>1, <1>2, <1>3, <1>4, CommitHoldInv, UpdateBalancesInv, CommitReleaseInv,
     InsertEntryInv, CommitEntriesInv DEF Statement

(* A second movement that never was leaves the hold and the first one. *)
LEMMA HeldOnceInv ==
  ASSUME RowsInv, NEW c \in Calls, At(c, "held"), Goto(c, "onceHeld"),
         UNCHANGED <<Rows, Locks, job>>
  PROVE  RowsInv'
<1> USE DEF HeldOnce, HeldTwice, GaveBack, Recorded, Releasing
<1>1. /\ pc[c] = "held" /\ pc' = [pc EXCEPT ![c] = "onceHeld"]
      /\ UNCHANGED <<wallet, holds, released, entries, walletLock, holdLock, job>>
  BY DEF At, Goto, Rows, Locks
<1>2. pc \in [Calls -> Open \cup Ended \cup {"new", "checked", "held"}]
  BY DEF RowsInv, OutcomesMatchRows, TypeOK
<1>3. OnlyMoves(c) /\ pc'[c] = "onceHeld"
  BY <1>1, <1>2 DEF OnlyMoves
<1>4. LockIsHeld'
  BY <1>1, <1>3 DEF RowsInv, LockIsHeld, OnlyMoves
<1>5. TypeOK'
  <2>1. pc' \in [Calls -> Open \cup Ended \cup {"new", "checked", "held"}]
    BY <1>1, <1>2 DEF Ended
  <2>2. \A d \in Calls : walletLock' = d => pc'[d] \in {"moved", "refunded"}
    BY <1>4 DEF LockIsHeld
  <2>3. \A d \in Calls : pc'[d] # "new" => job'[d] \in Jobs
    BY <1>1, <1>3 DEF RowsInv, OutcomesMatchRows, TypeOK, OnlyMoves
  <2> QED
    BY <1>1, <2>1, <2>2, <2>3 DEF RowsInv, OutcomesMatchRows, TypeOK
<1>6. RowsMatch'
  <2>1. moved' = moved /\ returned' = returned /\ \A d \in Calls : Moves(d)' = Moves(d)
    BY <1>1, <1>3 DEF moved, returned, Moves, OnlyMoves
  <2>2. Total(moved, Calls)' = Total(moved, Calls) /\ Total(returned, Calls)' = Total(returned, Calls)
    BY <2>1
  <2>3. /\ released' = {h \in Calls : \E d \in Calls : pc'[d] \in GaveBack /\ job'[d].hold = h}
        /\ \A d \in Calls : entries'[d] = IF pc'[d] \in Recorded THEN Entries ELSE 0
    BY <1>1, <1>3 DEF RowsInv, OutcomesMatchRows, OnlyMoves
  <2> QED
    BY <1>1, <2>1, <2>2, <2>3 DEF RowsInv, OutcomesMatchRows, RowsMatch
<1>7. RowIsChecked' /\ HoldWasRead'
  BY <1>1, <1>3 DEF RowsInv, RowIsChecked, HoldWasRead, OnlyMoves
<1>8. MovesPositive'
  BY <1>1, <1>3 DEF RowsInv, MovesPositive, OnlyMoves, Moving
<1> QED
  BY <1>4, <1>5, <1>6, <1>7, <1>8 DEF RowsInv, OutcomesMatchRows, RowsMatch

(* Every step keeps the rows right. *)
LEMMA RowsInvStep == RowsInv /\ [Next]_vars => RowsInv'
<1> SUFFICES ASSUME RowsInv, [Next]_vars PROVE RowsInv'
  OBVIOUS
<1>1. ASSUME NEW c \in Calls, Call(c) \/ Statement(c) \/ ConnectionLost(c) PROVE RowsInv'
  BY <1>1, CallInv, StatementInv, RollbackInv, HeldOnceInv DEF ConnectionLost
<1>2. CASE UNCHANGED vars
  BY <1>2 DEF vars, RowsInv, OutcomesMatchRows, TypeOK, LockIsHeld, RowIsChecked, HoldWasRead,
     MovesPositive, Moves, moved, returned
<1> QED
  BY <1>1, <1>2 DEF Next

(* At first no call has done anything. *)
LEMMA RowsInitInv == Init => RowsInv
<1> SUFFICES ASSUME Init PROVE RowsInv
  OBVIOUS
<1> USE DEF Init
<1>1. TypeOK
  BY PostgresAssumption DEF TypeOK
<1>2. Total(moved, Calls) = 0 /\ Total(returned, Calls) = 0
  <2> PICK z : z = [c \in Calls |-> 0]
    OBVIOUS
  <2>1. moved = z /\ returned = z
    BY DEF moved, returned, Moves, HeldOnce, HeldTwice, GaveBack
  <2>2. Total(z, Calls) = 0
    <3>1. \A c \in Calls : Units(z, c) = {}
      BY DEF Units
    <3>2. UnitsOf(z, Calls) = {}
      BY <3>1 DEF UnitsOf
    <3> QED
      BY <3>2, FS_EmptySet DEF Total
  <2> QED
    BY <2>1, <2>2
<1>3. OutcomesMatchRows
  <2>1. wallet.locked = 0 /\ wallet.available = Funding /\ holds = {} /\ Funding \in Nat
    BY PostgresAssumption
  <2>2. holds = {c \in Calls : Moves(c) > 0}
    BY DEF Moves, HeldOnce, HeldTwice
  <2>3. \A c \in Calls : entries[c] = IF pc[c] \in Recorded THEN Entries ELSE 0
    BY DEF Recorded
  <2>4. released = {h \in Calls : \E c \in Calls : pc[c] \in GaveBack /\ job[c].hold = h}
    BY DEF GaveBack
  <2> QED
    BY <1>1, <1>2, <2>1, <2>2, <2>3, <2>4 DEF OutcomesMatchRows
<1>4. LockIsHeld /\ RowIsChecked /\ HoldWasRead /\ MovesPositive
  BY PostgresAssumption DEF LockIsHeld, RowIsChecked, HoldWasRead, MovesPositive,
     Moving, Releasing, HeldOnce, HeldTwice, GaveBack
<1> QED
  BY <1>3, <1>4 DEF RowsInv

(* For any number of overlapping calls and any amounts, also negative ones, the
   rows are what the calls that ended did: nothing of a transaction that was
   rolled back, all of one whose COMMIT lost its answer, and of a reserveFunds
   that failed late its hold and one movement. *)
THEOREM RowsAreTrue == Spec => []OutcomesMatchRows
<1>1. RowsInv => OutcomesMatchRows
  BY DEF RowsInv
<1> QED
  BY <1>1, RowsInitInv, RowsInvStep, PTL DEF Spec

-----------------------------------------------------------------------------
(* The rows change as if calls ran one at a time.                          *)

\* A release is of the amount of its hold, which nothing changes any more.
OfItsHold(c) ==
  pc[c] \in Releasing =>
    job[c].hold \in holds /\ job[c].amount = job[job[c].hold].amount

SerialInv == RowsInv /\ \A c \in Calls : OfItsHold(c)

\* A release finds its hold open, or gives up the one it had found.
Finds(c) == pc[c] = "new" /\ pc'[c] = "read" /\ job'[c].hold \in holds \ released
Leaves(c) == pc[c] \in Releasing /\ pc'[c] = "threw"

\* A step of one call that no row shows.
Quiet(c) ==
  /\ OnlyMoves(c) /\ UNCHANGED Rows
  /\ Finds(c) \/ Leaves(c) \/ Found(c)' = Found(c)
  /\ pc[c] \in Open \cup {"new", "checked"}
  /\ pc'[c] \in Open \cup {"checked", "refused", "threw"}

(* What the invariant says of the call that takes a step. *)
LEMMA CallParts ==
  ASSUME RowsInv, NEW c \in Calls
  PROVE  /\ pc \in [Calls -> Open \cup Ended \cup {"new", "checked", "held"}]
         /\ job \in [Calls -> Jobs \cup {None}]
         /\ wallet \in [available : Nat, locked : Nat] /\ holds \subseteq Calls
         /\ c \in holds <=> pc[c] \in HeldOnce \cup HeldTwice
         /\ entries[c] = IF pc[c] \in Recorded THEN Entries ELSE 0
<1>1. c \in holds <=> Moves(c) > 0
  BY DEF RowsInv, OutcomesMatchRows
<1>2. Moves(c) > 0 <=> pc[c] \in HeldOnce \cup HeldTwice
  BY DEF Moves, HeldOnce, HeldTwice
<1> QED
  BY <1>1, <1>2 DEF RowsInv, OutcomesMatchRows, TypeOK

(* What the rows show of the other calls stays. *)
LEMMA OthersStay ==
  ASSUME NEW c \in Calls, OnlyMoves(c), holds' \in {holds, holds \cup {c}},
         \A d \in Calls \ {c} : entries'[d] = entries[d]
  PROVE  \A d \in Calls \ {c} : Effect(d)' = Effect(d) /\ Found(d)' = Found(d)
BY DEF OnlyMoves, Effect, Found

(* A quiet step is one of a release that looks, or none of the promise. *)
LEMMA QuietShows ==
  ASSUME RowsInv, NEW c \in Calls, Quiet(c)
  PROVE  (\E h \in Calls : Serial!FindOpen(c, h)) \/ Serial!Abandon(c) \/ UNCHANGED Serial!vars
<1> USE DEF HeldOnce, HeldTwice, GaveBack, Recorded, Releasing
<1>1. UNCHANGED <<wallet, holds, released, entries>> /\ OnlyMoves(c)
  BY DEF Quiet, Rows
<1>2. Effect(c) = [kind |-> "none", amount |-> 0]
  BY CallParts DEF Quiet, Open, Effect
<1>3. Effect(c)' = [kind |-> "none", amount |-> 0]
  BY <1>1, CallParts DEF Quiet, Open, Effect
<1>4. \A d \in Calls : Effect(d)' = Effect(d)
  BY <1>1, <1>2, <1>3, OthersStay
<1>5. \A d \in Calls \ {c} : Found(d)' = Found(d)
  BY <1>1, OthersStay
<1>6. [d \in Calls |-> Effect(d)]' = [d \in Calls |-> Effect(d)]
  BY <1>4
<1>7. [d \in Calls |-> Effect(d)][c].kind = "none"
  BY <1>2
<1>8. ASSUME NEW f, Found(c)' = f
      PROVE  [d \in Calls |-> Found(d)]' = [[d \in Calls |-> Found(d)] EXCEPT ![c] = f]
  BY <1>5, <1>8
<1>9. CASE Finds(c)
  <2>1. PICK h \in Calls : h = job'[c].hold /\ h \in holds \ released
    BY <1>9, CallParts DEF Finds
  <2>2. Found(c) = None /\ Found(c)' = h
    BY <1>9, <2>1 DEF Finds, Found
  <2>3. /\ [d \in Calls |-> Found(d)][c] = None
        /\ [d \in Calls |-> Found(d)]' = [[d \in Calls |-> Found(d)] EXCEPT ![c] = h]
    BY <1>8, <2>2
  <2>4. Serial!FindOpen(c, h)
    BY <1>1, <1>6, <1>7, <2>1, <2>3, Zenon DEF Serial!FindOpen
  <2> QED
    BY <2>4
<1>10. CASE Leaves(c)
  <2>1. Found(c) \in Calls /\ Found(c)' = None
    BY <1>10, JobParts DEF Leaves, Found, RowsInv, OutcomesMatchRows
  <2>2. /\ [d \in Calls |-> Found(d)][c] # None
        /\ [d \in Calls |-> Found(d)]' = [[d \in Calls |-> Found(d)] EXCEPT ![c] = None]
    BY <1>8, <2>1, PostgresAssumption
  <2>3. Serial!Abandon(c)
    BY <1>1, <1>6, <1>7, <2>2, Zenon DEF Serial!Abandon
  <2> QED
    BY <2>3
<1>11. CASE Found(c)' = Found(c)
  <2>1. [d \in Calls |-> Found(d)]' = [d \in Calls |-> Found(d)]
    BY <1>5, <1>11
  <2> QED
    BY <1>1, <1>6, <2>1 DEF Serial!vars
<1> QED
  BY <1>9, <1>10, <1>11 DEF Quiet

(* It keeps the invariant if the call goes on as it should. *)
LEMMA QuietKeeps ==
  ASSUME SerialInv, NEW c \in Calls, Quiet(c), OfItsHold(c)'
  PROVE  \A d \in Calls : OfItsHold(d)'
<1>1. holds' = holds /\ c \notin holds /\ OnlyMoves(c)
  BY CallParts DEF SerialInv, Quiet, Rows, Open, Releasing, HeldOnce, HeldTwice
<1> SUFFICES ASSUME NEW d \in Calls \ {c} PROVE OfItsHold(d)'
  OBVIOUS
<1>2. OfItsHold(d) /\ pc'[d] = pc[d] /\ job'[d] = job[d] /\ holds \subseteq Calls
  BY <1>1, CallParts DEF SerialInv, OnlyMoves
<1>3. job[d].hold \in holds => job'[job[d].hold] = job[job[d].hold]
  BY <1>1, <1>2 DEF OnlyMoves
<1> QED
  BY <1>1, <1>2, <1>3 DEF OfItsHold

(* A step from here to there, with the job the call has or gets. *)
LEMMA GoesQuietly ==
  ASSUME RowsInv, NEW c \in Calls, NEW to, Goto(c, to), UNCHANGED Rows,
         \A d \in Calls \ {c} : job'[d] = job[d],
         pc[c] \in Open \cup {"new", "checked"},
         to \in Open \cup {"checked", "refused", "threw"},
         \/ pc[c] = "new" /\ to = "read" /\ job'[c].hold \in holds \ released
         \/ to = "threw"
         \/ pc[c] \notin Releasing /\ to \notin Releasing
         \/ pc[c] \in Releasing /\ to \in Releasing /\ job'[c] = job[c]
  PROVE  Quiet(c) /\ pc'[c] = to
<1>1. pc \in [Calls -> Open \cup Ended \cup {"new", "checked", "held"}]
  BY CallParts
<1>2. pc' = [pc EXCEPT ![c] = to]
  BY DEF Goto
<1>3. pc'[c] = to /\ \A d \in Calls \ {c} : pc'[d] = pc[d]
  BY <1>1, <1>2
<1>4. Finds(c) \/ Leaves(c) \/ Found(c)' = Found(c)
  BY <1>3 DEF Finds, Leaves, Found, Open, Releasing, GaveBack
<1> QED
  BY <1>3, <1>4 DEF Quiet, OnlyMoves

(* A transaction that ends without its effect shows nothing. *)
LEMMA RollbackIsQuiet ==
  ASSUME RowsInv, NEW c \in Calls, pc[c] \in Open \cup {"checked"}, Rollback(c)
  PROVE  Quiet(c) /\ OfItsHold(c)'
<1>1. Goto(c, "threw") /\ UNCHANGED Rows /\ job' = job
  BY DEF Rollback
<1>2. Quiet(c) /\ pc'[c] = "threw"
  BY <1>1, GoesQuietly
<1> QED
  BY <1>2 DEF OfItsHold, Releasing

(* Nor does the beginning of a call. *)
LEMMA CallIsQuiet ==
  ASSUME RowsInv, NEW c \in Calls, Call(c)
  PROVE  Quiet(c) /\ OfItsHold(c)'
<1>1. job \in [Calls -> Jobs \cup {None}]
  BY CallParts
<1>2. ASSUME NEW kind, NEW amount, NEW hold \in Calls, NEW to \in {"checked", "refused", "read", "recording"},
             Begin(c, kind, amount, hold, to),
             to = "read" => hold \in holds \ released /\ amount = job[hold].amount
      PROVE  Quiet(c) /\ OfItsHold(c)'
  <2> DEFINE new == [kind |-> kind, amount |-> amount, hold |-> hold, sent |-> 0]
  <2>1. /\ pc[c] = "new" /\ Goto(c, to) /\ UNCHANGED Rows
        /\ job' = [job EXCEPT ![c] = new]
    BY <1>2 DEF Begin, At
  <2>2. new.hold = hold /\ new.amount = amount
    OBVIOUS
  <2> HIDE DEF new
  <2>3. job'[c] = new /\ \A d \in Calls \ {c} : job'[d] = job[d]
    BY <1>1, <2>1
  <2>4. Quiet(c) /\ pc'[c] = to
    BY <1>2, <2>1, <2>2, <2>3, GoesQuietly DEF Open, Releasing
  <2>5. hold \in holds => hold # c
    BY <2>1, CallParts DEF HeldOnce, HeldTwice
  <2>6. holds' = holds
    BY <2>1 DEF Rows
  <2> QED
    BY <1>2, <2>2, <2>3, <2>4, <2>5, <2>6 DEF OfItsHold, Releasing
<1>3. ASSUME NEW amount \in Amounts, CheckBalance(c, amount) PROVE Quiet(c) /\ OfItsHold(c)'
  <2> DEFINE to == IF wallet.available >= amount THEN "checked" ELSE "refused"
  <2>1. Begin(c, "reserve", amount, c, to) /\ to \in {"checked", "refused"}
    BY <1>3 DEF CheckBalance
  <2> HIDE DEF to
  <2> QED
    BY <1>2, <2>1
<1>4. ASSUME NEW amount \in Amounts, StartRecording(c, amount) PROVE Quiet(c) /\ OfItsHold(c)'
  BY <1>2, <1>4 DEF StartRecording
<1>5. ASSUME NEW h \in Calls, ReadHold(c, h) PROVE Quiet(c) /\ OfItsHold(c)'
  <2> DEFINE to == IF h \in released THEN "refused" ELSE "read"
             amount == job[h].amount
  <2>1. h \in holds /\ Begin(c, "release", amount, h, to) /\ to \in {"refused", "read"}
    BY <1>5 DEF ReadHold
  <2>2. amount = job[h].amount /\ (to = "read" => h \notin released)
    OBVIOUS
  <2> HIDE DEF to, amount
  <2> QED
    BY <1>2, <2>1, <2>2
<1>6. ASSUME UpdateEntryStatus(c) PROVE Quiet(c) /\ OfItsHold(c)'
  <2>1. /\ pc[c] = "new" /\ Goto(c, "threw") /\ UNCHANGED Rows
        /\ \A d \in Calls \ {c} : job'[d] = job[d]
    BY <1>1, <1>6 DEF UpdateEntryStatus, At
  <2>2. Quiet(c) /\ pc'[c] = "threw"
    BY <2>1, GoesQuietly
  <2> QED
    BY <2>2 DEF OfItsHold, Releasing
<1> QED
  BY <1>3, <1>4, <1>5, <1>6 DEF Call

(* Nor does a statement of an open transaction that does not commit it. *)
LEMMA StatementIsQuiet ==
  ASSUME SerialInv, NEW c \in Calls,
         InsertHold(c) \/ MoveToLocked(c) \/ MarkReleased(c) \/ MoveBack(c) \/ InsertEntry(c)
  PROVE  Quiet(c) /\ OfItsHold(c)'
<1>0. RowsInv /\ OfItsHold(c)
  BY DEF SerialInv
<1>1. ASSUME NEW to \in Open, Goto(c, to), UNCHANGED <<Rows, job>>, pc[c] \in Open \cup {"checked"},
             to \in Releasing <=> pc[c] \in Releasing
      PROVE  Quiet(c) /\ OfItsHold(c)'
  <2>1. Quiet(c) /\ pc'[c] = to
    BY <1>0, <1>1, GoesQuietly
  <2>2. job' = job /\ holds' = holds
    BY <1>1 DEF Rows
  <2> QED
    BY <1>0, <1>1, <2>1, <2>2 DEF OfItsHold
<1>2. CASE InsertHold(c)
  <2>1. pc[c] = "checked"
    BY <1>2 DEF InsertHold, At
  <2>2. CASE job[c].amount > 0 /\ Goto(c, "inserted") /\ UNCHANGED <<Rows, Locks, job>>
    BY <1>1, <2>1, <2>2 DEF Open, Releasing
  <2>3. CASE Rollback(c)
    BY <1>0, <2>1, <2>3, RollbackIsQuiet
  <2> QED
    BY <1>2, <2>2, <2>3 DEF InsertHold
<1>3. CASE MoveToLocked(c)
  <2>1. pc[c] = "inserted"
    BY <1>3 DEF MoveToLocked, At
  <2>2. CASE Goto(c, "moved") /\ UNCHANGED <<Rows, job>>
    BY <1>1, <2>1, <2>2 DEF Open, Releasing
  <2>3. CASE Rollback(c)
    BY <1>0, <2>1, <2>3, RollbackIsQuiet DEF Open
  <2> QED
    BY <1>3, <2>2, <2>3 DEF MoveToLocked
<1>4. CASE MarkReleased(c)
  <2>1. /\ pc[c] = "read" /\ Goto(c, "marked") /\ UNCHANGED <<Rows, job>>
    BY <1>4 DEF MarkReleased, At
  <2> QED
    BY <1>1, <2>1 DEF Open, Releasing
<1>5. CASE MoveBack(c)
  <2>1. pc[c] = "marked"
    BY <1>5 DEF MoveBack, At
  <2>2. CASE Goto(c, "refunded") /\ UNCHANGED <<Rows, job>>
    BY <1>1, <2>1, <2>2 DEF Open, Releasing
  <2>3. CASE Rollback(c)
    BY <1>0, <2>1, <2>3, RollbackIsQuiet DEF Open, Releasing
  <2> QED
    BY <1>5, <2>2, <2>3 DEF MoveBack
<1>6. CASE InsertEntry(c)
  <2>1. pc[c] = "recording"
    BY <1>6 DEF InsertEntry, At
  <2>2. CASE job' = [job EXCEPT ![c].sent = @ + 1] /\ UNCHANGED <<Rows, Locks, pc>>
    <3>1. \A d \in Calls \ {c} : job'[d] = job[d]
      BY <1>0, <2>2, CallParts
    <3>2. Quiet(c) /\ pc'[c] = "recording"
      BY <2>1, <2>2, <3>1 DEF Quiet, OnlyMoves, Open, Found, Releasing, GaveBack
    <3> QED
      BY <3>2 DEF OfItsHold, Releasing
  <2>3. CASE Rollback(c)
    BY <1>0, <2>1, <2>3, RollbackIsQuiet DEF Open
  <2> QED
    BY <1>6, <2>2, <2>3 DEF InsertEntry
<1> QED
  BY <1>2, <1>3, <1>4, <1>5, <1>6

(* A step that shows in the rows goes from one outcome of the call to the next. *)
LEMMA EffectTaken ==
  ASSUME RowsInv, NEW c \in Calls, OnlyMoves(c), holds' \in {holds, holds \cup {c}},
         \A d \in Calls \ {c} : entries'[d] = entries[d],
         NEW kind, NEW amount, Effect(c)' = [kind |-> kind, amount |-> amount]
  PROVE  [d \in Calls |-> Effect(d)]' =
           [[d \in Calls |-> Effect(d)] EXCEPT ![c] = [kind |-> kind, amount |-> amount]]
<1>1. \A d \in Calls \ {c} : Effect(d)' = Effect(d)
  BY OthersStay
<1> DEFINE new == [kind |-> kind, amount |-> amount]
           now == [d \in Calls |-> Effect(d)]
           next == [d \in Calls |-> Effect(d)']
<1>2. next = [now EXCEPT ![c] = new]
  <2>1. Effect(c)' = new
    OBVIOUS
  <2> HIDE DEF new
  <2> QED
    BY <1>1, <2>1
<1> QED
  BY <1>2

(* So the call has its effect in the promise. *)
LEMMA TakesEffect ==
  ASSUME RowsInv, NEW c \in Calls, OnlyMoves(c), holds' \in {holds, holds \cup {c}},
         \A d \in Calls \ {c} : entries'[d] = entries[d],
         NEW from, Effect(c).kind = from,
         NEW kind, NEW amount, Effect(c)' = [kind |-> kind, amount |-> amount]
  PROVE  Serial!Takes(c, from, kind, amount)
<1>1. [d \in Calls |-> Effect(d)]' =
        [[d \in Calls |-> Effect(d)] EXCEPT ![c] = [kind |-> kind, amount |-> amount]]
  BY EffectTaken
<1>2. [d \in Calls |-> Effect(d)][c].kind = from
  OBVIOUS
<1> QED
  BY <1>1, <1>2, Zenon DEF Serial!Takes

(* A hold that is committed is made in one step, on the row as it is then. *)
LEMMA HoldTakes ==
  ASSUME SerialInv, NEW c \in Calls, CommitHold(c)
  PROVE  (\E amount \in Amounts : Serial!Hold(c, amount)) /\ \A d \in Calls : OfItsHold(d)'
<1> USE DEF HeldOnce, HeldTwice, GaveBack, Recorded, Releasing
<1>0. PICK to \in {"held", "heldUntold"} : Goto(c, to)
  BY DEF CommitHold
<1>1. /\ pc[c] = "moved" /\ wallet' = Moved(wallet, job[c].amount) /\ holds' = holds \cup {c}
      /\ pc' = [pc EXCEPT ![c] = to] /\ UNCHANGED <<released, entries, job>>
  BY <1>0 DEF CommitHold, At, Goto
<1>2. RowsInv /\ OnlyMoves(c) /\ pc'[c] = to /\ c \notin holds /\ released \subseteq holds
  BY <1>1, CallParts DEF SerialInv, OnlyMoves, RowsInv, OutcomesMatchRows, TypeOK
<1>3. PICK amount \in Amounts : amount = job[c].amount /\ amount > 0 /\ amount \in Nat
  <2>1. job[c].amount \in Nat /\ job[c].amount \in Amounts \cup {0} /\ job[c].amount > 0
    BY <1>1, <1>2, JobParts, MovingPositive DEF RowsInv, OutcomesMatchRows, Moving
  <2> QED
    BY <2>1
<1>4. Serial!Lock(amount)
  <2>1. ValidBalances(Moved(wallet, amount)) /\ wallet' = Moved(wallet, amount)
    BY <1>1, <1>2, <1>3 DEF RowsInv, RowIsChecked
  <2>2. wallet.available \in Int
    BY <1>2, CallParts
  <2> QED
    BY <1>3, <2>1, <2>2 DEF ValidBalances, Moved, Serial!Lock
<1>5. Effect(c) = [kind |-> "none", amount |-> 0]
  BY <1>1, <1>2, CallParts DEF Effect
<1>6. Effect(c)' = [kind |-> "held", amount |-> amount]
  BY <1>1, <1>2, <1>3 DEF Effect
<1>7. Serial!Takes(c, "none", "held", amount)
  BY <1>1, <1>2, <1>5, <1>6, TakesEffect
<1>8. \A d \in Calls : OfItsHold(d)'
  BY <1>1, <1>2 DEF SerialInv, OfItsHold, OnlyMoves
<1>9. (holds \ released)' = (holds \ released) \cup {c}
  BY <1>1, <1>2
<1>10. [d \in Calls |-> Found(d)]' = [d \in Calls |-> Found(d)]
  <2>1. Found(c)' = Found(c)
    BY <1>1, <1>2 DEF Found
  <2> QED
    BY <1>1, <1>2, <2>1, OthersStay
<1>11. Serial!Hold(c, amount)
  BY <1>3, <1>4, <1>7, <1>9, <1>10, Zenon DEF Serial!Hold
<1> QED
  BY <1>8, <1>11

(* The second movement takes the amount again, or nothing. *)
LEMMA UpdateTakes ==
  ASSUME SerialInv, NEW c \in Calls, UpdateBalances(c)
  PROVE  (Serial!HoldAgain(c) \/ UNCHANGED Serial!vars) /\ \A d \in Calls : OfItsHold(d)'
<1> USE DEF HeldOnce, HeldTwice, GaveBack, Recorded, Releasing
<1> DEFINE amount == job[c].amount
           row == Moved(wallet, amount)
<1>1. /\ pc[c] = "held" /\ UNCHANGED <<holds, released, entries, job>>
      /\ \/ ValidBalances(row) /\ wallet' = row /\ \E to \in HeldTwice : pc' = [pc EXCEPT ![c] = to]
         \/ wallet' = wallet /\ pc' = [pc EXCEPT ![c] = "onceHeld"]
  BY DEF UpdateBalances, At, Goto
<1>2. /\ RowsInv /\ OnlyMoves(c) /\ c \in holds
      /\ pc \in [Calls -> Open \cup Ended \cup {"new", "checked", "held"}]
  BY <1>1, CallParts DEF SerialInv, OnlyMoves
<1>3. amount \in Nat /\ wallet.available \in Int
  BY <1>1, <1>2, MovingPositive, CallParts
<1>4. Effect(c) = [kind |-> "held", amount |-> amount]
  BY <1>1, <1>2 DEF Effect
<1>7. pc'[c] \notin Releasing \cup GaveBack
  BY <1>1, <1>2
<1>8. [d \in Calls |-> Found(d)]' = [d \in Calls |-> Found(d)]
  <2>1. Found(c)' = Found(c)
    BY <1>1, <1>7 DEF Found
  <2> QED
    BY <1>1, <1>2, <2>1, OthersStay
<1>9. UNCHANGED (holds \ released)
  BY <1>1
<1>5. CASE ValidBalances(row) /\ wallet' = row /\ \E to \in HeldTwice : pc' = [pc EXCEPT ![c] = to]
  <2>1. pc'[c] \in HeldTwice
    BY <1>2, <1>5
  <2>2. Effect(c)' = [kind |-> "heldTwice", amount |-> amount]
    BY <1>1, <1>2, <2>1 DEF Effect
  <2> HIDE DEF amount
  <2>3. Serial!Takes(c, "held", "heldTwice", amount)
    BY <1>1, <1>2, <1>4, <2>2, TakesEffect
  <2>4. Serial!Lock(amount)
    BY <1>3, <1>5 DEF ValidBalances, Moved, Serial!Lock
  <2>5. [d \in Calls |-> Effect(d)][c].amount = amount
    BY <1>4
  <2>6. Serial!HoldAgain(c)
    BY <1>8, <1>9, <2>3, <2>4, <2>5, Zenon DEF Serial!HoldAgain
  <2>7. \A d \in Calls : OfItsHold(d)'
    BY <1>1, <1>2, <2>1 DEF SerialInv, OfItsHold, OnlyMoves
  <2> QED
    BY <2>6, <2>7
<1>6. CASE wallet' = wallet /\ pc' = [pc EXCEPT ![c] = "onceHeld"]
  <2>1. pc'[c] = "onceHeld"
    BY <1>2, <1>6
  <2>2. Effect(c)' = Effect(c)
    BY <1>1, <1>2, <1>4, <2>1 DEF Effect
  <2>3. \A d \in Calls : Effect(d)' = Effect(d)
    BY <1>1, <1>2, <2>2, OthersStay
  <2>4. UNCHANGED Serial!vars
    BY <1>6, <1>8, <1>9, <2>3 DEF Serial!vars
  <2>5. \A d \in Calls : OfItsHold(d)'
    BY <1>1, <1>2, <2>1 DEF SerialInv, OfItsHold, OnlyMoves
  <2> QED
    BY <2>4, <2>5
<1> QED
  BY <1>1, <1>5, <1>6

(* A release that is committed gives back what its hold took. *)
LEMMA ReleaseTakes ==
  ASSUME SerialInv, NEW c \in Calls, CommitRelease(c)
  PROVE  (\E h \in Calls : Serial!GiveBack(c, h)) /\ \A d \in Calls : OfItsHold(d)'
<1> USE DEF HeldOnce, HeldTwice, GaveBack, Recorded, Releasing
<1>0. PICK to \in GaveBack : Goto(c, to)
  BY DEF CommitRelease
<1>1. /\ pc[c] = "refunded" /\ wallet' = Moved(wallet, -job[c].amount)
      /\ released' = released \cup {job[c].hold}
      /\ pc' = [pc EXCEPT ![c] = to] /\ UNCHANGED <<holds, entries, job>>
  BY <1>0 DEF CommitRelease, At, Goto
<1>2. RowsInv /\ OnlyMoves(c) /\ pc'[c] \in GaveBack /\ c \notin holds
  BY <1>1, CallParts DEF SerialInv, OnlyMoves
<1>3. PICK h \in Calls : h = job[c].hold /\ h \in holds /\ job[c].amount = job[h].amount
  BY <1>1, <1>2, CallParts DEF SerialInv, OfItsHold
<1> DEFINE amount == job[h].amount
<1>4. amount \in Nat /\ wallet.locked \in Int /\ wallet.available \in Int
  <2>1. job[c].amount \in Nat
    BY <1>1, <1>2, MovingPositive DEF Moving
  <2> QED
    BY <1>2, <1>3, <2>1, CallParts
<1>5. Effect(h).kind \in {"held", "heldTwice"} /\ Effect(h).amount = amount
  BY <1>3 DEF Effect
<1>6. Effect(c) = [kind |-> "none", amount |-> 0]
  BY <1>1, <1>2, CallParts DEF Effect
<1>7. Effect(c)' = [kind |-> "gaveBack", amount |-> amount]
  BY <1>1, <1>2, <1>3 DEF Effect
<1>8. ValidBalances(Moved(wallet, -amount)) /\ wallet' = Moved(wallet, -amount)
  BY <1>1, <1>2, <1>3 DEF RowsInv, RowIsChecked
<1> HIDE DEF amount
<1>9. Serial!Unlock(amount)
  BY <1>4, <1>8 DEF ValidBalances, Moved, Serial!Unlock
<1>10. Serial!Takes(c, "none", "gaveBack", amount)
  BY <1>1, <1>2, <1>6, <1>7, TakesEffect
<1>11. [d \in Calls |-> Effect(d)][h] = Effect(h)
  OBVIOUS
<1>14. Found(c) = h /\ Found(c)' = h
  BY <1>1, <1>2, <1>3 DEF Found
<1>15. [d \in Calls |-> Found(d)]' = [d \in Calls |-> Found(d)]
  BY <1>1, <1>2, <1>14, OthersStay
<1>16. [d \in Calls |-> Found(d)][c] = h
  BY <1>14
<1>17. (holds \ released)' = (holds \ released) \ {h}
  BY <1>1, <1>3
<1>12. Serial!GiveBack(c, h)
  BY <1>5, <1>9, <1>10, <1>11, <1>15, <1>16, <1>17, Zenon DEF Serial!GiveBack
<1>13. \A d \in Calls : OfItsHold(d)'
  BY <1>1, <1>2 DEF SerialInv, OfItsHold, OnlyMoves
<1> QED
  BY <1>12, <1>13

(* The entries of a call appear together. *)
LEMMA EntriesTake ==
  ASSUME SerialInv, NEW c \in Calls, CommitEntries(c)
  PROVE  Serial!Record(c) /\ \A d \in Calls : OfItsHold(d)'
<1> USE DEF HeldOnce, HeldTwice, GaveBack, Recorded, Releasing
<1>0. PICK to \in Recorded : Goto(c, to)
  BY DEF CommitEntries
<1>1. /\ pc[c] = "recording" /\ pc' = [pc EXCEPT ![c] = to]
      /\ entries' = [entries EXCEPT ![c] = Entries]
      /\ UNCHANGED <<wallet, holds, released, job>>
  BY <1>0 DEF CommitEntries, At, Goto
<1>2. RowsInv /\ OnlyMoves(c) /\ pc'[c] = to /\ c \notin holds
  BY <1>1, CallParts DEF SerialInv, OnlyMoves
<1>3. entries'[c] = Entries /\ Entries > 0 /\ \A d \in Calls \ {c} : entries'[d] = entries[d]
  BY <1>1, <1>2, PostgresAssumption DEF RowsInv, OutcomesMatchRows, TypeOK
<1>4. Effect(c) = [kind |-> "none", amount |-> 0]
  BY <1>1, <1>2, CallParts DEF Effect
<1>5. Effect(c)' = [kind |-> "recorded", amount |-> Entries]
  BY <1>1, <1>2, <1>3 DEF Effect
<1>6. Serial!Takes(c, "none", "recorded", Entries)
  BY <1>1, <1>2, <1>3, <1>4, <1>5, TakesEffect
<1>7. \A d \in Calls : OfItsHold(d)'
  BY <1>1, <1>2 DEF SerialInv, OfItsHold, OnlyMoves
<1>8. [d \in Calls |-> Found(d)]' = [d \in Calls |-> Found(d)]
  <2>1. Found(c)' = Found(c)
    BY <1>1, <1>2 DEF Found
  <2> QED
    BY <1>1, <1>2, <1>3, <2>1, OthersStay
<1>9. UNCHANGED <<wallet, holds \ released>>
  BY <1>1
<1>10. Serial!Record(c)
  BY <1>6, <1>8, <1>9, Zenon DEF Serial!Record
<1> QED
  BY <1>7, <1>10

(* A second movement that never was shows nothing. *)
LEMMA HeldOnceShowsNothing ==
  ASSUME SerialInv, NEW c \in Calls, At(c, "held"), Goto(c, "onceHeld"),
         UNCHANGED <<Rows, Locks, job>>
  PROVE  UNCHANGED Serial!vars /\ \A d \in Calls : OfItsHold(d)'
<1> USE DEF HeldOnce, HeldTwice, GaveBack, Recorded, Releasing
<1>1. /\ pc[c] = "held" /\ pc' = [pc EXCEPT ![c] = "onceHeld"]
      /\ UNCHANGED <<wallet, holds, released, entries, job>>
  BY DEF At, Goto, Rows
<1>2. RowsInv /\ OnlyMoves(c) /\ pc'[c] = "onceHeld"
  BY <1>1, CallParts DEF SerialInv, OnlyMoves
<1>3. Effect(c)' = Effect(c) /\ Found(c)' = Found(c)
  BY <1>1, <1>2 DEF Effect, Found
<1>4. \A d \in Calls : Effect(d)' = Effect(d) /\ Found(d)' = Found(d)
  BY <1>1, <1>2, <1>3, OthersStay
<1>5. \A d \in Calls : OfItsHold(d)'
  BY <1>1, <1>2 DEF SerialInv, OfItsHold, OnlyMoves
<1> QED
  BY <1>1, <1>4, <1>5 DEF Serial!vars

(* Every step keeps the invariant, and is one of the promise or unseen. *)
LEMMA SerialStep == SerialInv /\ [Next]_vars => SerialInv' /\ [Serial!Next]_(Serial!vars)
<1> SUFFICES ASSUME SerialInv, [Next]_vars PROVE SerialInv' /\ [Serial!Next]_(Serial!vars)
  OBVIOUS
<1>1. RowsInv /\ RowsInv'
  BY RowsInvStep DEF SerialInv
<1>2. ASSUME NEW c \in Calls, Quiet(c), OfItsHold(c)'
      PROVE  [Serial!Next]_(Serial!vars) /\ \A d \in Calls : OfItsHold(d)'
  BY <1>1, <1>2, QuietShows, QuietKeeps DEF Serial!Next
<1>3. ASSUME NEW c \in Calls, Call(c) \/ Statement(c) \/ ConnectionLost(c)
      PROVE  [Serial!Next]_(Serial!vars) /\ \A d \in Calls : OfItsHold(d)'
  <2>1. CASE Call(c)
    BY <1>1, <1>2, <2>1, CallIsQuiet
  <2>2. CASE ConnectionLost(c)
    BY <1>1, <1>2, <2>2, RollbackIsQuiet, HeldOnceShowsNothing DEF ConnectionLost
  <2>3. CASE InsertHold(c) \/ MoveToLocked(c) \/ MarkReleased(c) \/ MoveBack(c) \/ InsertEntry(c)
    BY <1>2, <2>3, StatementIsQuiet
  <2>4. CASE CommitHold(c) \/ UpdateBalances(c) \/ CommitRelease(c) \/ CommitEntries(c)
    BY <2>4, HoldTakes, UpdateTakes, ReleaseTakes, EntriesTake DEF Serial!Next
  <2> QED
    BY <1>3, <2>1, <2>2, <2>3, <2>4 DEF Statement
<1>4. CASE UNCHANGED vars
  <2>1. UNCHANGED <<wallet, holds, released, entries, pc, job>>
    BY <1>4 DEF vars
  <2>2. \A d \in Calls : Effect(d)' = Effect(d) /\ Found(d)' = Found(d) /\ OfItsHold(d)'
    BY <2>1 DEF SerialInv, Effect, Found, OfItsHold
  <2> QED
    BY <1>1, <2>1, <2>2 DEF SerialInv, Serial!vars
<1> QED
  BY <1>1, <1>3, <1>4 DEF Next, SerialInv

(* At first no row shows anything. *)
LEMMA SerialInit == Init => SerialInv /\ Serial!Init
<1> SUFFICES ASSUME Init PROVE SerialInv /\ Serial!Init
  OBVIOUS
<1>1. SerialInv
  BY RowsInitInv DEF Init, SerialInv, OfItsHold, Releasing
<1>2. \A c \in Calls : Effect(c) = [kind |-> "none", amount |-> 0] /\ Found(c) = None
  BY DEF Init, Effect, Found, Releasing, GaveBack
<1> QED
  BY <1>1, <1>2 DEF Init, Serial!Init

(* For any number of calls, any amounts and any funding, statements that   *)
(* interleave at READ COMMITTED change the rows as calls would that ran    *)
(* one after the other, but for releases that found one hold open together *)
(* (SerialWallet).                                                         *)
THEOREM CallsRunInTurn == Spec => RunsInTurn
<1> QED
  BY SerialInit, SerialStep, PTL DEF Spec, RunsInTurn, Serial!Spec

=============================================================================
