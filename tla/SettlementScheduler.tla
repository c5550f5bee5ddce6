------------------------- MODULE SettlementScheduler -------------------------
(***************************************************************************)
(* SettlementScheduler over the liquidity network: tasks commit the        *)
(* reservation they name.                                                  *)
(*                                                                         *)
(* executeNext and processBatch await ReservationEngine.commit, which      *)
(* changes the pools at once and then awaits its event, so that a worker   *)
(* (one call of either) holds a task between two steps while others run.   *)
(* processBatch goes on with the tasks it selected when it was called.     *)
(***************************************************************************)
EXTENDS Liquidity

CONSTANTS
  Workers,        \* the calls of executeNext and processBatch
  NoReservation,  \* an identifier that no reservation has
  MaxTasks        \* bound: tasks that are scheduled

ASSUME WorkersAssumption == NoReservation \notin Calls /\ MaxTasks \in Nat

VARIABLES
  queue,   \* the tasks, in the order of their scheduling
  todo,    \* positions of the tasks each worker has selected and not finished
  phase    \* where each worker is with the first of them

scheduler == <<queue, todo, phase>>
allVars == <<vars, scheduler>>

Priorities == {"immediate", "delayed", "batch"}
Task == [reservation : Calls \cup {NoReservation}, priority : Priorities,
         status : {"queued", "processing", "completed", "failed"}]

SchedulerTypeOK ==
  /\ queue \in Seq(Task)
  /\ todo \in [Workers -> Seq(DOMAIN queue)]
  /\ phase \in [Workers -> {"new", "committing", "failing", "returned", "threw"}]
  /\ \A w \in Workers : phase[w] \in {"committing", "failing"} => todo[w] # <<>>

SchedulerInit ==
  /\ Init
  /\ queue = <<>>
  /\ todo = [w \in Workers |-> <<>>]
  /\ phase = [w \in Workers |-> "new"]

-----------------------------------------------------------------------------
Schedule(r, priority) ==
  /\ Len(queue) < MaxTasks
  /\ r # NoReservation => KnownReservation(r)
  /\ queue' = Append(queue, [reservation |-> r, priority |-> priority, status |-> "queued"])
  /\ UNCHANGED <<vars, todo, phase>>

Commits(r) == r # NoReservation /\ IsReserved(r)

\* A worker turns to the first task of rest, whatever its status is by now, and
\* calls commit: it either has its effect at once or throws.
Start(w, tasks, rest) ==
  LET i == Head(rest)
      r == tasks[i].reservation
  IN  /\ queue' = [tasks EXCEPT ![i].status = "processing"]
      /\ todo' = [todo EXCEPT ![w] = rest]
      /\ \/ Commits(r) /\ Commit(r) /\ phase' = [phase EXCEPT ![w] = "committing"]
         \/ ~Commits(r) /\ UNCHANGED vars /\ phase' = [phase EXCEPT ![w] = "failing"]

IsQueued(i, priority) == queue[i].priority = priority /\ queue[i].status = "queued"

Queued(priority) == {i \in DOMAIN queue : IsQueued(i, priority)}

InOrder(tasks) == \A i, j \in DOMAIN tasks : i < j => tasks[i] < tasks[j]

Begin(w, tasks) ==
  /\ phase[w] = "new"
  /\ \/ tasks # <<>> /\ Start(w, queue, tasks)
     \/ /\ tasks = <<>>
        /\ phase' = [phase EXCEPT ![w] = "returned"]
        /\ UNCHANGED <<vars, queue, todo>>

\* The first immediate task that is queued, if there is one.
ExecuteNext(w) ==
  \/ Queued("immediate") = {} /\ Begin(w, <<>>)
  \/ \E i \in Queued("immediate") :
       (\A j \in Queued("immediate") : i <= j) /\ Begin(w, <<i>>)

\* All the batch tasks that are queued, in the order of the queue.
ProcessBatch(w) ==
  \E tasks \in [1 .. Cardinality(Queued("batch")) -> Queued("batch")] :
    InOrder(tasks) /\ Begin(w, tasks)

Marked(w, status) == [queue EXCEPT ![Head(todo[w])].status = status]

\* commit has returned; the loop goes on without a pause.
Completed(w) ==
  /\ phase[w] = "committing"
  /\ LET rest == Tail(todo[w])
     IN  \/ rest # <<>> /\ Start(w, Marked(w, "completed"), rest)
         \/ /\ rest = <<>>
            /\ queue' = Marked(w, "completed")
            /\ todo' = [todo EXCEPT ![w] = <<>>]
            /\ phase' = [phase EXCEPT ![w] = "returned"]
            /\ UNCHANGED vars

\* rollback before the status, and the error of a batch as that of all its tasks.
FailedAfterRollback(w) ==
  /\ phase[w] = "failing"
  /\ todo' = [todo EXCEPT ![w] = <<>>]
  /\ phase' = [phase EXCEPT ![w] = "threw"]
  /\ UNCHANGED <<vars, queue>>

\* commit has thrown; rollback throws as well (see FailureHoldsNothing), which
\* ends the call and leaves the rest of a batch queued.
Failed(w) ==
  /\ phase[w] = "failing"
  /\ queue' = Marked(w, "failed")
  /\ todo' = [todo EXCEPT ![w] = <<>>]
  /\ phase' = [phase EXCEPT ![w] = "threw"]
  /\ UNCHANGED vars

SchedulerNext ==
  \/ Next /\ UNCHANGED scheduler
  \/ \E r \in Calls \cup {NoReservation}, priority \in Priorities : Schedule(r, priority)
  \/ \E w \in Workers : ExecuteNext(w) \/ ProcessBatch(w) \/ Completed(w) \/ Failed(w)

SchedulerSpec == SchedulerInit /\ [][SchedulerNext]_allVars

-----------------------------------------------------------------------------
Current(w, i) == phase[w] \in {"committing", "failing"} /\ Head(todo[w]) = i

\* A task is processing only while a worker is on it: whichever workers select
\* the same tasks and however they end, none is left in that state.
ProcessingIsOwned ==
  \A i \in DOMAIN queue :
    queue[i].status = "processing" => \E w \in Workers : Current(w, i)

\* A completed task's reservation is committed, and no two completed tasks
\* settle the same reservation, however batches and commits overlap.
SettledOnce ==
  \A i, j \in DOMAIN queue :
    queue[i].status = "completed" =>
      /\ state[queue[i].reservation] = "committed"
      /\ queue[j].status = "completed" /\ queue[j].reservation = queue[i].reservation => i = j

\* A task that failed, or is about to, holds no money: the reservation it names
\* is settled or gone, and the rollback of the catch block finds nothing.
FailureHoldsNothing ==
  /\ \A i \in DOMAIN queue : queue[i].status = "failed" => ~Commits(queue[i].reservation)
  /\ \A w \in Workers : phase[w] = "failing" => ~Commits(queue[Head(todo[w])].reservation)

\* However batches overlap and end, every task has its worker or its money's
\* account is closed.
TasksAreAccounted == SchedulerTypeOK /\ ProcessingIsOwned /\ FailureHoldsNothing

=============================================================================
