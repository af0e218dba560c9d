------------------------- MODULE MigrationLifecycle -------------------------
(***************************************************************************)
(* The life of one row of the "migrations" table: the API handlers that    *)
(* create, start and cancel the migration, the Celery broker, and the pool *)
(* slots that execute it.  Handlers and tasks touch the row of their own   *)
(* migration_id only, so one row stands for all of them.                   *)
(*                                                                         *)
(* Every handler and task reads the row in one step and writes it in a     *)
(* later one (SELECT ... commit()), because nothing locks the row between  *)
(* the two: other processes run in the gap.                                *)
(***************************************************************************)
EXTENDS Naturals

CONSTANTS
  Requests,      \* API handlers that can be in flight at once
  Slots,         \* Celery pool slots (--concurrency of the worker)
  TaskIds,       \* ids .delay() may return; bounds the number of starts
  NoTask,        \* celery_task_id IS NULL
  TotalBatches,  \* batches the executor copies when no table fails
  FaultKinds,    \* the failures this environment produces, of AllFaults
  MaxFaults,     \* how many of them, in total, in one behaviour
  CommitWins     \* TRUE: a worker never sees a task before its start commits

AllFaults == {"api_abort", "raise", "escape", "late_error", "worker_lost",
              "node_crash", "hard_limit", "early_restore", "revoke_lost"}

ASSUME ConstantsOK ==
  /\ NoTask \notin TaskIds
  /\ TotalBatches \in Nat
  /\ FaultKinds \subseteq AllFaults
  /\ MaxFaults \in Nat
  /\ CommitWins \in BOOLEAN

VARIABLES
  row,        \* the row of this migration, as committed
  req,        \* [Requests -> state of the handler]
  slot,       \* [Slots -> state of the task attempt in that slot]
  queue,      \* messages ready in the broker
  unacked,    \* messages delivered and not yet acknowledged
  revoking,   \* revoke broadcasts on their way to the workers
  revoked,    \* ids the worker remembers as revoked
  faults,     \* failures so far
  sent,       \* history: every task id ever enqueued
  ended,      \* history: tasks whose message was settled by an attempt's end
  succeeded   \* history: tasks whose executor returned with no failed table

broker == <<queue, unacked, revoking, revoked>>
history == <<sent, ended, succeeded>>
vars == <<row, req, slot, broker, faults, history>>

-----------------------------------------------------------------------------
(* The row, and how a session writes it.                                   *)

Statuses == {"absent", "pending", "running", "completed", "failed", "cancelled"}
Marks == {"null", "set"}     \* a nullable column that no code path clears

RowType == [status         : Statuses,
            celery_task_id : TaskIds \cup {NoTask},
            started_at     : Marks,
            completed_at   : Marks,
            error_message  : Marks,
            processed_rows : 0..TotalBatches]

\* There is no such row yet; also the "seen" of whoever has no session open.
Blank == [status |-> "absent", celery_task_id |-> NoTask, started_at |-> "null",
          completed_at |-> "null", error_message |-> "null", processed_rows |-> 0]

\* commit() writes the attributes that differ from what the session loaded,
\* and leaves the other columns as they are in the database by then.
Written(now, seen, new) == IF new = seen THEN now ELSE new

Flush(now, seen, new) ==
  [status         |-> Written(now.status, seen.status, new.status),
   celery_task_id |-> Written(now.celery_task_id, seen.celery_task_id, new.celery_task_id),
   started_at     |-> Written(now.started_at, seen.started_at, new.started_at),
   completed_at   |-> Written(now.completed_at, seen.completed_at, new.completed_at),
   error_message  |-> Written(now.error_message, seen.error_message, new.error_message),
   processed_rows |-> Written(now.processed_rows, seen.processed_rows, new.processed_rows)]

\* Wrong on purpose (each of these is a slip the properties must notice): the
\* broker's settings left at their defaults.
AcksOnReceipt == FALSE
DropsOnWorkerLost == FALSE

TaskAcksLate == TRUE          \* task_acks_late
RejectOnWorkerLost == TRUE    \* task_reject_on_worker_lost

Fault(kind) ==
  /\ kind \in FaultKinds
  /\ faults < MaxFaults
  /\ faults' = faults + 1

-----------------------------------------------------------------------------
(* API handlers.                                                           *)

IdleRequest == [pc |-> "idle", seen |-> Blank, task |-> NoTask]
IdleSlot == [pc |-> "idle", task |-> NoTask, seen |-> Blank, batches |-> 0,
             result |-> "none"]

\* create_migration after both connection tests and the plan succeeded; when
\* any of them fails nothing is saved.
CreateMigration ==
  /\ row = Blank
  /\ row' = [Blank EXCEPT !.status = "pending"]
  /\ UNCHANGED <<req, slot, broker, faults, history>>

\* Wrong on purpose: a cancelled migration may be started again.
StartLoadAfterCancel(r) ==
  /\ req[r].pc = "idle"
  /\ row.status \in {"pending", "failed", "cancelled"}
  /\ req' = [req EXCEPT ![r] = [pc |-> "start_loaded", seen |-> row, task |-> NoTask]]
  /\ UNCHANGED <<row, slot, broker, faults, history>>

StartLoad(r) ==
  /\ req[r].pc = "idle"
  /\ row.status \in {"pending", "failed"}
  /\ req' = [req EXCEPT ![r] = [pc |-> "start_loaded", seen |-> row, task |-> NoTask]]
  /\ UNCHANGED <<row, slot, broker, faults, history>>

\* run_migration_task.delay(): the task is in the broker before the row says so.
StartSend(r) ==
  /\ req[r].pc = "start_loaded"
  /\ \E t \in TaskIds \ sent :
       /\ req' = [req EXCEPT ![r].pc = "start_sent", ![r].task = t]
       /\ queue' = queue \cup {t}
       /\ sent' = sent \cup {t}
  /\ UNCHANGED <<row, slot, unacked, revoking, revoked, faults, ended, succeeded>>

StartCommit(r) ==
  /\ req[r].pc = "start_sent"
  /\ row' = Flush(row, req[r].seen,
                  [req[r].seen EXCEPT !.celery_task_id = req[r].task,
                                      !.status = "running",
                                      !.started_at = "set"])
  /\ req' = [req EXCEPT ![r] = IdleRequest]
  /\ UNCHANGED <<slot, broker, faults, history>>

CancelLoad(r) ==
  /\ req[r].pc = "idle"
  /\ row.status = "running"
  /\ req' = [req EXCEPT ![r] = [pc |-> "cancel_loaded", seen |-> row, task |-> NoTask]]
  /\ UNCHANGED <<row, slot, broker, faults, history>>

\* control.revoke(...) only when the loaded row names a task.
CancelRevoke(r) ==
  /\ req[r].pc = "cancel_loaded"
  /\ req' = [req EXCEPT ![r].pc = "cancel_revoked"]
  /\ revoking' = revoking \cup ({req[r].seen.celery_task_id} \ {NoTask})
  /\ UNCHANGED <<row, slot, queue, unacked, revoked, faults, history>>

CancelCommit(r) ==
  /\ req[r].pc = "cancel_revoked"
  /\ row' = Flush(row, req[r].seen,
                  [req[r].seen EXCEPT !.status = "cancelled", !.completed_at = "set"])
  /\ req' = [req EXCEPT ![r] = IdleRequest]
  /\ UNCHANGED <<slot, broker, faults, history>>

\* A database or broker error, or the API process dying: the session rolls
\* back, what was already sent to the broker stays sent.
RequestAborts(r) ==
  /\ req[r].pc # "idle"
  /\ Fault("api_abort")
  /\ req' = [req EXCEPT ![r] = IdleRequest]
  /\ UNCHANGED <<row, slot, broker, history>>

-----------------------------------------------------------------------------
(* The task attempt in a slot.                                             *)

Move(s, from, to) ==
  /\ slot[s].pc = from
  /\ slot' = [slot EXCEPT ![s].pc = to]

\* Opens a session and loads the row.
Load(s, from, to) ==
  /\ slot[s].pc = from
  /\ slot' = [slot EXCEPT ![s].pc = to, ![s].seen = row]
  /\ UNCHANGED <<row, req, broker, faults, history>>

\* Commits the session with the row it loaded changed to new.
Commit(s, from, to, new) ==
  /\ slot[s].pc = from
  /\ row' = Flush(row, slot[s].seen, new)
  /\ slot' = [slot EXCEPT ![s].pc = to, ![s].seen = Blank]
  /\ UNCHANGED <<req, broker, faults, history>>

Holds(s, t) == slot[s].pc # "idle" /\ slot[s].task = t

StartIsCommitted(t) == \A r \in Requests : req[r].pc = "start_sent" => req[r].task # t

Receive(s) ==
  /\ slot[s].pc = "idle"
  /\ \E t \in queue \ revoked :
       /\ CommitWins => StartIsCommitted(t)
       /\ slot' = [slot EXCEPT ![s] = [IdleSlot EXCEPT !.pc = "begin", !.task = t]]
       /\ queue' = queue \ {t}
       /\ unacked' = IF TaskAcksLate THEN unacked \cup {t} ELSE unacked
  /\ UNCHANGED <<row, req, revoking, revoked, faults, history>>

ExecuteLoad(s) == Load(s, "begin", "loaded")

MarkRunning(s) ==
  Commit(s, "loaded", "executing",
         [slot[s].seen EXCEPT !.status = "running", !.started_at = "set"])

\* Wrong on purpose: a batch is fetched again after the last one.
ProgressPastTheEnd(s) ==
  /\ slot[s].pc = "executing"
  /\ slot' = [slot EXCEPT ![s].batches = @ + 1]
  /\ row' = [row EXCEPT !.processed_rows = slot[s].batches + 1]
  /\ UNCHANGED <<req, broker, faults, history>>

\* on_progress: the executor calls it after each batch.
Progress(s) ==
  /\ slot[s].pc = "executing"
  /\ slot[s].batches < TotalBatches
  /\ slot' = [slot EXCEPT ![s].batches = @ + 1]
  /\ row' = [row EXCEPT !.processed_rows = slot[s].batches + 1]
  /\ UNCHANGED <<req, broker, faults, history>>

\* executor.run() returned: every table copied, or some in failed_tables.
ExecutorReturns(s) ==
  /\ slot[s].pc = "executing"
  /\ \E result \in {"ok", "failed_tables"} :
       /\ result = "ok" => slot[s].batches = TotalBatches
       /\ slot' = [slot EXCEPT ![s].pc = "finalising", ![s].result = result]
       /\ succeeded' = IF result = "ok" THEN succeeded \cup {slot[s].task} ELSE succeeded
  /\ UNCHANGED <<row, req, broker, faults, sent, ended>>

\* An exception out of connect, build_plan or executor.run(), a callback's included.
ExecutorRaises(s) ==
  /\ Move(s, "executing", "failing")
  /\ Fault("raise")
  /\ UNCHANGED <<row, req, broker, history>>

FinaliseLoad(s) == Load(s, "finalising", "finalise_loaded")

\* Wrong on purpose: failed_tables is ignored.
FinaliseIgnoringFailures(s) ==
  Commit(s, "finalise_loaded", "finalised",
         [slot[s].seen EXCEPT !.status = "completed",
                              !.processed_rows = slot[s].batches,
                              !.completed_at = "set"])

\* Wrong on purpose: completed_at is forgotten.
FinaliseWithoutTime(s) ==
  LET failed == slot[s].result = "failed_tables"
  IN  Commit(s, "finalise_loaded", "finalised",
             [slot[s].seen EXCEPT !.status = IF failed THEN "failed" ELSE "completed",
                                  !.processed_rows = slot[s].batches,
                                  !.error_message = IF failed THEN "set" ELSE @])

FinaliseCommit(s) ==
  LET failed == slot[s].result = "failed_tables"
      seen   == slot[s].seen
  IN  Commit(s, "finalise_loaded", "finalised",
             [seen EXCEPT !.status = IF failed THEN "failed" ELSE "completed",
                          !.processed_rows = slot[s].batches,
                          !.completed_at = "set",
                          !.error_message = IF failed THEN "set" ELSE @])

\* Wrong on purpose: only the message is written.
MarkedFailedWithoutStatus(seen) ==
  [seen EXCEPT !.error_message = "set", !.completed_at = "set"]

\* _mark_failed writes whatever the status is by now.
MarkedFailed(seen) ==
  [seen EXCEPT !.status = "failed", !.error_message = "set", !.completed_at = "set"]

\* The except clauses of _execute, which then re-raise ...
FailLoad(s) == Load(s, "failing", "failing_loaded")
FailCommit(s) == Commit(s, "failing_loaded", "raised", MarkedFailed(slot[s].seen))

\* ... so that Celery calls on_failure, which marks the row once more.
OnFailureLoad(s) == Load(s, "raised", "on_failure_loaded")
OnFailureCommit(s) == Commit(s, "on_failure_loaded", "done", MarkedFailed(slot[s].seen))

\* An exception before the final commit that _execute does not turn into
\* _mark_failed: one of the application database, of decrypt_credentials or get_provider, or the soft
\* time limit raised in the event loop.  Celery still calls on_failure; if
\* on_failure itself raises, Celery settles the task with the row untouched.
Escapes(s) ==
  /\ Fault("escape")
  /\ \/ /\ slot[s].pc \in {"begin", "loaded", "executing", "finalising", "finalise_loaded",
                           "failing", "failing_loaded"}
        /\ slot' = [slot EXCEPT ![s].pc = "raised", ![s].seen = Blank]
     \/ /\ slot[s].pc \in {"raised", "on_failure_loaded"}
        /\ slot' = [slot EXCEPT ![s].pc = "done", ![s].seen = Blank]
  /\ UNCHANGED <<row, req, broker, history>>

\* The same after the final commit: the commit took effect and raised, or
\* closing the session or send_completed raised, or the soft time limit passed
\* before the return.  on_failure marks a row that has its outcome already.
LateError(s) ==
  /\ Move(s, "finalised", "raised")
  /\ Fault("late_error")
  /\ UNCHANGED <<row, req, broker, history>>

-----------------------------------------------------------------------------
(* The broker and the worker's main process (Celery, external).            *)

\* The attempt of slot s is over and its message is acknowledged.
Settle(s) ==
  /\ slot' = [slot EXCEPT ![s] = IdleSlot]
  /\ unacked' = unacked \ {slot[s].task}
  /\ ended' = ended \cup {slot[s].task}

Ack(s) ==
  /\ slot[s].pc \in {"finalised", "done"}
  /\ Settle(s)
  /\ UNCHANGED <<row, req, queue, revoking, revoked, faults, sent, succeeded>>

\* The hard time limit: the process is killed, no handler runs.
HardLimit(s) ==
  /\ slot[s].pc # "idle"
  /\ Fault("hard_limit")
  /\ Settle(s)
  /\ UNCHANGED <<row, req, queue, revoking, revoked, sent, succeeded>>

\* A pool process dies: its message, if still unacknowledged, is requeued.
WorkerLost(s) ==
  LET mine == {slot[s].task} \cap unacked
  IN  /\ slot[s].pc # "idle"
      /\ Fault("worker_lost")
      /\ slot' = [slot EXCEPT ![s] = IdleSlot]
      /\ unacked' = unacked \ mine
      /\ queue' = IF RejectOnWorkerLost THEN queue \cup mine ELSE queue
      /\ UNCHANGED <<row, req, revoking, revoked, history>>

\* The whole worker dies, with its in-memory set of revoked ids.
NodeCrash ==
  /\ Fault("node_crash")
  /\ slot' = [s \in Slots |-> IdleSlot]
  /\ revoked' = {}
  /\ UNCHANGED <<row, req, queue, unacked, revoking, history>>

\* The visibility timeout puts an unacknowledged message back in the queue,
\* whether its holder died or is only slower than the timeout.
Restore(t) ==
  /\ t \in unacked
  /\ IF \E s \in Slots : Holds(s, t) THEN Fault("early_restore") ELSE UNCHANGED faults
  /\ unacked' = unacked \ {t}
  /\ queue' = queue \cup {t}
  /\ UNCHANGED <<row, req, slot, revoking, revoked, history>>

\* A worker acknowledges a revoked message without running it.
Discard(t) ==
  /\ t \in queue \cap revoked
  /\ queue' = queue \ {t}
  /\ unacked' = unacked \ {t}
  /\ ended' = ended \cup {t}
  /\ UNCHANGED <<row, req, slot, revoking, revoked, faults, sent, succeeded>>

\* The broadcast arrives: the id is remembered, and a slot that runs it is
\* terminated (SIGTERM; no except clause and no on_failure) and acknowledged.
DeliverRevoke(t) ==
  LET killed == {s \in Slots : Holds(s, t)}
      hit    == IF killed = {} THEN {} ELSE {t}
  IN  /\ t \in revoking
      /\ revoking' = revoking \ {t}
      /\ revoked' = revoked \cup {t}
      /\ slot' = [s \in Slots |-> IF s \in killed THEN IdleSlot ELSE slot[s]]
      /\ unacked' = unacked \ hit
      /\ ended' = ended \cup hit
      /\ UNCHANGED <<row, req, queue, faults, sent, succeeded>>

LoseRevoke(t) ==
  /\ t \in revoking
  /\ Fault("revoke_lost")
  /\ revoking' = revoking \ {t}
  /\ UNCHANGED <<row, req, slot, queue, unacked, revoked, history>>

-----------------------------------------------------------------------------
Init ==
  /\ row = Blank
  /\ req = [r \in Requests |-> IdleRequest]
  /\ slot = [s \in Slots |-> IdleSlot]
  /\ queue = {} /\ unacked = {} /\ revoking = {} /\ revoked = {}
  /\ faults = 0
  /\ sent = {} /\ ended = {} /\ succeeded = {}

\* What an accepted request goes on to do.
RequestStep(r) == StartSend(r) \/ StartCommit(r) \/ CancelRevoke(r) \/ CancelCommit(r)

TaskStep(s) ==
  \/ Receive(s)      \/ ExecuteLoad(s)  \/ MarkRunning(s)   \/ Progress(s)
  \/ ExecutorReturns(s) \/ FinaliseLoad(s) \/ FinaliseCommit(s)
  \/ FailLoad(s)     \/ FailCommit(s)   \/ OnFailureLoad(s) \/ OnFailureCommit(s)
  \/ Ack(s)

TaskFault(s) ==
  ExecutorRaises(s) \/ Escapes(s) \/ LateError(s) \/ HardLimit(s) \/ WorkerLost(s)

BrokerStep(t) == Restore(t) \/ Discard(t) \/ DeliverRevoke(t)

Next ==
  \/ CreateMigration
  \/ \E r \in Requests :
       StartLoad(r) \/ CancelLoad(r) \/ RequestStep(r) \/ RequestAborts(r)
  \/ \E s \in Slots : TaskStep(s) \/ TaskFault(s)
  \/ \E t \in TaskIds : BrokerStep(t) \/ LoseRevoke(t)
  \/ NodeCrash

Spec == Init /\ [][Next]_vars

\* Nobody has to press "start" or "cancel", and no failure has to happen; the
\* workers, the broker and a handler already in flight go on.
Fairness ==
  /\ WF_vars(\E r \in Requests : RequestStep(r))
  /\ WF_vars(\/ \E s \in Slots : TaskStep(s)
             \/ \E t \in TaskIds : BrokerStep(t))

FairSpec == Spec /\ Fairness

-----------------------------------------------------------------------------
(* Properties.                                                             *)

RequestPCs == {"idle", "start_loaded", "start_sent", "cancel_loaded", "cancel_revoked"}
SlotPCs == {"idle", "begin", "loaded", "executing", "finalising", "finalise_loaded",
            "finalised", "failing", "failing_loaded", "raised", "on_failure_loaded", "done"}
Results == {"none", "ok", "failed_tables"}

RequestType == [pc : RequestPCs, seen : RowType, task : TaskIds \cup {NoTask}]
SlotType == [pc : SlotPCs, task : TaskIds \cup {NoTask}, seen : RowType,
             batches : 0..TotalBatches, result : Results]
Busy(x) == x.pc # "idle" => x.task \in TaskIds

\* The shape of every variable.
TypeOK ==
  /\ row \in RowType
  /\ req \in [Requests -> RequestType]
  /\ slot \in [Slots -> SlotType] /\ \A s \in Slots : Busy(slot[s])
  /\ queue \subseteq TaskIds /\ unacked \subseteq TaskIds
  /\ revoking \subseteq TaskIds /\ revoked \subseteq TaskIds
  /\ faults \in 0..MaxFaults
  /\ sent \subseteq TaskIds /\ ended \subseteq TaskIds /\ succeeded \subseteq TaskIds

Stamped(r) ==
  /\ r.status \in {"completed", "failed", "cancelled"} => r.completed_at = "set"
  /\ r.status = "running" => r.started_at = "set"
  /\ r.status = "failed" => r.error_message = "set"

\* A finished migration says when it ended, a running one when it began, and a
\* failed one why: no writer's stamp is undone by another session that loaded
\* the row earlier and commits later.
StatusStamped == Stamped(row)

\* "completed" is never the result of a race: some attempt's executor did
\* return without a failed table.
CompletedWasEarned == row.status = "completed" => succeeded # {}

\* Late acknowledgement and requeueing keep every accepted start in the
\* broker, whatever dies, until an attempt has settled it.
NoLostTask == sent \subseteq queue \cup unacked \cup ended

\* Every task handed to the broker is settled, whatever crashes.
EveryTaskEnds == \A t \in TaskIds : t \in sent ~> t \in ended

\* If nobody cancels, a migration that the row calls running gets an outcome.
RunningEnds == [](revoking = {}) => (row.status = "running" ~> row.status # "running")

\* The attempts that may write to the destination database.
Copying == {s \in Slots : slot[s].pc \in {"loaded", "executing"}}

\* The status check of start_migration is all that keeps two attempts from
\* copying the same tables at once.
OneCopier == \A s1, s2 \in Copying : s1 = s2

\* A migration reported as completed reports all of its rows.
CompletedCounts == row.status = "completed" => row.processed_rows = TotalBatches

\* "The migration must be in 'pending' or 'failed' status" when it is enqueued.
StartedFromPendingOrFailed ==
  [][sent' # sent => row.status \in {"pending", "failed"}]_vars

\* "Progress is persisted": with no handler, message or attempt left, the row
\* does not say that the migration is still running.
Quiet ==
  /\ \A r \in Requests : req[r].pc = "idle"
  /\ \A s \in Slots : slot[s].pc = "idle"
  /\ queue \cup unacked = {}
OutcomePersisted == Quiet => row.status # "running"

=============================================================================
