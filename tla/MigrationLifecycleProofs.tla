---------------------- MODULE MigrationLifecycleProofs ----------------------
(***************************************************************************)
(* What holds of MigrationLifecycle for any number of requests, slots,     *)
(* tasks, batches and failures.                                            *)
(***************************************************************************)
EXTENDS MigrationLifecycle, TLAPS

-----------------------------------------------------------------------------
(* The row and the sessions that write it.                                 *)

\* A commit turns one row into another, whatever the session loaded.
LEMMA FlushType ==
  ASSUME NEW now \in RowType, NEW seen \in RowType, NEW new \in RowType
  PROVE  Flush(now, seen, new) \in RowType
BY DEF Flush, Written, RowType

\* The columns that are stamped in r are stamped in q.
Older(r, q) ==
  /\ r.started_at = "set" => q.started_at = "set"
  /\ r.completed_at = "set" => q.completed_at = "set"
  /\ r.error_message = "set" => q.error_message = "set"

\* A session whose row is older than what the database holds by now, and that
\* only adds stamps, can neither remove a stamp nor publish a status without
\* the stamps that belong to it.
LEMMA FlushKeepsStamps ==
  ASSUME NEW now \in RowType, NEW seen \in RowType, NEW new \in RowType,
         Older(seen, now), Older(seen, new), Stamped(now), Stamped(new)
  PROVE  /\ Stamped(Flush(now, seen, new))
         /\ Older(now, Flush(now, seen, new))
<1> DEFINE f == Flush(now, seen, new)
<1>1. /\ f.status = Written(now.status, seen.status, new.status)
      /\ f.started_at = Written(now.started_at, seen.started_at, new.started_at)
      /\ f.completed_at = Written(now.completed_at, seen.completed_at, new.completed_at)
      /\ f.error_message = Written(now.error_message, seen.error_message, new.error_message)
  BY DEF Flush
<1>2. Marks = {"null", "set"}
  BY DEF Marks
<1>3. /\ new.started_at = "set" => f.started_at = "set"
      /\ new.completed_at = "set" => f.completed_at = "set"
      /\ new.error_message = "set" => f.error_message = "set"
  BY <1>1 DEF Written, Older
<1>4. Older(now, f)
  BY <1>1, <1>2 DEF Written, Older, RowType
<1>5. f.status = now.status \/ f.status = new.status
  BY <1>1 DEF Written
<1>6. Stamped(f)
  BY <1>3, <1>4, <1>5 DEF Stamped, Older
<1> QED
  BY <1>4, <1>6

-----------------------------------------------------------------------------
(* Type correctness.                                                       *)

LEMMA BlankType == Blank \in RowType
BY ConstantsOK DEF Blank, RowType, Statuses, Marks

LEMMA IdleTypes == IdleRequest \in RequestType /\ IdleSlot \in SlotType /\ Busy(IdleSlot)
BY BlankType, ConstantsOK
   DEF IdleRequest, IdleSlot, RequestType, SlotType, RequestPCs, SlotPCs, Results, Busy

\* What the handlers and the task make of the row they loaded is a row.
LEMMA EditsType ==
  ASSUME NEW seen \in RowType, NEW t \in TaskIds \cup {NoTask}, NEW n \in 0..TotalBatches
  PROVE  /\ [seen EXCEPT !.celery_task_id = t, !.status = "running",
                         !.started_at = "set"] \in RowType
         /\ [seen EXCEPT !.status = "cancelled", !.completed_at = "set"] \in RowType
         /\ [seen EXCEPT !.status = "running", !.started_at = "set"] \in RowType
         /\ MarkedFailed(seen) \in RowType
         /\ [seen EXCEPT !.processed_rows = n] \in RowType
         /\ \A failed \in BOOLEAN :
              [seen EXCEPT !.status = IF failed THEN "failed" ELSE "completed",
                           !.processed_rows = n,
                           !.completed_at = "set",
                           !.error_message = IF failed THEN "set" ELSE @] \in RowType
BY DEF RowType, Statuses, Marks, MarkedFailed

LEMMA LoadType ==
  ASSUME TypeOK, NEW s \in Slots, NEW from, NEW to \in SlotPCs,
         from # "idle", Load(s, from, to)
  PROVE  TypeOK'
BY DEF TypeOK, Load, SlotType, Busy, broker, history

LEMMA CommitType ==
  ASSUME TypeOK, NEW s \in Slots, NEW from, NEW to \in SlotPCs, NEW new \in RowType,
         from # "idle", Commit(s, from, to, new)
  PROVE  TypeOK'
<1>1. slot[s].seen \in RowType
  BY DEF TypeOK, SlotType
<1>2. row' \in RowType
  BY <1>1, FlushType DEF TypeOK, Commit
<1>3. slot' \in [Slots -> SlotType] /\ \A x \in Slots : Busy(slot'[x])
  BY BlankType DEF TypeOK, Commit, SlotType, Busy
<1> QED
  BY <1>2, <1>3 DEF TypeOK, Commit, broker, history

LEMMA FaultType ==
  ASSUME TypeOK, NEW kind, Fault(kind)
  PROVE  faults' \in 0..MaxFaults
BY ConstantsOK DEF TypeOK, Fault

\* Every variable keeps its shape in every step.
THEOREM TypeCorrect == Spec => []TypeOK
<1>1. Init => TypeOK
  BY BlankType, IdleTypes, ConstantsOK DEF Init, TypeOK
<1>2. TypeOK /\ [Next]_vars => TypeOK'
  <2> SUFFICES ASSUME TypeOK, [Next]_vars
               PROVE  TypeOK'
    OBVIOUS
  <2>1. CASE CreateMigration
    BY <2>1, BlankType DEF CreateMigration, TypeOK, RowType, Statuses, broker, history
  <2>2. ASSUME NEW r \in Requests,
               StartLoad(r) \/ CancelLoad(r) \/ RequestStep(r) \/ RequestAborts(r)
        PROVE  TypeOK'
    <3>1. CASE StartLoad(r)
      BY <3>1, ConstantsOK DEF StartLoad, TypeOK, RequestType, RequestPCs, broker, history
    <3>2. CASE CancelLoad(r)
      BY <3>2, ConstantsOK DEF CancelLoad, TypeOK, RequestType, RequestPCs, broker, history
    <3>3. CASE StartSend(r)
      <4>1. PICK t \in TaskIds :
              /\ req' = [req EXCEPT ![r].pc = "start_sent", ![r].task = t]
              /\ queue' = queue \cup {t}
              /\ sent' = sent \cup {t}
        BY <3>3 DEF StartSend
      <4>2. req' \in [Requests -> RequestType]
        BY <4>1 DEF TypeOK, RequestType, RequestPCs
      <4> QED
        BY <3>3, <4>1, <4>2 DEF StartSend, TypeOK
    <3>4. CASE StartCommit(r)
      <4>1. req[r].seen \in RowType /\ req[r].task \in TaskIds \cup {NoTask}
        BY DEF TypeOK, RequestType
      <4>2. 0 \in 0..TotalBatches
        BY ConstantsOK
      <4>3. row' \in RowType
        BY <3>4, <4>1, <4>2, EditsType, FlushType
           DEF StartCommit, TypeOK
      <4> QED
        BY <3>4, <4>3, IdleTypes DEF StartCommit, TypeOK, broker, history
    <3>5. CASE CancelRevoke(r)
      BY <3>5 DEF CancelRevoke, TypeOK, RequestType, RequestPCs, RowType, history
    <3>6. CASE CancelCommit(r)
      <4>1. req[r].seen \in RowType /\ req[r].task \in TaskIds \cup {NoTask}
        BY DEF TypeOK, RequestType
      <4>2. 0 \in 0..TotalBatches
        BY ConstantsOK
      <4>3. row' \in RowType
        BY <3>6, <4>1, <4>2, EditsType, FlushType
           DEF CancelCommit, TypeOK
      <4> QED
        BY <3>6, <4>3, IdleTypes DEF CancelCommit, TypeOK, broker, history
    <3>7. CASE RequestAborts(r)
      BY <3>7, FaultType, IdleTypes DEF RequestAborts, TypeOK, broker, history
    <3> QED
      BY <2>2, <3>1, <3>2, <3>3, <3>4, <3>5, <3>6, <3>7 DEF RequestStep
  <2>3. ASSUME NEW s \in Slots, TaskStep(s)
        PROVE  TypeOK'
    <3>0. slot[s] \in SlotType /\ slot[s].seen \in RowType /\ slot[s].batches \in 0..TotalBatches
      BY DEF TypeOK, SlotType
    <3>1. CASE Receive(s)
      <4>1. PICK t \in TaskIds :
              /\ slot' = [slot EXCEPT ![s] = [IdleSlot EXCEPT !.pc = "begin", !.task = t]]
              /\ queue' = queue \ {t}
              /\ unacked' = IF TaskAcksLate THEN unacked \cup {t} ELSE unacked
        BY <3>1 DEF Receive, TypeOK
      <4>2. [IdleSlot EXCEPT !.pc = "begin", !.task = t] \in SlotType
        BY IdleTypes DEF SlotType, SlotPCs
      <4>3. Busy([IdleSlot EXCEPT !.pc = "begin", !.task = t])
        BY IdleTypes DEF SlotType, Busy
      <4> QED
        BY <3>1, <4>1, <4>2, <4>3 DEF Receive, TypeOK, history
    <3>2. CASE ExecuteLoad(s) \/ FinaliseLoad(s) \/ FailLoad(s) \/ OnFailureLoad(s)
      BY <3>2, LoadType DEF ExecuteLoad, FinaliseLoad, FailLoad, OnFailureLoad, SlotPCs
    <3>3. CASE MarkRunning(s)
      BY <3>0, <3>3, CommitType, EditsType DEF MarkRunning, SlotPCs
    <3>4. CASE FinaliseCommit(s)
      BY <3>0, <3>4, CommitType, EditsType DEF FinaliseCommit, SlotPCs
    <3>5. CASE FailCommit(s) \/ OnFailureCommit(s)
      BY <3>0, <3>5, CommitType, EditsType DEF FailCommit, OnFailureCommit, SlotPCs
    <3>6. CASE Progress(s)
      <4>1. slot[s].batches + 1 \in 0..TotalBatches
        BY <3>0, <3>6, ConstantsOK DEF Progress
      <4>2. row' \in RowType
        BY <3>6, <4>1, EditsType DEF Progress, TypeOK
      <4>3. slot' \in [Slots -> SlotType]
        BY <3>6, <4>1 DEF Progress, TypeOK, SlotType
      <4>4. \A x \in Slots : Busy(slot'[x])
        BY <3>6 DEF Progress, TypeOK, SlotType, Busy
      <4> QED
        BY <3>6, <4>2, <4>3, <4>4 DEF Progress, TypeOK, broker, history
    <3>7. CASE ExecutorReturns(s)
      <4>1. PICK result \in {"ok", "failed_tables"} :
              /\ slot' = [slot EXCEPT ![s].pc = "finalising", ![s].result = result]
              /\ succeeded' = IF result = "ok" THEN succeeded \cup {slot[s].task}
                                               ELSE succeeded
        BY <3>7 DEF ExecutorReturns
      <4>2. slot[s].task \in TaskIds
        BY <3>7 DEF ExecutorReturns, TypeOK, Busy
      <4>3. [slot[s] EXCEPT !.pc = "finalising", !.result = result] \in SlotType
        BY <3>0 DEF SlotType, SlotPCs, Results
      <4>4. slot' \in [Slots -> SlotType]
        BY <4>1, <4>3 DEF TypeOK
      <4>5. \A x \in Slots : Busy(slot'[x])
        BY <4>1, <4>2 DEF TypeOK, SlotType, Busy
      <4> QED
        BY <3>7, <4>1, <4>2, <4>4, <4>5 DEF ExecutorReturns, TypeOK, broker
    <3>8. CASE Ack(s)
      BY <3>8, IdleTypes DEF Ack, Settle, TypeOK, Busy
    <3> QED
      BY <2>3, <3>1, <3>2, <3>3, <3>4, <3>5, <3>6, <3>7, <3>8 DEF TaskStep
  <2>4. ASSUME NEW s \in Slots, TaskFault(s)
        PROVE  TypeOK'
    <3>1. CASE ExecutorRaises(s)
      BY <3>1, FaultType DEF ExecutorRaises, Move, TypeOK, SlotType, SlotPCs, Busy, broker, history
    <3>2. CASE Escapes(s)
      BY <3>2, FaultType, BlankType DEF Escapes, TypeOK, SlotType, SlotPCs, Busy, broker, history
    <3>3. CASE HardLimit(s)
      BY <3>3, FaultType, IdleTypes DEF HardLimit, Settle, TypeOK, Busy
    <3>4. CASE WorkerLost(s)
      BY <3>4, FaultType, IdleTypes DEF WorkerLost, TypeOK, history
    <3>5. CASE LateError(s)
      BY <3>5, FaultType DEF LateError, Move, TypeOK, SlotType, SlotPCs, Busy, broker, history
    <3> QED
      BY <2>4, <3>1, <3>2, <3>3, <3>4, <3>5 DEF TaskFault
  <2>5. ASSUME NEW t \in TaskIds, BrokerStep(t) \/ LoseRevoke(t)
        PROVE  TypeOK'
    <3>1. CASE Restore(t)
      BY <3>1, FaultType DEF Restore, TypeOK, history
    <3>2. CASE Discard(t)
      BY <3>2 DEF Discard, TypeOK
    <3>3. CASE DeliverRevoke(t)
      BY <3>3, IdleTypes DEF DeliverRevoke, TypeOK
    <3>4. CASE LoseRevoke(t)
      BY <3>4, FaultType DEF LoseRevoke, TypeOK, history
    <3> QED
      BY <2>5, <3>1, <3>2, <3>3, <3>4 DEF BrokerStep
  <2>6. CASE NodeCrash
    BY <2>6, FaultType, IdleTypes DEF NodeCrash, TypeOK, history
  <2>7. CASE UNCHANGED vars
    BY <2>7 DEF vars, broker, history, TypeOK
  <2> QED
    BY <2>1, <2>2, <2>3, <2>4, <2>5, <2>6, <2>7 DEF Next
<1> QED
  BY <1>1, <1>2, PTL DEF Spec

-----------------------------------------------------------------------------
(* No stamp is lost.                                                       *)

\* Sessions only ever hold rows that are older than the row in the database.
Stamps ==
  /\ Stamped(row)
  /\ \A r \in Requests : Older(req[r].seen, row)
  /\ \A s \in Slots : Older(slot[s].seen, row)

\* A step that leaves the row alone, and only drops or reloads sessions.
LEMMA SessionsStep ==
  ASSUME Stamps, row' = row,
         \A r \in Requests : req'[r].seen \in {req[r].seen, row, Blank},
         \A s \in Slots : slot'[s].seen \in {slot[s].seen, row, Blank}
  PROVE  Stamps'
<1>1. \A x : x \in {row, Blank} => Older(x, row)
  BY DEF Older, Blank
<1> QED
  BY <1>1 DEF Stamps

\* A step that commits a session.
LEMMA CommitStep ==
  ASSUME TypeOK, Stamps, NEW seen \in RowType, NEW new \in RowType,
         Older(seen, row), Older(seen, new), Stamped(new),
         row' = Flush(row, seen, new),
         \A r \in Requests : req'[r].seen \in {req[r].seen, Blank},
         \A s \in Slots : slot'[s].seen \in {slot[s].seen, Blank}
  PROVE  Stamps'
<1>1. Stamped(row') /\ Older(row, row')
  BY FlushKeepsStamps DEF TypeOK, Stamps
<1>2. \A x : Older(x, row) => Older(x, row')
  BY <1>1 DEF Older
<1>3. Older(Blank, row')
  BY DEF Older, Blank
<1> QED
  BY <1>1, <1>2, <1>3 DEF Stamps

\* What the sessions write adds stamps, those that the new status needs.
LEMMA EditsStamp ==
  ASSUME NEW seen \in RowType, NEW t, NEW n, NEW failed \in BOOLEAN
  PROVE  /\ LET new == [seen EXCEPT !.celery_task_id = t, !.status = "running",
                                    !.started_at = "set"]
            IN  Older(seen, new) /\ Stamped(new)
         /\ LET new == [seen EXCEPT !.status = "cancelled", !.completed_at = "set"]
            IN  Older(seen, new) /\ Stamped(new)
         /\ LET new == [seen EXCEPT !.status = "running", !.started_at = "set"]
            IN  Older(seen, new) /\ Stamped(new)
         /\ Older(seen, MarkedFailed(seen)) /\ Stamped(MarkedFailed(seen))
         /\ LET new == [seen EXCEPT !.status = IF failed THEN "failed" ELSE "completed",
                                    !.processed_rows = n,
                                    !.completed_at = "set",
                                    !.error_message = IF failed THEN "set" ELSE @]
            IN  Older(seen, new) /\ Stamped(new)
BY DEF RowType, Older, Stamped, MarkedFailed

\* A commit of a slot's session.
LEMMA SlotCommitStep ==
  ASSUME TypeOK, Stamps, NEW s \in Slots, NEW from, NEW to, NEW new \in RowType,
         Older(slot[s].seen, new), Stamped(new), Commit(s, from, to, new)
  PROVE  Stamps'
<1>1. slot[s].seen \in RowType /\ Older(slot[s].seen, row)
  BY DEF TypeOK, SlotType, Stamps
<1>2. \A x \in Slots : slot'[x].seen \in {slot[x].seen, Blank}
  BY DEF Commit, TypeOK, SlotType
<1> QED
  BY <1>1, <1>2, CommitStep DEF Commit

\* Whoever commits last, and whatever it had loaded, the row's status comes
\* with the timestamps and the message that belong to it.
THEOREM StampsKept == Spec => []StatusStamped
<1>1. Init => Stamps
  BY DEF Init, Stamps, Stamped, Older, Blank, IdleRequest, IdleSlot
<1>2. TypeOK /\ Stamps /\ [Next]_vars => Stamps'
  <2> SUFFICES ASSUME TypeOK, Stamps, [Next]_vars
               PROVE  Stamps'
    OBVIOUS
  <2>1. CASE CreateMigration
    BY <2>1 DEF CreateMigration, Stamps, Stamped, Older, Blank, TypeOK, RowType
  <2>2. ASSUME NEW r \in Requests, StartCommit(r) \/ CancelCommit(r)
        PROVE  Stamps'
    <3>1. /\ req[r].seen \in RowType /\ req[r].task \in TaskIds \cup {NoTask}
          /\ Older(req[r].seen, row)
      BY DEF TypeOK, RequestType, Stamps
    <3>2. 0 \in 0..TotalBatches
      BY ConstantsOK
    <3>3. \A x \in Requests : req'[x].seen \in {req[x].seen, Blank}
      BY <2>2 DEF StartCommit, CancelCommit, IdleRequest, TypeOK
    <3>4. CASE StartCommit(r)
      <4> DEFINE new == [req[r].seen EXCEPT !.celery_task_id = req[r].task,
                                            !.status = "running",
                                            !.started_at = "set"]
      <4>1. new \in RowType
        BY <3>1, <3>2, EditsType
      <4>2. Older(req[r].seen, new) /\ Stamped(new)
        BY <3>1, EditsStamp
      <4>3. row' = Flush(row, req[r].seen, new) /\ slot' = slot
        BY <3>4 DEF StartCommit
      <4> HIDE DEF new
      <4> QED
        BY <3>1, <3>3, <4>1, <4>2, <4>3, CommitStep
    <3>5. CASE CancelCommit(r)
      <4> DEFINE new == [req[r].seen EXCEPT !.status = "cancelled", !.completed_at = "set"]
      <4>1. new \in RowType
        BY <3>1, <3>2, EditsType
      <4>2. Older(req[r].seen, new) /\ Stamped(new)
        BY <3>1, EditsStamp
      <4>3. row' = Flush(row, req[r].seen, new) /\ slot' = slot
        BY <3>5 DEF CancelCommit
      <4> HIDE DEF new
      <4> QED
        BY <3>1, <3>3, <4>1, <4>2, <4>3, CommitStep
    <3> QED
      BY <2>2, <3>4, <3>5
  <2>3. ASSUME NEW r \in Requests, StartLoad(r) \/ CancelLoad(r) \/ RequestAborts(r)
        PROVE  Stamps'
    BY <2>3, SessionsStep
       DEF StartLoad, CancelLoad, RequestAborts, IdleRequest, TypeOK
  <2>4. ASSUME NEW r \in Requests, StartSend(r) \/ CancelRevoke(r)
        PROVE  Stamps'
    <3>1. \A x \in Requests : req'[x].seen = req[x].seen
      BY <2>4 DEF StartSend, CancelRevoke, TypeOK, RequestType
    <3> QED
      BY <2>4, <3>1, SessionsStep DEF StartSend, CancelRevoke
  <2>5. ASSUME NEW s \in Slots, TaskStep(s)
        PROVE  Stamps'
    <3>0. /\ slot[s].seen \in RowType /\ slot[s].batches \in 0..TotalBatches
          /\ slot[s] \in SlotType
      BY DEF TypeOK, SlotType
    <3>1. CASE MarkRunning(s)
      BY <3>0, <3>1, EditsType, EditsStamp, SlotCommitStep DEF MarkRunning
    <3>2. CASE FinaliseCommit(s)
      <4> DEFINE failed == slot[s].result = "failed_tables"
                 new == [slot[s].seen EXCEPT
                           !.status = IF failed THEN "failed" ELSE "completed",
                           !.processed_rows = slot[s].batches,
                           !.completed_at = "set",
                           !.error_message = IF failed THEN "set" ELSE @]
      <4>1. Commit(s, "finalise_loaded", "finalised", new)
        BY <3>2 DEF FinaliseCommit
      <4>2. new \in RowType
        BY <3>0, EditsType
      <4>3. Older(slot[s].seen, new) /\ Stamped(new)
        BY <3>0, EditsStamp
      <4> HIDE DEF new
      <4> QED
        BY <4>1, <4>2, <4>3, SlotCommitStep
    <3>3. CASE FailCommit(s) \/ OnFailureCommit(s)
      BY <3>0, <3>3, EditsType, EditsStamp, SlotCommitStep DEF FailCommit, OnFailureCommit
    <3>4. CASE Progress(s)
      <4>1. \A x \in Slots : slot'[x].seen = slot[x].seen
        BY <3>4 DEF Progress, TypeOK, SlotType
      <4>2. Stamped(row') /\ Older(row, row')
        BY <3>4 DEF Progress, Stamps, Stamped, Older, TypeOK, RowType
      <4> QED
        BY <3>4, <4>1, <4>2 DEF Progress, Stamps, Older
    <3>5. CASE ExecuteLoad(s) \/ FinaliseLoad(s) \/ FailLoad(s) \/ OnFailureLoad(s)
      BY <3>5, SessionsStep
         DEF ExecuteLoad, FinaliseLoad, FailLoad, OnFailureLoad, Load, TypeOK, SlotType
    <3>6. CASE Receive(s) \/ ExecutorReturns(s) \/ Ack(s)
      <4>1. \A x \in Slots : slot'[x].seen \in {slot[x].seen, Blank}
        <5>1. CASE Receive(s)
          <6>1. PICK t \in TaskIds :
                  slot' = [slot EXCEPT ![s] = [IdleSlot EXCEPT !.pc = "begin", !.task = t]]
            BY <5>1 DEF Receive, TypeOK
          <6> QED
            BY <6>1 DEF IdleSlot, TypeOK, SlotType
        <5>2. CASE ExecutorReturns(s)
          BY <5>2 DEF ExecutorReturns, TypeOK, SlotType
        <5>3. CASE Ack(s)
          BY <5>3 DEF Ack, Settle, IdleSlot, TypeOK, SlotType
        <5> QED
          BY <3>6, <5>1, <5>2, <5>3
      <4> QED
        BY <3>6, <4>1, SessionsStep DEF Receive, ExecutorReturns, Ack
    <3> QED
      BY <2>5, <3>1, <3>2, <3>3, <3>4, <3>5, <3>6 DEF TaskStep
  <2>6. ASSUME NEW s \in Slots, TaskFault(s)
        PROVE  Stamps'
    <3>1. \A x \in Slots : slot'[x].seen \in {slot[x].seen, Blank}
      BY <2>6 DEF TaskFault, ExecutorRaises, Escapes, LateError, HardLimit, WorkerLost, Move, Settle,
                  IdleSlot, TypeOK, SlotType
    <3> QED
      BY <2>6, <3>1, SessionsStep
         DEF TaskFault, ExecutorRaises, Escapes, LateError, HardLimit, WorkerLost
  <2>7. ASSUME NEW t \in TaskIds, BrokerStep(t) \/ LoseRevoke(t)
        PROVE  Stamps'
    BY <2>7, SessionsStep
       DEF BrokerStep, Restore, Discard, DeliverRevoke, LoseRevoke, IdleSlot
  <2>8. CASE NodeCrash
    BY <2>8, SessionsStep DEF NodeCrash, IdleSlot
  <2>9. CASE UNCHANGED vars
    BY <2>9 DEF vars, Stamps, Older, Stamped
  <2> QED
    BY <2>1, <2>2, <2>3, <2>4, <2>5, <2>6, <2>7, <2>8, <2>9 DEF Next, RequestStep
<1>3. Stamps => StatusStamped
  BY DEF Stamps, StatusStamped
<1> QED
  BY <1>1, <1>2, <1>3, TypeCorrect, PTL DEF Spec

-----------------------------------------------------------------------------
(* No task is lost.                                                        *)

\* Late acknowledgement and requeueing keep every accepted start in the broker
\* until an attempt settled it, for any sequence of crashes and redeliveries.
THEOREM TasksKept == Spec => []NoLostTask
<1>1. Init => NoLostTask
  BY DEF Init, NoLostTask
<1>2. NoLostTask /\ [Next]_vars => NoLostTask'
  <2> SUFFICES ASSUME NoLostTask, [Next]_vars
               PROVE  NoLostTask'
    OBVIOUS
  <2>1. ASSUME NEW r \in Requests, StartSend(r)
        PROVE  NoLostTask'
    BY <2>1 DEF StartSend, NoLostTask
  <2>2. ASSUME NEW r \in Requests,
               StartLoad(r) \/ CancelLoad(r) \/ StartCommit(r) \/ CancelRevoke(r)
                 \/ CancelCommit(r) \/ RequestAborts(r)
        PROVE  NoLostTask'
    BY <2>2 DEF StartLoad, CancelLoad, StartCommit, CancelRevoke, CancelCommit,
                RequestAborts, NoLostTask, broker, history
  <2>3. ASSUME NEW s \in Slots, Receive(s)
        PROVE  NoLostTask'
    BY <2>3 DEF Receive, TaskAcksLate, NoLostTask, history
  <2>4. ASSUME NEW s \in Slots, Ack(s) \/ HardLimit(s)
        PROVE  NoLostTask'
    BY <2>4 DEF Ack, HardLimit, Settle, NoLostTask
  <2>5. ASSUME NEW s \in Slots, WorkerLost(s)
        PROVE  NoLostTask'
    BY <2>5 DEF WorkerLost, RejectOnWorkerLost, NoLostTask, history
  <2>6. ASSUME NEW s \in Slots, TaskStep(s) \/ TaskFault(s),
               ~Receive(s), ~Ack(s), ~HardLimit(s), ~WorkerLost(s)
        PROVE  NoLostTask'
    <3>1. UNCHANGED <<queue, unacked, sent, ended>>
      BY <2>6 DEF TaskStep, TaskFault, ExecuteLoad, MarkRunning, Progress, ExecutorReturns,
                  FinaliseLoad, FinaliseCommit, FailLoad, FailCommit, OnFailureLoad,
                  OnFailureCommit, ExecutorRaises, Escapes, LateError, Move, Load,
                  Commit, broker, history
    <3> QED
      BY <3>1 DEF NoLostTask
  <2>7. ASSUME NEW t \in TaskIds, BrokerStep(t) \/ LoseRevoke(t)
        PROVE  NoLostTask'
    BY <2>7 DEF BrokerStep, Restore, Discard, DeliverRevoke, LoseRevoke, NoLostTask, history
  <2>8. CASE CreateMigration \/ NodeCrash \/ UNCHANGED vars
    BY <2>8 DEF CreateMigration, NodeCrash, vars, NoLostTask, broker, history
  <2> QED
    BY <2>1, <2>2, <2>3, <2>4, <2>5, <2>6, <2>7, <2>8 DEF Next, RequestStep
<1> QED
  BY <1>1, <1>2, PTL DEF Spec

-----------------------------------------------------------------------------
(* "completed" is never written by mistake.                                *)

\* An attempt that finalises knows what its executor returned.
Earned ==
  /\ CompletedWasEarned
  /\ \A s \in Slots : slot[s].pc \in {"finalising", "finalise_loaded"} =>
       \/ slot[s].result = "failed_tables"
       \/ slot[s].result = "ok" /\ succeeded # {}

\* A commit either keeps the status or publishes the session's.
LEMMA FlushStatus ==
  ASSUME NEW now, NEW seen, NEW new
  PROVE  Flush(now, seen, new).status \in {now.status, new.status}
BY DEF Flush, Written

\* The statuses of the edited rows.
LEMMA EditsStatus ==
  ASSUME NEW seen \in RowType, NEW t, NEW n, NEW failed \in BOOLEAN
  PROVE  /\ [seen EXCEPT !.celery_task_id = t, !.status = "running",
                         !.started_at = "set"].status = "running"
         /\ [seen EXCEPT !.status = "cancelled", !.completed_at = "set"].status = "cancelled"
         /\ [seen EXCEPT !.status = "running", !.started_at = "set"].status = "running"
         /\ MarkedFailed(seen).status = "failed"
         /\ failed => [seen EXCEPT !.status = IF failed THEN "failed" ELSE "completed",
                                   !.processed_rows = n,
                                   !.completed_at = "set",
                                   !.error_message = IF failed THEN "set" ELSE @
                      ].status = "failed"
BY DEF RowType, MarkedFailed

\* A step in which no attempt starts or goes on finalising, and that completes
\* nothing.
LEMMA EarnedStep ==
  ASSUME Earned, succeeded' = succeeded,
         row'.status = "completed" => row.status = "completed",
         \A s \in Slots : slot'[s].pc \in {"finalising", "finalise_loaded"} =>
           slot'[s].pc = slot[s].pc /\ slot'[s].result = slot[s].result
  PROVE  Earned'
BY DEF Earned, CompletedWasEarned

\* No race of stale sessions makes a row "completed": some attempt's executor
\* returned without a failed table.
THEOREM CompletionIsEarned == Spec => []CompletedWasEarned
<1>1. Init => Earned
  BY DEF Init, Earned, CompletedWasEarned, Blank, IdleSlot
<1>2. TypeOK /\ Earned /\ [Next]_vars => Earned'
  <2> SUFFICES ASSUME TypeOK, Earned, [Next]_vars
               PROVE  Earned'
    OBVIOUS
  <2>1. CASE CreateMigration
    BY <2>1, EarnedStep DEF CreateMigration, Blank, history
  <2>2. ASSUME NEW r \in Requests, StartCommit(r) \/ CancelCommit(r)
        PROVE  Earned'
    <3>1. req[r].seen \in RowType
      BY DEF TypeOK, RequestType
    <3>2. row'.status \in {row.status, "running", "cancelled"}
      <4>1. CASE StartCommit(r)
        <5> DEFINE new == [req[r].seen EXCEPT !.celery_task_id = req[r].task, !.status = "running",
                                            !.started_at = "set"]
        <5>1. row' = Flush(row, req[r].seen, new)
          BY <4>1 DEF StartCommit
        <5>2. new.status = "running"
          BY <3>1, EditsStatus
        <5> HIDE DEF new
        <5> QED
          BY <5>1, <5>2, FlushStatus
      <4>2. CASE CancelCommit(r)
        <5> DEFINE new == [req[r].seen EXCEPT !.status = "cancelled", !.completed_at = "set"]
        <5>1. row' = Flush(row, req[r].seen, new)
          BY <4>2 DEF CancelCommit
        <5>2. new.status = "cancelled"
          BY <3>1, EditsStatus
        <5> HIDE DEF new
        <5> QED
          BY <5>1, <5>2, FlushStatus
      <4> QED
        BY <2>2, <4>1, <4>2
    <3> QED
      BY <2>2, <3>2, EarnedStep DEF StartCommit, CancelCommit, history
  <2>3. ASSUME NEW r \in Requests,
               StartLoad(r) \/ StartSend(r) \/ CancelLoad(r) \/ CancelRevoke(r)
                 \/ RequestAborts(r)
        PROVE  Earned'
    BY <2>3, EarnedStep
       DEF StartLoad, StartSend, CancelLoad, CancelRevoke, RequestAborts, history
  <2>4. ASSUME NEW s \in Slots, TaskStep(s)
        PROVE  Earned'
    <3>0. slot[s].seen \in RowType /\ slot[s] \in SlotType /\ slot \in [Slots -> SlotType]
      BY DEF TypeOK, SlotType
    <3>1. CASE MarkRunning(s) \/ FailCommit(s) \/ OnFailureCommit(s)
      <4>1. row'.status \in {row.status, "running", "failed"}
        <5>1. CASE MarkRunning(s)
          <6> DEFINE new == [slot[s].seen EXCEPT !.status = "running", !.started_at = "set"]
          <6>1. row' = Flush(row, slot[s].seen, new)
            BY <5>1 DEF MarkRunning, Commit
          <6>2. new.status = "running"
            BY <3>0, EditsStatus
          <6> HIDE DEF new
          <6> QED
            BY <6>1, <6>2, FlushStatus
        <5>2. CASE FailCommit(s) \/ OnFailureCommit(s)
          <6> DEFINE new == MarkedFailed(slot[s].seen)
          <6>1. row' = Flush(row, slot[s].seen, new)
            BY <5>2 DEF FailCommit, OnFailureCommit, Commit
          <6>2. new.status = "failed"
            BY <3>0, EditsStatus
          <6> HIDE DEF new
          <6> QED
            BY <6>1, <6>2, FlushStatus
        <5> QED
          BY <3>1, <5>1, <5>2
      <4>2. \A x \in Slots : slot'[x].pc \notin {"finalising", "finalise_loaded"}
                            \/ slot'[x] = slot[x]
        BY <3>0, <3>1 DEF MarkRunning, FailCommit, OnFailureCommit, Commit, SlotType
      <4> QED
        BY <3>1, <4>1, <4>2, EarnedStep
           DEF MarkRunning, FailCommit, OnFailureCommit, Commit, history
    <3>2. CASE FinaliseCommit(s)
      <4>1. row'.status \in {row.status, "failed"} \/ slot[s].result # "failed_tables"
        <5> DEFINE failed == slot[s].result = "failed_tables"
                   new == [slot[s].seen EXCEPT
                             !.status = IF failed THEN "failed" ELSE "completed",
                             !.processed_rows = slot[s].batches,
                             !.completed_at = "set",
                             !.error_message = IF failed THEN "set" ELSE @]
        <5>1. row' = Flush(row, slot[s].seen, new)
          BY <3>2 DEF FinaliseCommit, Commit
        <5>2. failed => new.status = "failed"
          BY <3>0, EditsStatus
        <5> HIDE DEF new
        <5> QED
          BY <5>1, <5>2, FlushStatus
      <4>2. slot[s].result # "failed_tables" => succeeded # {}
        BY <3>2 DEF FinaliseCommit, Commit, Earned
      <4>3. \A x \in Slots : slot'[x].pc = "finalised" \/ slot'[x] = slot[x]
        BY <3>0, <3>2 DEF FinaliseCommit, Commit, SlotType
      <4>4. succeeded' = succeeded
        BY <3>2 DEF FinaliseCommit, Commit, history
      <4> QED
        BY <4>1, <4>2, <4>3, <4>4 DEF Earned, CompletedWasEarned
    <3>3. CASE ExecutorReturns(s)
      <4>1. PICK result \in {"ok", "failed_tables"} :
              /\ slot' = [slot EXCEPT ![s].pc = "finalising", ![s].result = result]
              /\ succeeded' = IF result = "ok" THEN succeeded \cup {slot[s].task}
                                               ELSE succeeded
        BY <3>3 DEF ExecutorReturns
      <4>2. slot'[s].result = result /\ \A x \in Slots \ {s} : slot'[x] = slot[x]
        BY <3>0, <4>1 DEF SlotType
      <4>3. row' = row
        BY <3>3 DEF ExecutorReturns
      <4> QED
        BY <4>1, <4>2, <4>3 DEF Earned, CompletedWasEarned
    <3>4. CASE FinaliseLoad(s)
      <4>1. slot[s].pc = "finalising" /\ slot'[s].result = slot[s].result
        BY <3>0, <3>4 DEF FinaliseLoad, Load, SlotType
      <4>3. \A x \in Slots \ {s} : slot'[x] = slot[x]
        BY <3>0, <3>4 DEF FinaliseLoad, Load
      <4>2. row' = row /\ succeeded' = succeeded
        BY <3>4 DEF FinaliseLoad, Load, history
      <4> QED
        BY <4>1, <4>2, <4>3 DEF Earned, CompletedWasEarned
    <3>5. CASE ExecuteLoad(s) \/ FailLoad(s) \/ OnFailureLoad(s)
      <4>1. \A x \in Slots : slot'[x].pc \notin {"finalising", "finalise_loaded"}
                            \/ slot'[x] = slot[x]
        BY <3>0, <3>5 DEF ExecuteLoad, FailLoad, OnFailureLoad, Load, SlotType
      <4> QED
        BY <3>5, <4>1, EarnedStep DEF ExecuteLoad, FailLoad, OnFailureLoad, Load, history
    <3>6. CASE Progress(s)
      <4>1. \A x \in Slots : slot'[x].pc = slot[x].pc /\ slot'[x].result = slot[x].result
        BY <3>0, <3>6 DEF Progress, SlotType
      <4>2. row'.status = row.status
        BY <3>6 DEF Progress, TypeOK, RowType
      <4> QED
        BY <3>6, <4>1, <4>2, EarnedStep DEF Progress, history
    <3>7. CASE Receive(s)
      <4>1. PICK t \in TaskIds :
              slot' = [slot EXCEPT ![s] = [IdleSlot EXCEPT !.pc = "begin", !.task = t]]
        BY <3>7 DEF Receive, TypeOK
      <4>2. \A x \in Slots : slot'[x].pc = "begin" \/ slot'[x] = slot[x]
        BY <3>0, <4>1 DEF IdleSlot
      <4> QED
        BY <3>7, <4>2, EarnedStep DEF Receive, history
    <3>8. CASE Ack(s)
      <4>1. \A x \in Slots : slot'[x].pc = "idle" \/ slot'[x] = slot[x]
        BY <3>0, <3>8 DEF Ack, Settle, IdleSlot
      <4> QED
        BY <3>8, <4>1, EarnedStep DEF Ack
    <3> QED
      BY <2>4, <3>1, <3>2, <3>3, <3>4, <3>5, <3>6, <3>7, <3>8 DEF TaskStep
  <2>5. ASSUME NEW s \in Slots, TaskFault(s)
        PROVE  Earned'
    <3>1. \A x \in Slots : slot'[x].pc \notin {"finalising", "finalise_loaded"}
                          \/ slot'[x] = slot[x]
      BY <2>5 DEF TaskFault, ExecutorRaises, Escapes, LateError, HardLimit, WorkerLost, Move, Settle,
                  IdleSlot, TypeOK, SlotType
    <3> QED
      BY <2>5, <3>1, EarnedStep
         DEF TaskFault, ExecutorRaises, Escapes, LateError, HardLimit, WorkerLost, history
  <2>6. ASSUME NEW t \in TaskIds, BrokerStep(t) \/ LoseRevoke(t)
        PROVE  Earned'
    BY <2>6, EarnedStep
       DEF BrokerStep, Restore, Discard, DeliverRevoke, LoseRevoke, IdleSlot, history
  <2>7. CASE NodeCrash
    BY <2>7, EarnedStep DEF NodeCrash, IdleSlot, history
  <2>8. CASE UNCHANGED vars
    BY <2>8, EarnedStep DEF vars, history
  <2> QED
    BY <2>1, <2>2, <2>3, <2>4, <2>5, <2>6, <2>7, <2>8 DEF Next, RequestStep
<1>3. Earned => CompletedWasEarned
  BY DEF Earned
<1> QED
  BY <1>1, <1>2, <1>3, TypeCorrect, PTL DEF Spec

-----------------------------------------------------------------------------
(* One attempt at a time: what the status check of start_migration()       *)
(* achieves where its request is the only one in flight and no failure     *)
(* ends an attempt twice.                                                  *)

\* The setting: one request at a time, and only failures after which no attempt
\* writes an outcome twice (raise and late_error do), no message comes back
\* (worker_lost, node_crash, early_restore) and no task is left without a row
\* that knows it (api_abort).  Each of the six breaks OneCopier by itself.
OneHandler == \A r1, r2 \in Requests : r1 = r2
Orderly == FaultKinds \subseteq {"escape", "hard_limit", "revoke_lost"}

\* An attempt that may still write to a database, the application's or the
\* destination (no late error brings it back); and one that does or will.
Active(s) == slot[s].pc \notin {"idle", "finalised", "done"}
Outstanding == queue # {} \/ \E s \in Slots : Active(s)

\* At most one task is waiting or at work; and no message without its holder.
Single ==
  /\ \A s1, s2 \in Slots : Active(s1) /\ Active(s2) => s1 = s2
  /\ \A t1, t2 \in queue : t1 = t2
  /\ queue # {} => \A s \in Slots : ~Active(s)
  /\ \A t \in unacked : \E s \in Slots : Holds(s, t)
  /\ \A s \in Slots : slot[s].pc \notin {"failing", "failing_loaded"}

\* What a handler in flight has seen; a start sees a row that nobody works for.
Asked ==
  \A r \in Requests :
    /\ req[r].pc \in {"start_loaded", "start_sent"} => req[r].seen.status \in {"pending", "failed"}
    /\ req[r].pc \in {"cancel_loaded", "cancel_revoked"} => req[r].seen.status = "running"
    /\ req[r].pc = "start_loaded" => row.status \in {"pending", "failed"} /\ ~Outstanding

Sending == \E r \in Requests : req[r].pc = "start_sent"

\* While there is a task the row forbids another, or its start is not over.
Claimed ==
  Outstanding => \/ row.status \in {"running", "cancelled"}
                 \/ row.status # "completed" /\ Sending

Exclusive == Single /\ Asked /\ Claimed

\* A completed row has all its rows; so have the attempt that is going to say so
\* and, since nobody else writes them, its session.
Counted ==
  /\ CompletedCounts
  /\ \A s \in Slots :
       /\ slot[s].pc = "finalise_loaded" => slot[s].seen.processed_rows = row.processed_rows
       /\ slot[s].pc \in {"finalising", "finalise_loaded"} =>
            \/ slot[s].result = "failed_tables"
            \/ slot[s].result = "ok" /\ slot[s].batches = TotalBatches

-----------------------------------------------------------------------------
(* Steps of the task.                                                      *)

\* No failure but the three kinds happens.
LEMMA OtherFaults ==
  ASSUME Orderly, NEW kind \in {"api_abort", "raise", "late_error", "worker_lost", "node_crash",
                               "early_restore"}
  PROVE  ~Fault(kind)
BY DEF Orderly, Fault

LEMMA LoadFacts ==
  ASSUME TypeOK, NEW s \in Slots, NEW from, NEW to, Load(s, from, to)
  PROVE  /\ slot[s].pc = from /\ slot'[s].pc = to /\ slot'[s].seen = row
         /\ slot'[s].task = slot[s].task /\ slot'[s].result = slot[s].result
         /\ slot'[s].batches = slot[s].batches
         /\ \A x \in Slots : x # s => slot'[x] = slot[x]
         /\ row' = row /\ req' = req /\ queue' = queue /\ unacked' = unacked
BY DEF TypeOK, SlotType, Load, broker

LEMMA CommitFacts ==
  ASSUME TypeOK, NEW s \in Slots, NEW from, NEW to, NEW new, Commit(s, from, to, new)
  PROVE  /\ slot[s].pc = from /\ slot'[s].pc = to
         /\ slot'[s].task = slot[s].task /\ slot'[s].result = slot[s].result
         /\ slot'[s].batches = slot[s].batches
         /\ \A x \in Slots : x # s => slot'[x] = slot[x]
         /\ row' = Flush(row, slot[s].seen, new)
         /\ req' = req /\ queue' = queue /\ unacked' = unacked
BY DEF TypeOK, SlotType, Commit, broker

\* A commit that leaves an attribute as it was loaded leaves the column.
LEMMA FlushRows ==
  ASSUME NEW now, NEW seen, NEW new, new.processed_rows = seen.processed_rows
  PROVE  Flush(now, seen, new).processed_rows = now.processed_rows
BY DEF Flush, Written

-----------------------------------------------------------------------------
(* What keeps the parts of the invariant.                                  *)

\* No task is added and no message loses its holder.
LEMMA SingleKept ==
  ASSUME Single, queue' \subseteq queue,
         \A s \in Slots : Active(s)' => Active(s),
         \A s \in Slots : slot'[s].pc \notin {"failing", "failing_loaded"},
         \A t \in unacked' : \E s \in Slots : Holds(s, t)'
  PROVE  Single'
BY DEF Single

\* The status stays, or the one task there is makes it "running", or ends.
LEMMA ClaimKept ==
  ASSUME Asked, Claimed, req' = req, Outstanding' => Outstanding,
         \/ row'.status = row.status
         \/ Outstanding /\ (row'.status = "running" \/ ~Outstanding')
  PROVE  Asked' /\ Claimed'
<1>1. Sending' = Sending
  BY DEF Sending
<1>2. Claimed'
  BY <1>1 DEF Claimed
<1>3. Asked'
  BY DEF Asked
<1> QED
  BY <1>2, <1>3

\* Rows are not counted and nothing is completed.
LEMMA CountedKept ==
  ASSUME Counted, row'.processed_rows = row.processed_rows,
         row'.status = "completed" => row.status = "completed",
         \A s \in Slots : slot'[s].pc \in {"finalising", "finalise_loaded"} => slot'[s] = slot[s]
  PROVE  Counted'
BY DEF Counted, CompletedCounts

\* One slot moves on with its task, and stays at work.
LEMMA AtWork ==
  ASSUME Exclusive, NEW s \in Slots, Active(s), Active(s)',
         slot'[s].pc \notin {"failing", "failing_loaded"}, slot'[s].task = slot[s].task,
         \A x \in Slots : x # s => slot'[x] = slot[x],
         req' = req, queue' = queue, unacked' = unacked,
         row'.status \in {row.status, "running"}
  PROVE  Exclusive'
<1>1. \A x \in Slots : Active(x)' => Active(x)
  BY DEF Active
<1>2. Outstanding
  BY DEF Outstanding
<1>3. \A t \in unacked' : \E x \in Slots : Holds(x, t)'
  BY DEF Exclusive, Single, Holds, Active
<1>4. \A x \in Slots : slot'[x].pc \notin {"failing", "failing_loaded"}
  BY DEF Exclusive, Single
<1>5. Single'
  BY <1>1, <1>3, <1>4, SingleKept DEF Exclusive
<1>6. Asked' /\ Claimed'
  BY <1>2, ClaimKept DEF Exclusive
<1> QED
  BY <1>5, <1>6 DEF Exclusive

\* The slot at work is done: nobody is, whatever it has written.
LEMMA WorkDone ==
  ASSUME Exclusive, NEW s \in Slots, Active(s), slot'[s].pc \in {"finalised", "done"},
         slot'[s].task = slot[s].task,
         \A x \in Slots : x # s => slot'[x] = slot[x],
         req' = req, queue' = queue, unacked' = unacked
  PROVE  Exclusive' /\ ~Outstanding'
<1>1. Outstanding /\ queue = {}
  BY DEF Outstanding, Exclusive, Single
<1>2. \A x \in Slots : ~Active(x)'
  BY DEF Active, Exclusive, Single
<1>3. ~Outstanding'
  BY <1>1, <1>2 DEF Outstanding
<1>4. \A t \in unacked' : \E x \in Slots : Holds(x, t)'
  BY DEF Exclusive, Single, Holds, Active
<1>5. \A x \in Slots : slot'[x].pc \notin {"failing", "failing_loaded"}
  BY DEF Exclusive, Single
<1>6. Single'
  BY <1>2, <1>4, <1>5, SingleKept DEF Exclusive
<1>7. Asked' /\ Claimed'
  BY <1>1, <1>3, ClaimKept DEF Exclusive
<1> QED
  BY <1>3, <1>6, <1>7 DEF Exclusive

\* Messages and slots are dropped together.
LEMMA WorkDropped ==
  ASSUME Exclusive, queue' \subseteq queue,
         \A s \in Slots : slot'[s] = slot[s] \/ slot'[s].pc = "idle",
         \A t \in unacked' : \E s \in Slots : Holds(s, t)',
         req' = req, row' = row
  PROVE  Exclusive'
<1>1. \A s \in Slots : Active(s)' => Active(s)
  BY DEF Active
<1>2. \A s \in Slots : slot'[s].pc \notin {"failing", "failing_loaded"}
  BY DEF Exclusive, Single
<1>3. Single'
  BY <1>1, <1>2, SingleKept DEF Exclusive
<1>4. Outstanding' => Outstanding
  BY <1>1 DEF Outstanding
<1>5. Asked' /\ Claimed'
  BY <1>4, ClaimKept DEF Exclusive
<1> QED
  BY <1>3, <1>5 DEF Exclusive

-----------------------------------------------------------------------------
(* The invariant is inductive.                                             *)

LEMMA InitExclusive == Init => Exclusive /\ Counted
BY DEF Init, Exclusive, Single, Asked, Claimed, Sending, Outstanding, Active, Counted,
       CompletedCounts, Blank, IdleRequest, IdleSlot

\* The handlers: a start is sent for a row that no task works for, and then the
\* row says so.
LEMMA RequestExclusive ==
  ASSUME OneHandler, Orderly, TypeOK, Exclusive, NEW r \in Requests,
         StartLoad(r) \/ CancelLoad(r) \/ RequestStep(r) \/ RequestAborts(r)
  PROVE  Exclusive'
<1>0. req[r] \in RequestType /\ req[r].seen \in RowType /\ \A q \in Requests : q = r
  BY DEF TypeOK, RequestType, OneHandler
<1>1. CASE StartLoad(r)
  <2>1. req'[r].pc = "start_loaded" /\ req'[r].seen = row /\ row.status \in {"pending", "failed"}
    BY <1>1 DEF StartLoad, TypeOK
  <2>2. ~Sending
    BY <1>0, <1>1 DEF StartLoad, Sending
  <2>3. ~Outstanding
    BY <2>1, <2>2 DEF Exclusive, Claimed
  <2>4. /\ Outstanding' = Outstanding /\ Single' = Single /\ row' = row
    BY <1>1 DEF StartLoad, broker, Outstanding, Single, Active, Holds
  <2> QED
    BY <1>0, <2>1, <2>3, <2>4 DEF Exclusive, Asked, Claimed
<1>2. CASE CancelLoad(r)
  <2>1. req'[r].pc = "cancel_loaded" /\ req'[r].seen = row /\ row.status = "running"
    BY <1>2 DEF CancelLoad, TypeOK
  <2>2. /\ Outstanding' = Outstanding /\ Single' = Single /\ row' = row
    BY <1>2 DEF CancelLoad, broker, Outstanding, Single, Active, Holds
  <2> QED
    BY <1>0, <2>1, <2>2 DEF Exclusive, Asked, Claimed
<1>3. CASE StartSend(r)
  <2>1. PICK t \in TaskIds :
          /\ req' = [req EXCEPT ![r].pc = "start_sent", ![r].task = t]
          /\ queue' = queue \cup {t}
    BY <1>3 DEF StartSend
  <2>2. req[r].pc = "start_loaded" /\ row' = row /\ slot' = slot /\ unacked' = unacked
    BY <1>3 DEF StartSend
  <2>3. ~Outstanding /\ req[r].seen.status \in {"pending", "failed"} /\ row.status \in {"pending", "failed"}
    BY <2>2 DEF Exclusive, Asked
  <2>4. queue' = {t} /\ \A s \in Slots : ~Active(s) /\ ~Active(s)'
    BY <2>1, <2>2, <2>3 DEF Outstanding, Active
  <2>5. Single'
    BY <2>2, <2>4 DEF Exclusive, Single, Holds
  <2>6. req'[r].pc = "start_sent" /\ req'[r].seen = req[r].seen
    BY <1>0, <2>1 DEF TypeOK, RequestType
  <2>7. Sending'
    BY <2>6 DEF Sending
  <2> QED
    BY <1>0, <2>2, <2>3, <2>5, <2>6, <2>7 DEF Exclusive, Asked, Claimed
<1>4. CASE StartCommit(r)
  <2> DEFINE new == [req[r].seen EXCEPT !.celery_task_id = req[r].task, !.status = "running",
                                        !.started_at = "set"]
  <2>1. row' = Flush(row, req[r].seen, new) /\ req[r].pc = "start_sent"
    BY <1>4 DEF StartCommit
  <2>2. new.status = "running" /\ req[r].seen.status \in {"pending", "failed"}
    BY <1>0, <2>1, EditsStatus DEF Exclusive, Asked
  <2> HIDE DEF new
  <2>3. row'.status = "running"
    BY <2>1, <2>2 DEF Flush, Written
  <2>4. req'[r].pc = "idle"
    BY <1>4 DEF StartCommit, IdleRequest, TypeOK
  <2>5. Single' = Single
    BY <1>4 DEF StartCommit, broker, Single, Active, Holds
  <2> QED
    BY <1>0, <2>3, <2>4, <2>5 DEF Exclusive, Asked, Claimed
<1>5. CASE CancelRevoke(r)
  <2>1. /\ req'[r].pc = "cancel_revoked" /\ req'[r].seen = req[r].seen
        /\ req[r].pc = "cancel_loaded"
    BY <1>5 DEF CancelRevoke, TypeOK, RequestType
  <2>2. Sending' = Sending
    BY <1>0, <2>1 DEF Sending
  <2>3. /\ Outstanding' = Outstanding /\ Single' = Single /\ row' = row
    BY <1>5 DEF CancelRevoke, Outstanding, Single, Active, Holds
  <2> QED
    BY <1>0, <2>1, <2>2, <2>3 DEF Exclusive, Asked, Claimed
<1>6. CASE CancelCommit(r)
  <2> DEFINE new == [req[r].seen EXCEPT !.status = "cancelled", !.completed_at = "set"]
  <2>1. row' = Flush(row, req[r].seen, new) /\ req[r].pc = "cancel_revoked"
    BY <1>6 DEF CancelCommit
  <2>2. new.status = "cancelled" /\ req[r].seen.status = "running"
    BY <1>0, <2>1, EditsStatus DEF Exclusive, Asked
  <2> HIDE DEF new
  <2>3. row'.status = "cancelled"
    BY <2>1, <2>2 DEF Flush, Written
  <2>4. req'[r].pc = "idle"
    BY <1>6 DEF CancelCommit, IdleRequest, TypeOK
  <2>5. Single' = Single
    BY <1>6 DEF CancelCommit, broker, Single, Active, Holds
  <2> QED
    BY <1>0, <2>3, <2>4, <2>5 DEF Exclusive, Asked, Claimed
<1>7. CASE RequestAborts(r)
  BY <1>7, OtherFaults DEF RequestAborts
<1> QED
  BY <1>1, <1>2, <1>3, <1>4, <1>5, <1>6, <1>7 DEF RequestStep

\* The task: received, it is the only one at work until it is done.
LEMMA TaskExclusive ==
  ASSUME Orderly, TypeOK, Exclusive, NEW s \in Slots, TaskStep(s)
  PROVE  Exclusive'
<1>0. slot[s] \in SlotType /\ slot[s].seen \in RowType /\ slot \in [Slots -> SlotType]
  BY DEF TypeOK, SlotType
<1>1. CASE Receive(s)
  <2>1. PICK t \in queue :
          /\ slot' = [slot EXCEPT ![s] = [IdleSlot EXCEPT !.pc = "begin", !.task = t]]
          /\ queue' = queue \ {t}
          /\ unacked' = unacked \cup {t}
    BY <1>1 DEF Receive, TaskAcksLate
  <2>2. slot[s].pc = "idle" /\ row' = row /\ req' = req
    BY <1>1 DEF Receive
  <2>3. /\ slot'[s].pc = "begin" /\ slot'[s].task = t
        /\ \A x \in Slots : x # s => slot'[x] = slot[x]
    BY <1>0, <2>1 DEF IdleSlot
  <2>4. queue' = {} /\ \A x \in Slots : ~Active(x)
    BY <2>1 DEF Exclusive, Single
  <2>5. \A x \in Slots : Active(x)' => x = s
    BY <2>3, <2>4 DEF Active
  <2>6. \A u \in unacked' : \E x \in Slots : Holds(x, u)'
    <3>1. ASSUME NEW u \in unacked
          PROVE  \E x \in Slots : Holds(x, u)'
      <4>1. PICK x \in Slots : Holds(x, u)
        BY <3>1 DEF Exclusive, Single
      <4>2. x # s
        BY <2>2, <4>1 DEF Holds
      <4> QED
        BY <2>3, <4>1, <4>2 DEF Holds
    <3>2. Holds(s, t)'
      BY <2>3 DEF Holds
    <3> QED
      BY <2>1, <3>1, <3>2
  <2>7. Single'
    BY <2>3, <2>4, <2>5, <2>6 DEF Exclusive, Single
  <2>8. Outstanding
    BY <2>1 DEF Outstanding
  <2>9. Asked' /\ Claimed'
    BY <2>2, <2>8, ClaimKept DEF Exclusive
  <2> QED
    BY <2>7, <2>9 DEF Exclusive
<1>2. CASE ExecuteLoad(s) \/ FinaliseLoad(s) \/ OnFailureLoad(s)
  <2>1. PICK from \in {"begin", "finalising", "raised"},
             to \in {"loaded", "finalise_loaded", "on_failure_loaded"} : Load(s, from, to)
    BY <1>2 DEF ExecuteLoad, FinaliseLoad, OnFailureLoad
  <2>2. Active(s) /\ Active(s)' /\ slot'[s].pc \notin {"failing", "failing_loaded"}
    BY <2>1, LoadFacts DEF Active
  <2> QED
    BY <2>1, <2>2, LoadFacts, AtWork
<1>3. CASE MarkRunning(s)
  <2> DEFINE new == [slot[s].seen EXCEPT !.status = "running", !.started_at = "set"]
  <2>1. Commit(s, "loaded", "executing", new)
    BY <1>3 DEF MarkRunning
  <2>2. new.status = "running"
    BY <1>0, EditsStatus
  <2> HIDE DEF new
  <2>3. row'.status \in {row.status, "running"}
    BY <2>1, <2>2, CommitFacts, FlushStatus
  <2>4. Active(s) /\ Active(s)' /\ slot'[s].pc \notin {"failing", "failing_loaded"}
    BY <2>1, CommitFacts DEF Active
  <2> QED
    BY <2>1, <2>3, <2>4, CommitFacts, AtWork
<1>4. CASE Progress(s)
  <2>1. /\ slot[s].pc = "executing" /\ slot'[s].pc = "executing" /\ slot'[s].task = slot[s].task
        /\ \A x \in Slots : x # s => slot'[x] = slot[x]
    BY <1>0, <1>4 DEF Progress, SlotType
  <2>2. row'.status = row.status /\ req' = req /\ queue' = queue /\ unacked' = unacked
    BY <1>4 DEF Progress, TypeOK, RowType, broker
  <2>3. Active(s) /\ Active(s)'
    BY <2>1 DEF Active
  <2> QED
    BY <2>1, <2>2, <2>3, AtWork
<1>5. CASE ExecutorReturns(s)
  <2>1. /\ slot[s].pc = "executing" /\ slot'[s].pc = "finalising" /\ slot'[s].task = slot[s].task
        /\ \A x \in Slots : x # s => slot'[x] = slot[x]
    BY <1>0, <1>5 DEF ExecutorReturns, SlotType
  <2>2. row' = row /\ req' = req /\ queue' = queue /\ unacked' = unacked
    BY <1>5 DEF ExecutorReturns, broker
  <2>3. Active(s) /\ Active(s)'
    BY <2>1 DEF Active
  <2> QED
    BY <2>1, <2>2, <2>3, AtWork
<1>6. CASE FinaliseCommit(s) \/ OnFailureCommit(s)
  <2>1. PICK from \in {"finalise_loaded", "on_failure_loaded"}, to \in {"finalised", "done"} :
          \E new : Commit(s, from, to, new)
    BY <1>6 DEF FinaliseCommit, OnFailureCommit
  <2>2. PICK new : Commit(s, from, to, new)
    BY <2>1
  <2>3. Active(s)
    BY <2>2, CommitFacts DEF Active
  <2> QED
    BY <2>2, <2>3, CommitFacts, WorkDone
<1>7. CASE FailLoad(s) \/ FailCommit(s)
  BY <1>7 DEF FailLoad, FailCommit, Load, Commit, Exclusive, Single
<1>8. CASE Ack(s)
  <2>1. /\ \A x \in Slots : slot'[x] = slot[x] \/ slot'[x].pc = "idle"
        /\ \A x \in Slots : x # s => slot'[x] = slot[x]
        /\ unacked' = unacked \ {slot[s].task} /\ queue' = queue /\ req' = req /\ row' = row
    BY <1>0, <1>8 DEF Ack, Settle, IdleSlot
  <2>2. \A t \in unacked' : \E x \in Slots : Holds(x, t)'
    BY <2>1 DEF Exclusive, Single, Holds
  <2> QED
    BY <2>1, <2>2, WorkDropped
<1> QED
  BY <1>1, <1>2, <1>3, <1>4, <1>5, <1>6, <1>7, <1>8 DEF TaskStep

LEMMA FaultExclusive ==
  ASSUME Orderly, TypeOK, Exclusive, NEW s \in Slots, TaskFault(s)
  PROVE  Exclusive'
<1>0. slot[s] \in SlotType /\ slot \in [Slots -> SlotType]
  BY DEF TypeOK
<1>1. CASE ExecutorRaises(s) \/ LateError(s) \/ WorkerLost(s)
  BY <1>1, OtherFaults DEF ExecutorRaises, LateError, WorkerLost
<1>2. CASE Escapes(s)
  <2>1. /\ Active(s) /\ slot'[s].pc \in {"raised", "done"} /\ slot'[s].task = slot[s].task
        /\ \A x \in Slots : x # s => slot'[x] = slot[x]
        /\ row' = row /\ req' = req /\ queue' = queue /\ unacked' = unacked
    BY <1>0, <1>2 DEF Escapes, SlotType, Active, broker
  <2>2. CASE slot'[s].pc = "raised"
    BY <2>1, <2>2, AtWork DEF Active
  <2>3. CASE slot'[s].pc = "done"
    BY <2>1, <2>3, WorkDone
  <2> QED
    BY <2>1, <2>2, <2>3
<1>3. CASE HardLimit(s)
  <2>1. /\ \A x \in Slots : slot'[x] = slot[x] \/ slot'[x].pc = "idle"
        /\ \A x \in Slots : x # s => slot'[x] = slot[x]
        /\ unacked' = unacked \ {slot[s].task} /\ queue' = queue /\ req' = req /\ row' = row
    BY <1>0, <1>3 DEF HardLimit, Settle, IdleSlot
  <2>2. \A t \in unacked' : \E x \in Slots : Holds(x, t)'
    BY <2>1 DEF Exclusive, Single, Holds
  <2> QED
    BY <2>1, <2>2, WorkDropped
<1> QED
  BY <1>1, <1>2, <1>3 DEF TaskFault

LEMMA BrokerExclusive ==
  ASSUME Orderly, TypeOK, Exclusive, NEW t \in TaskIds, BrokerStep(t) \/ LoseRevoke(t)
  PROVE  Exclusive'
<1>1. CASE Restore(t)
  BY <1>1, OtherFaults DEF Restore, Exclusive, Single
<1>2. CASE Discard(t) \/ LoseRevoke(t)
  <2>1. /\ slot' = slot /\ queue' \subseteq queue /\ unacked' \subseteq unacked
        /\ req' = req /\ row' = row
    BY <1>2 DEF Discard, LoseRevoke
  <2>2. \A u \in unacked' : \E x \in Slots : Holds(x, u)'
    BY <2>1 DEF Exclusive, Single, Holds
  <2> QED
    BY <2>1, <2>2, WorkDropped
<1>3. CASE DeliverRevoke(t)
  <2>1. /\ \A x \in Slots : slot'[x] = slot[x] \/ slot'[x].pc = "idle"
        /\ \A x \in Slots : ~Holds(x, t) => slot'[x] = slot[x]
        /\ unacked' \subseteq unacked /\ ((\E x \in Slots : Holds(x, t)) => t \notin unacked')
        /\ queue' = queue /\ req' = req /\ row' = row
    BY <1>3 DEF DeliverRevoke, IdleSlot
  <2>2. ASSUME NEW u \in unacked'
        PROVE  \E x \in Slots : Holds(x, u)'
    <3>1. PICK x \in Slots : Holds(x, u)
      BY <2>1 DEF Exclusive, Single
    <3>2. ~Holds(x, t)
      BY <2>1, <2>2, <3>1 DEF Holds
    <3> QED
      BY <2>1, <3>1, <3>2 DEF Holds
  <2> QED
    BY <2>1, <2>2, WorkDropped
<1> QED
  BY <1>1, <1>2, <1>3 DEF BrokerStep

LEMMA NextExclusive ==
  ASSUME OneHandler, Orderly, TypeOK, Exclusive, [Next]_vars
  PROVE  Exclusive'
<1>1. CASE CreateMigration
  <2>1. row = Blank /\ row'.status = "pending" /\ req' = req
    BY <1>1 DEF CreateMigration, Blank
  <2>2. /\ Outstanding' = Outstanding /\ Single' = Single /\ Sending' = Sending
    BY <1>1 DEF CreateMigration, broker, Outstanding, Single, Active, Holds, Sending
  <2> QED
    BY <2>1, <2>2 DEF Exclusive, Asked, Claimed, Blank
<1>2. CASE NodeCrash
  BY <1>2, OtherFaults DEF NodeCrash
<1>3. CASE UNCHANGED vars
  <2>1. /\ Outstanding' = Outstanding /\ Single' = Single /\ Sending' = Sending
        /\ row' = row /\ req' = req
    BY <1>3 DEF vars, broker, Outstanding, Single, Active, Holds, Sending
  <2> QED
    BY <2>1 DEF Exclusive, Asked, Claimed
<1> QED
  BY <1>1, <1>2, <1>3, RequestExclusive, TaskExclusive, FaultExclusive, BrokerExclusive DEF Next

\* Two attempts never copy at once, if requests are made one at a time and the
\* failures are Orderly: however late a start is committed, whatever tasks are
\* revoked or killed at their limit, and wherever an error before the final
\* commit passes by the handlers of _execute.
THEOREM OneAttemptAtATime ==
  ASSUME OneHandler, Orderly
  PROVE  Spec => []OneCopier
<1>1. TypeOK /\ Exclusive /\ [Next]_vars => Exclusive'
  BY NextExclusive
<1>2. Exclusive => OneCopier
  BY DEF Exclusive, Single, OneCopier, Copying, Active
<1> QED
  BY InitExclusive, <1>1, <1>2, TypeCorrect, PTL DEF Spec

\* In the same setting a task is only ever enqueued for a migration that is
\* "pending" or "failed" at that moment, as the API says: nobody changes the row
\* between the status check and the message.
THEOREM StartsAsDocumented ==
  ASSUME OneHandler, Orderly
  PROVE  Spec => StartedFromPendingOrFailed
<1>1. TypeOK /\ Exclusive /\ [Next]_vars => Exclusive'
  BY NextExclusive
<1>2. Exclusive /\ [Next]_vars => [sent' # sent => row.status \in {"pending", "failed"}]_vars
  <2> SUFFICES ASSUME Exclusive, Next, sent' # sent PROVE row.status \in {"pending", "failed"}
    BY Zenon
  <2>1. \A s \in Slots : TaskStep(s) \/ TaskFault(s) => sent' = sent
    BY DEF TaskStep, Receive, ExecuteLoad, MarkRunning, Progress, ExecutorReturns, FinaliseLoad,
           FinaliseCommit, FailLoad, FailCommit, OnFailureLoad, OnFailureCommit, Ack, Load, Commit,
           Settle, history, TaskFault, ExecutorRaises, Escapes, LateError, HardLimit, WorkerLost
  <2>2. \A t \in TaskIds : BrokerStep(t) \/ LoseRevoke(t) => sent' = sent
    BY DEF BrokerStep, Restore, Discard, DeliverRevoke, LoseRevoke, history
  <2>3. CreateMigration \/ NodeCrash => sent' = sent
    BY DEF CreateMigration, NodeCrash, history
  <2>4. PICK r \in Requests : StartLoad(r) \/ CancelLoad(r) \/ RequestStep(r) \/ RequestAborts(r)
    BY <2>1, <2>2, <2>3 DEF Next
  <2>5. StartSend(r)
    BY <2>4 DEF StartLoad, CancelLoad, RequestStep, StartCommit, CancelRevoke, CancelCommit,
                RequestAborts, history
  <2> QED
    BY <2>5 DEF StartSend, Exclusive, Asked
<1> QED
  BY InitExclusive, <1>1, <1>2, TypeCorrect, PTL DEF Spec, StartedFromPendingOrFailed

-----------------------------------------------------------------------------
(* What a completed row reports.                                           *)

LEMMA TaskCounted ==
  ASSUME Orderly, TypeOK, Exclusive, Counted, NEW s \in Slots, TaskStep(s)
  PROVE  Counted'
<1>0. slot[s] \in SlotType /\ slot[s].seen \in RowType /\ slot \in [Slots -> SlotType]
  BY DEF TypeOK, SlotType
<1>1. CASE Receive(s) \/ Ack(s)
  <2>1. \A x \in Slots : slot'[x] = slot[x] \/ slot'[x].pc \in {"begin", "idle"}
    <3>1. CASE Receive(s)
      <4>1. PICK t : slot' = [slot EXCEPT ![s] = [IdleSlot EXCEPT !.pc = "begin", !.task = t]]
        BY <3>1 DEF Receive
      <4> QED
        BY <1>0, <4>1 DEF IdleSlot
    <3>2. CASE Ack(s)
      BY <1>0, <3>2 DEF Ack, Settle, IdleSlot
    <3> QED
      BY <1>1, <3>1, <3>2
  <2>2. row' = row
    BY <1>1 DEF Receive, Ack
  <2>3. \A x \in Slots : slot'[x].pc \in {"finalising", "finalise_loaded"} => slot'[x] = slot[x]
    BY <2>1
  <2> QED
    BY <2>2, <2>3, CountedKept
<1>2. CASE ExecuteLoad(s) \/ OnFailureLoad(s)
  <2>1. PICK from, to : Load(s, from, to) /\ to \in {"loaded", "on_failure_loaded"}
    BY <1>2 DEF ExecuteLoad, OnFailureLoad
  <2> QED
    BY <2>1, LoadFacts, CountedKept
<1>3. CASE FinaliseLoad(s)
  <2>1. Load(s, "finalising", "finalise_loaded")
    BY <1>3 DEF FinaliseLoad
  <2> QED
    BY <2>1, LoadFacts DEF Counted, CompletedCounts
<1>4. CASE MarkRunning(s)
  <2> DEFINE new == [slot[s].seen EXCEPT !.status = "running", !.started_at = "set"]
  <2>1. Commit(s, "loaded", "executing", new)
    BY <1>4 DEF MarkRunning
  <2>2. new.status = "running" /\ new.processed_rows = slot[s].seen.processed_rows
    BY <1>0, EditsStatus DEF RowType
  <2> HIDE DEF new
  <2>3. row'.status \in {row.status, "running"} /\ row'.processed_rows = row.processed_rows
    BY <2>1, <2>2, CommitFacts, FlushStatus, FlushRows
  <2> QED
    BY <2>1, <2>3, CommitFacts, CountedKept
<1>5. CASE OnFailureCommit(s)
  <2> DEFINE new == MarkedFailed(slot[s].seen)
  <2>1. Commit(s, "on_failure_loaded", "done", new)
    BY <1>5 DEF OnFailureCommit
  <2>2. new.status = "failed" /\ new.processed_rows = slot[s].seen.processed_rows
    BY <1>0, EditsStatus DEF RowType, MarkedFailed
  <2> HIDE DEF new
  <2>3. row'.status \in {row.status, "failed"} /\ row'.processed_rows = row.processed_rows
    BY <2>1, <2>2, CommitFacts, FlushStatus, FlushRows
  <2> QED
    BY <2>1, <2>3, CommitFacts, CountedKept
<1>6. CASE Progress(s)
  <2>1. /\ slot[s].pc = "executing" /\ slot'[s].pc = "executing"
        /\ \A x \in Slots : x # s => slot'[x] = slot[x]
        /\ row'.status = row.status
    BY <1>0, <1>6 DEF Progress, SlotType, TypeOK, RowType
  <2>2. \A x \in Slots : slot'[x].pc \notin {"finalising", "finalise_loaded"}
    BY <2>1 DEF Exclusive, Single, Active
  <2>3. row.status # "completed"
    BY <2>1 DEF Exclusive, Claimed, Outstanding, Active
  <2> QED
    BY <2>1, <2>2, <2>3 DEF Counted, CompletedCounts
<1>7. CASE ExecutorReturns(s)
  <2>1. PICK result \in {"ok", "failed_tables"} :
          /\ result = "ok" => slot[s].batches = TotalBatches
          /\ slot' = [slot EXCEPT ![s].pc = "finalising", ![s].result = result]
    BY <1>7 DEF ExecutorReturns
  <2>2. /\ slot'[s].pc = "finalising" /\ slot'[s].result = result
        /\ slot'[s].batches = slot[s].batches
        /\ \A x \in Slots : x # s => slot'[x] = slot[x]
    BY <1>0, <2>1 DEF SlotType
  <2>3. row' = row
    BY <1>7 DEF ExecutorReturns
  <2>4. CompletedCounts'
    BY <2>3 DEF Counted, CompletedCounts
  <2>5. ASSUME NEW x \in Slots
        PROVE  /\ slot'[x].pc = "finalise_loaded" =>
                    slot'[x].seen.processed_rows = row'.processed_rows
               /\ slot'[x].pc \in {"finalising", "finalise_loaded"} =>
                    \/ slot'[x].result = "failed_tables"
                    \/ slot'[x].result = "ok" /\ slot'[x].batches = TotalBatches
    <3>1. CASE x = s
      BY <2>1, <2>2, <3>1
    <3>2. CASE x # s
      <4>1. slot'[x] = slot[x]
        BY <2>2, <3>2
      <4> QED
        BY <2>3, <2>5, <4>1 DEF Counted
    <3> QED
      BY <3>1, <3>2
  <2> QED
    BY <2>4, <2>5 DEF Counted
<1>8. CASE FinaliseCommit(s)
  <2> DEFINE failed == slot[s].result = "failed_tables"
             new == [slot[s].seen EXCEPT
                       !.status = IF failed THEN "failed" ELSE "completed",
                       !.processed_rows = slot[s].batches,
                       !.completed_at = "set",
                       !.error_message = IF failed THEN "set" ELSE @]
  <2>1. Commit(s, "finalise_loaded", "finalised", new)
    BY <1>8 DEF FinaliseCommit
  <2>2. /\ failed => new.status = "failed"
        /\ new.processed_rows = slot[s].batches
    BY <1>0, EditsStatus DEF RowType
  <2> HIDE DEF new
  <2>3. /\ slot[s].pc = "finalise_loaded" /\ slot[s].seen.processed_rows = row.processed_rows
        /\ row' = Flush(row, slot[s].seen, new)
    BY <2>1, CommitFacts DEF Counted
  <2>4. row'.processed_rows = slot[s].batches
    BY <2>2, <2>3 DEF Flush, Written
  <2>5. row.status # "completed"
    BY <2>3 DEF Exclusive, Claimed, Outstanding, Active
  <2>6. row'.status = "completed" => slot[s].batches = TotalBatches
    <3>1. CASE failed
      BY <2>2, <2>3, <2>5, <3>1, FlushStatus
    <3>2. CASE ~failed
      BY <2>3, <3>2 DEF Counted
    <3> QED
      BY <3>1, <3>2
  <2>7. \A x \in Slots : slot'[x].pc \notin {"finalising", "finalise_loaded"}
    BY <2>1, <2>3, CommitFacts DEF Exclusive, Single, Active
  <2> QED
    BY <2>4, <2>6, <2>7 DEF Counted, CompletedCounts
<1>9. CASE FailLoad(s) \/ FailCommit(s)
  BY <1>9 DEF FailLoad, FailCommit, Load, Commit, Exclusive, Single
<1> QED
  BY <1>1, <1>2, <1>3, <1>4, <1>5, <1>6, <1>7, <1>8, <1>9 DEF TaskStep

LEMMA NextCounted ==
  ASSUME Orderly, TypeOK, Exclusive, Counted, [Next]_vars
  PROVE  Counted'
<1>1. CASE CreateMigration
  BY <1>1, CountedKept DEF CreateMigration, Blank
<1>2. ASSUME NEW r \in Requests, StartCommit(r) \/ CancelCommit(r)
      PROVE  Counted'
  <2>0. req[r].seen \in RowType
    BY DEF TypeOK, RequestType
  <2>1. /\ row'.status \in {row.status, "running", "cancelled"}
        /\ row'.processed_rows = row.processed_rows
    <3>1. CASE StartCommit(r)
      <4> DEFINE new == [req[r].seen EXCEPT !.celery_task_id = req[r].task, !.status = "running",
                                          !.started_at = "set"]
      <4>1. row' = Flush(row, req[r].seen, new)
        BY <3>1 DEF StartCommit
      <4>2. new.status = "running" /\ new.processed_rows = req[r].seen.processed_rows
        BY <2>0, EditsStatus DEF RowType
      <4> HIDE DEF new
      <4> QED
        BY <4>1, <4>2, FlushStatus, FlushRows
    <3>2. CASE CancelCommit(r)
      <4> DEFINE new == [req[r].seen EXCEPT !.status = "cancelled", !.completed_at = "set"]
      <4>1. row' = Flush(row, req[r].seen, new)
        BY <3>2 DEF CancelCommit
      <4>2. new.status = "cancelled" /\ new.processed_rows = req[r].seen.processed_rows
        BY <2>0, EditsStatus DEF RowType
      <4> HIDE DEF new
      <4> QED
        BY <4>1, <4>2, FlushStatus, FlushRows
    <3> QED
      BY <1>2, <3>1, <3>2
  <2> QED
    BY <1>2, <2>1, CountedKept DEF StartCommit, CancelCommit
<1>3. ASSUME NEW r \in Requests,
             StartLoad(r) \/ StartSend(r) \/ CancelLoad(r) \/ CancelRevoke(r) \/ RequestAborts(r)
      PROVE  Counted'
  BY <1>3, CountedKept DEF StartLoad, StartSend, CancelLoad, CancelRevoke, RequestAborts
<1>4. ASSUME NEW s \in Slots, TaskFault(s)
      PROVE  Counted'
  <2>1. \A x \in Slots : slot'[x] = slot[x] \/ slot'[x].pc \notin {"finalising", "finalise_loaded"}
    BY <1>4 DEF TaskFault, ExecutorRaises, Escapes, LateError, HardLimit, WorkerLost, Move, Settle,
                IdleSlot, TypeOK, SlotType
  <2> QED
    BY <1>4, <2>1, CountedKept DEF TaskFault, ExecutorRaises, Escapes, LateError, HardLimit, WorkerLost
<1>5. ASSUME NEW t \in TaskIds, BrokerStep(t) \/ LoseRevoke(t)
      PROVE  Counted'
  BY <1>5, CountedKept
     DEF BrokerStep, Restore, Discard, DeliverRevoke, LoseRevoke, IdleSlot
<1>6. CASE NodeCrash
  BY <1>6, CountedKept DEF NodeCrash, IdleSlot
<1>7. CASE UNCHANGED vars
  BY <1>7, CountedKept DEF vars
<1> QED
  BY <1>1, <1>2, <1>3, <1>4, <1>5, <1>6, <1>7, TaskCounted DEF Next, RequestStep

\* In the same setting a row that says "completed" counts every batch, although
\* three sessions write it and none of them reads it again before it commits.
THEOREM CompletedRowsCount ==
  ASSUME OneHandler, Orderly
  PROVE  Spec => []CompletedCounts
<1>1. TypeOK /\ Exclusive /\ [Next]_vars => Exclusive'
  BY NextExclusive
<1>2. TypeOK /\ Exclusive /\ Counted /\ [Next]_vars => Counted'
  BY NextCounted
<1>3. Counted => CompletedCounts
  BY DEF Counted
<1> QED
  BY InitExclusive, <1>1, <1>2, <1>3, TypeCorrect, PTL DEF Spec

=============================================================================
