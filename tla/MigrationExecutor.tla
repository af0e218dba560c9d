------------------------- MODULE MigrationExecutor --------------------------
(***************************************************************************)
(* MigrationExecutor.run(): one attempt at copying the planned tables, batch *)
(* by batch, with its retries, its callbacks and the destination it writes. *)
(* An attempt may be repeated from the start (the task is delivered again, *)
(* or the user restarts a failed migration) on what the last one committed. *)
(***************************************************************************)
EXTENDS ProgressReport, Sequences, FiniteSets

CONSTANTS
  Tables,       \* names of tables
  Plan,         \* table_plan.table_name of plan.tables, in order
  Skipped,      \* the tables whose table_plan.status is "skipped"
  NumRows,      \* [Tables -> Nat]: rows of the source table
  PlannedRows,  \* plan.total_rows, an estimate
  Keyed,        \* tables whose destination has a primary key
  Cascade,      \* [Tables -> SUBSET Tables]: emptied along by TRUNCATE ... CASCADE
  BatchSize,
  MaxRetries,
  StableScans,  \* TRUE: LIMIT/OFFSET without ORDER BY keeps one order
  FaultKinds,   \* the failures this environment produces, of AllFaults
  MaxFaults     \* how many of them, in total, in one behaviour

AllFaults == {"create", "truncate", "fetch", "insert_clean", "insert_partial",
              "insert_late", "insert_open", "callback", "rerun"}

ASSUME PlanOK ==
  /\ Plan \in Seq(Tables) /\ Skipped \subseteq Tables /\ Keyed \subseteq Tables
  /\ NumRows \in [Tables -> Nat] /\ PlannedRows \in Nat
  /\ Cascade \in [Tables -> SUBSET Tables]
ASSUME SettingsOK == BatchSize \in Nat \ {0} /\ MaxRetries \in Nat
ASSUME FaultsOK ==
  FaultKinds \subseteq AllFaults /\ MaxFaults \in Nat /\ StableScans \in BOOLEAN

VARIABLES
  settings,     \* include_schema, include_data, truncate, continue_on_error
  autocommit,   \* FALSE: SQLite, where a failed commit leaves a transaction open
  exists,       \* tables that exist in the destination
  taken,        \* [Tables -> keys held by rows that were there before]
  copies,       \* [Tables -> [row -> how often the destination holds it]]
  durable,      \* those three as of the last commit
  outcome,      \* completed_tables, skipped_tables, failed_tables, in plan order
  pc,
  offset, retry_count,  \* locals of _migrate_table; rows_for_table = offset
  batch,        \* the rows fetched last
  attempt,      \* loop variable of _insert_with_retry
  total_rows_processed,
  faults        \* failures so far

local == <<offset, retry_count, batch, attempt>>
given == <<settings, autocommit>>
destination == <<exists, taken, copies, durable>>
vars == <<given, destination, outcome, pc, local, total_rows_processed, faults>>

RowsOf(t) == 1..NumRows[t]
Current == Plan[Len(outcome) + 1]

Fault(kind) ==
  /\ kind \in FaultKinds
  /\ faults < MaxFaults
  /\ faults' = faults + 1

\* What the destination's connection has written; and makes last.
Written == [exists |-> exists, taken |-> taken, copies |-> copies]
Commit == durable' = Written'

-----------------------------------------------------------------------------
(* run()                                                                   *)

\* Wrong on purpose: continue_on_error is ignored.
SettleAndGoOn(o) ==
  /\ outcome' = Append(outcome, o)
  /\ pc' = "next"

\* The current table ends with outcome o; run() stops at the first failed one
\* unless continue_on_error.
Settle(o) ==
  /\ outcome' = Append(outcome, o)
  /\ pc' = IF o = "failed" /\ ~settings.continue_on_error THEN "returned" ELSE "next"

SkipTable ==
  /\ pc = "next" /\ Len(outcome) < Len(Plan)
  /\ Current \in Skipped
  /\ Settle("skipped")
  /\ UNCHANGED <<given, destination, local, total_rows_processed, faults>>

BeginTable ==
  /\ pc = "next" /\ Len(outcome) < Len(Plan)
  /\ Current \notin Skipped
  /\ pc' = "create"
  /\ offset' = 0 /\ retry_count' = 0 /\ batch' = {} /\ attempt' = 0
  /\ UNCHANGED <<given, destination, outcome, total_rows_processed, faults>>

Return ==
  /\ pc = "next" /\ Len(outcome) = Len(Plan)
  /\ pc' = "returned"
  /\ UNCHANGED <<given, destination, outcome, local, total_rows_processed, faults>>

-----------------------------------------------------------------------------
(* _migrate_table()                                                        *)

Creates == exists' = exists \cup {Current} /\ UNCHANGED <<taken, copies>>

\* CREATE TABLE IF NOT EXISTS, when include_schema.
CreateTable ==
  /\ pc = "create"
  /\ IF settings.include_schema THEN Creates /\ Commit ELSE UNCHANGED destination
  /\ pc' = "truncate"
  /\ UNCHANGED <<given, outcome, local, total_rows_processed, faults>>

\* create_table, or the log entry after it, raises; in a transaction that was left
\* open the table need not last.
CreateFails ==
  /\ pc = "create" /\ settings.include_schema
  /\ Fault("create")
  /\ \/ UNCHANGED destination
     \/ Creates /\ Commit
     \/ Creates /\ durable # Written /\ UNCHANGED durable
  /\ Settle("failed")
  /\ UNCHANGED <<given, local, total_rows_processed>>

\* truncate_table empties the table, and on PostgreSQL those that refer to it;
\* SQLite's is a DELETE of its rows only.
Emptied ==
  LET emptied == {Current} \cup (IF autocommit THEN Cascade[Current] ELSE {})
  IN  /\ copies' = [t \in Tables |-> IF t \in emptied THEN [r \in RowsOf(t) |-> 0]
                                                     ELSE copies[t]]
      /\ taken' = [t \in Tables |-> IF t \in emptied THEN {} ELSE taken[t]]
      /\ UNCHANGED exists

TruncateTable ==
  /\ pc = "truncate" /\ settings.truncate /\ Current \in exists
  /\ Emptied /\ Commit
  /\ pc' = "fetch"
  /\ UNCHANGED <<given, outcome, local, total_rows_processed, faults>>

\* Not asked for; or the table is not there, which is only a warning.
NothingToTruncate ==
  /\ pc = "truncate"
  /\ settings.truncate => Current \notin exists
  /\ pc' = "fetch"
  /\ UNCHANGED <<given, destination, outcome, local, total_rows_processed, faults>>

\* An error is a warning as well: the old rows stay, or they are gone although the
\* answer was lost, or gone until the transaction ends.
TruncateFails ==
  /\ pc = "truncate" /\ settings.truncate
  /\ Fault("truncate")
  /\ \/ UNCHANGED destination
     \/ Current \in exists /\ Emptied /\ IF autocommit THEN Commit ELSE UNCHANGED durable
  /\ pc' = "fetch"
  /\ UNCHANGED <<given, outcome, local, total_rows_processed>>

SkipData ==
  /\ pc = "fetch" /\ ~settings.include_data
  /\ Settle("completed")
  /\ UNCHANGED <<given, destination, local, total_rows_processed, faults>>

\* What LIMIT BatchSize OFFSET offset may return.
Batches(t, from) ==
  LET upto == IF from + BatchSize < NumRows[t] THEN from + BatchSize ELSE NumRows[t]
  IN  IF StableScans THEN {(from + 1)..upto}
                     ELSE {rows \in SUBSET RowsOf(t) : Cardinality(rows) = upto - from}

FetchBatch ==
  /\ pc = "fetch" /\ settings.include_data /\ offset < NumRows[Current]
  /\ batch' \in Batches(Current, offset)
  /\ attempt' = 0
  /\ pc' = "insert"
  /\ UNCHANGED <<given, destination, outcome, offset, retry_count,
                 total_rows_processed, faults>>

\* An empty batch ends the table.
FetchNothing ==
  /\ pc = "fetch" /\ settings.include_data /\ offset >= NumRows[Current]
  /\ Settle("completed")
  /\ UNCHANGED <<given, destination, local, total_rows_processed, faults>>

FetchFails ==
  /\ pc = "fetch" /\ settings.include_data
  /\ Fault("fetch")
  /\ IF retry_count < MaxRetries
     THEN /\ retry_count' = retry_count + 1
          /\ UNCHANGED <<pc, outcome>>
     ELSE /\ Settle("failed")
          /\ UNCHANGED retry_count
  /\ UNCHANGED <<given, destination, offset, batch, attempt, total_rows_processed>>

\* Wrong on purpose: a plain INSERT into a table without constraints.
InsertedAgain(t, rows) ==
  [copies EXCEPT ![t] = [r \in RowsOf(t) |->
     IF r \in rows THEN copies[t][r] + 1 ELSE copies[t][r]]]

\* insert_batch: a row whose key is in the table is ignored; without a key
\* nothing is ever ignored.
Inserted(t, rows) ==
  [copies EXCEPT ![t] = [r \in RowsOf(t) |->
     IF r \in rows /\ ~(t \in Keyed /\ (r \in taken[t] \/ copies[t][r] > 0))
     THEN copies[t][r] + 1 ELSE copies[t][r]]]

Inserts(rows) == copies' = Inserted(Current, rows) /\ UNCHANGED <<exists, taken>>

\* Wrong on purpose: shows the rows of the table, not of the migration.
InsertCountingTable ==
  /\ pc = "insert" /\ Current \in exists
  /\ Inserts(batch) /\ Commit
  /\ offset' = offset + Cardinality(batch)
  /\ total_rows_processed' = offset'
  /\ retry_count' = 0
  /\ pc' = "report"
  /\ UNCHANGED <<given, outcome, batch, attempt, faults>>

\* Wrong on purpose: SQLite's insert_batch returns before its commit.
InsertUncommitted ==
  /\ pc = "insert" /\ Current \in exists
  /\ Inserts(batch) /\ IF autocommit THEN Commit ELSE UNCHANGED durable
  /\ offset' = offset + Cardinality(batch)
  /\ total_rows_processed' = total_rows_processed + Cardinality(batch)
  /\ retry_count' = 0
  /\ pc' = "report"
  /\ UNCHANGED <<given, outcome, batch, attempt, faults>>

\* Wrong on purpose: counts the batch size, not the rows.
InsertCountingBatches ==
  /\ pc = "insert" /\ Current \in exists
  /\ Inserts(batch) /\ Commit
  /\ offset' = offset + BatchSize
  /\ total_rows_processed' = total_rows_processed + BatchSize
  /\ retry_count' = 0
  /\ pc' = "report"
  /\ UNCHANGED <<given, outcome, batch, attempt, faults>>

InsertBatch ==
  /\ pc = "insert" /\ Current \in exists
  /\ Inserts(batch) /\ Commit
  /\ offset' = offset + Cardinality(batch)
  /\ total_rows_processed' = total_rows_processed + Cardinality(batch)
  /\ retry_count' = 0
  /\ pc' = "report"
  /\ UNCHANGED <<given, outcome, batch, attempt, faults>>

\* Wrong on purpose: one attempt too many, one too few, no bound at all.
RetryOnceMore ==
  IF attempt <= MaxRetries THEN attempt' = attempt + 1 /\ UNCHANGED pc
                           ELSE pc' = "give_up" /\ UNCHANGED attempt
RetryOnceLess ==
  IF attempt + 1 < MaxRetries THEN attempt' = attempt + 1 /\ UNCHANGED pc
                              ELSE pc' = "give_up" /\ UNCHANGED attempt
RetryForEver == UNCHANGED <<attempt, pc>>

\* _insert_with_retry makes max_retries + 1 attempts.
RetryInsert ==
  IF attempt < MaxRetries THEN attempt' = attempt + 1 /\ UNCHANGED pc
                          ELSE pc' = "give_up" /\ UNCHANGED attempt

\* The statement fails as a whole, half way (MySQL commits row by row), the
\* connection is lost after the server committed, or it cannot be committed:
\* SQLite keeps the rows in a transaction that the next call goes on with.
InsertFails ==
  /\ pc = "insert" /\ Current \in exists
  /\ \/ Fault("insert_clean") /\ UNCHANGED destination
     \/ /\ autocommit /\ Fault("insert_partial")
        /\ \E rows \in SUBSET batch : Inserts(rows) /\ Commit
     \/ autocommit /\ Fault("insert_late") /\ Inserts(batch) /\ Commit
     \/ /\ ~autocommit /\ Fault("insert_open")
        /\ \E rows \in SUBSET batch : Inserts(rows) /\ UNCHANGED durable
  /\ RetryInsert
  /\ UNCHANGED <<given, outcome, offset, retry_count, batch,
                 total_rows_processed>>

\* There is no such table: every attempt fails.
InsertNowhere ==
  /\ pc = "insert" /\ Current \notin exists
  /\ RetryInsert
  /\ UNCHANGED <<given, destination, outcome, offset, retry_count, batch,
                 total_rows_processed, faults>>

\* All insert retries exhausted.
GiveUp ==
  /\ pc = "give_up"
  /\ Settle("failed")
  /\ UNCHANGED <<given, destination, local, total_rows_processed, faults>>

\* on_progress, after the counters moved.
Report ==
  /\ pc = "report"
  /\ pc' = "fetch"
  /\ UNCHANGED <<given, destination, outcome, local, total_rows_processed, faults>>

\* on_log, on_progress or the coercion of a value (int() of a NaN) raises:
\* nothing catches it, run() does not return.
CallbackRaises ==
  /\ pc \notin {"returned", "raised"}
  /\ pc = "next" => Len(outcome) < Len(Plan)
  /\ Fault("callback")
  /\ pc' = "raised"
  /\ UNCHANGED <<given, destination, outcome, local, total_rows_processed>>

\* A new executor starts over, on a new connection: the process died, the
\* migration was restarted, or the task was delivered again after it had ended.
Rerun ==
  /\ Fault("rerun")
  /\ exists' = durable.exists /\ taken' = durable.taken /\ copies' = durable.copies
  /\ outcome' = <<>>
  /\ pc' = "next"
  /\ offset' = 0 /\ retry_count' = 0 /\ batch' = {} /\ attempt' = 0
  /\ total_rows_processed' = 0
  /\ UNCHANGED <<given, durable>>

-----------------------------------------------------------------------------
Settings == [include_schema : BOOLEAN, include_data : BOOLEAN, truncate : BOOLEAN,
             continue_on_error : BOOLEAN]

\* The destination may hold tables, and rows with keys of the source's rows.
Init ==
  /\ settings \in Settings /\ autocommit \in BOOLEAN
  /\ exists \in SUBSET Tables
  /\ taken \in {k \in [Tables -> SUBSET (UNION {RowsOf(t) : t \in Tables})] :
                  \A t \in Tables : k[t] \subseteq IF t \in Keyed \cap exists
                                                   THEN RowsOf(t) ELSE {}}
  /\ copies = [t \in Tables |-> [r \in RowsOf(t) |-> 0]]
  /\ durable = Written
  /\ outcome = <<>> /\ pc = "next"
  /\ offset = 0 /\ retry_count = 0 /\ batch = {} /\ attempt = 0
  /\ total_rows_processed = 0
  /\ faults = 0

Step ==
  \/ SkipTable     \/ BeginTable        \/ Return
  \/ CreateTable   \/ TruncateTable     \/ NothingToTruncate
  \/ SkipData      \/ FetchBatch        \/ FetchNothing
  \/ InsertBatch   \/ InsertNowhere     \/ GiveUp       \/ Report

Failure == CreateFails \/ TruncateFails \/ FetchFails \/ InsertFails \/ CallbackRaises

Next == Step \/ Failure \/ Rerun

Spec == Init /\ [][Next]_vars

\* The coroutine is scheduled for as long as it can go on; nothing has to fail.
FairSpec == Spec /\ WF_vars(Step)

-----------------------------------------------------------------------------
(* Properties.                                                             *)

Outcomes == {"completed", "skipped", "failed"}
PCs == {"next", "create", "truncate", "fetch", "insert", "give_up", "report", "returned", "raised"}

IsWritten(w) ==
  /\ w.exists \subseteq Tables
  /\ DOMAIN w.taken = Tables /\ DOMAIN w.copies = Tables
  /\ \A t \in Tables : w.taken[t] \subseteq RowsOf(t) /\ w.copies[t] \in [RowsOf(t) -> Nat]

DestinationOK ==
  /\ IsWritten(Written) /\ IsWritten(durable)
  /\ autocommit => durable = Written

\* The shape of every variable.
TypeOK ==
  /\ settings \in Settings /\ autocommit \in BOOLEAN
  /\ DestinationOK
  /\ outcome \in Seq(Outcomes) /\ Len(outcome) <= Len(Plan)
  /\ pc \in PCs
  /\ pc \in {"create", "truncate", "fetch", "insert", "give_up", "report"} => Len(outcome) < Len(Plan)
  /\ pc = "insert" => batch \subseteq RowsOf(Current)
  /\ offset \in Nat /\ retry_count \in 0..MaxRetries /\ attempt \in 0..MaxRetries
  /\ total_rows_processed \in Nat
  /\ faults \in 0..MaxFaults

\* The source's rows that the connection sees, and those that would survive it.
Present(t) == {r \in RowsOf(t) : copies[t][r] > 0 \/ r \in taken[t]}
Durable(t) == {r \in RowsOf(t) : durable.copies[t][r] > 0 \/ r \in durable.taken[t]}

\* Each row of a completed table is committed, whatever failed and was retried,
\* or left in an open transaction on the way; and stays so while the later tables
\* are copied.
CompletedIsCopied ==
  settings.include_data =>
    \A k \in DOMAIN outcome : outcome[k] = "completed" => Durable(Plan[k]) = RowsOf(Plan[k])

\* Retries and repeated attempts never store a row of a keyed table twice; in a
\* table without a key each failure adds at most one more copy.
DuplicatesAccounted ==
  \A t \in Tables : \A r \in RowsOf(t) :
    copies[t][r] <= IF t \in Keyed THEN 1 ELSE 1 + faults

\* Where every table is there, each one given up has cost max_retries + 1
\* failures, however those are spread over fetches and inserts.
GivesUpLate ==
  ~settings.include_schema /\ exists = Tables =>
    Cardinality({k \in DOMAIN outcome : outcome[k] = "failed"}) * (MaxRetries + 1) <= faults

\* The reported rows never exceed those of the tables visited so far, and are
\* all of them when each table was completed.
RowsUpTo(k) == SumUpTo([j \in DOMAIN Plan |-> IF Plan[j] \in Skipped THEN 0
                                              ELSE NumRows[Plan[j]]], k)

CountsAreRight ==
  /\ total_rows_processed <= RowsUpTo(IF Len(outcome) < Len(Plan) THEN Len(outcome) + 1
                                      ELSE Len(outcome))
  /\ (/\ pc = "returned" /\ settings.include_data
      /\ \A k \in DOMAIN outcome : outcome[k] # "failed")
     => total_rows_processed = RowsUpTo(Len(Plan))

\* The percentage on_progress() sends, of a total that may be too small, never
\* moves back while one attempt goes from table to table.
Shown == calculate_progress(total_rows_processed, PlannedRows)
ProgressMovesOn == [][~Rerun => Shown <= Shown']_vars

\* The attempts end: no failure makes the loops run for ever.
Terminates == <>[](pc \in {"returned", "raised"})

\* "Remove all rows from *table_name*": only the current table loses rows.
TruncatesOneTable ==
  [][TruncateTable => \A t \in Tables \ {Current} : copies'[t] = copies[t]]_vars

\* What the executor does is what TableCopy promises.
Promise == INSTANCE TableCopy WITH
  present  <- [t \in Tables |-> Present(t)],
  phase    <- IF pc \in {"returned", "raised"} THEN pc ELSE "running",
  copyData <- settings.include_data,
  goesOn   <- settings.continue_on_error
KeepsPromise == Promise!Spec

=============================================================================
