--------------------------- MODULE MigrationPlanner ---------------------------
(***************************************************************************)
(* MigrationPlanner.build_plan(): reads the schemas of the requested tables, *)
(* one after the other, validates each pair and maps its columns; and what  *)
(* the executor makes of such a plan when it inserts a row.                 *)
(* Every read of a database is a step of its own: the databases belong to   *)
(* others, so two reads of one table need not agree.                        *)
(***************************************************************************)
EXTENDS SchemaMapping, ProgressReport, Sequences, FiniteSets

CONSTANTS
  Tables,
  Requested,     \* table_names
  SourceTables,  \* [DatabaseTypes -> [Tables -> what the source's catalog may say]]
  DestTables,    \* the same for the destination's
  Kinds,         \* pairs of a source and a destination DatabaseType
  FaultKinds,    \* the failures this environment produces, of AllFaults
  MaxFaults

AllFaults == {"source_read", "table_exists", "destination_read"}

ASSUME RequestOK == Requested \in Seq(Tables)
ASSUME KindsOK == Kinds \subseteq DatabaseTypes \X DatabaseTypes
ASSUME CatalogsOK ==
  /\ EstimateAbove \in Nat /\ Estimates \subseteq Nat
  /\ \A kind \in DatabaseTypes : \A t \in Tables :
       \A catalog \in SourceTables[kind][t] : catalog.rows \in Nat
ASSUME FaultsOK == FaultKinds \subseteq AllFaults /\ MaxFaults \in Nat

VARIABLES
  kinds,         \* of the two databases
  index,         \* how many of the requested tables are done
  pc,
  src_schema,    \* local of the loop body
  rows_then,     \* history: the rows the table had when that schema was read,
  rows_planned,  \* and those of the tables planned so far, one for each
  table_plans, total_rows, warnings,
  faults

vars == <<kinds, index, pc, src_schema, rows_then, rows_planned,
          table_plans, total_rows, warnings, faults>>

TableName == Requested[index + 1]

Fault(kind) ==
  /\ kind \in FaultKinds
  /\ faults < MaxFaults
  /\ faults' = faults + 1

-----------------------------------------------------------------------------
(* build_plan()                                                            *)

TablePlan(dst, mappings, status) ==
  [table_name |-> TableName, source_schema |-> src_schema, destination_schema |-> dst,
   column_mappings |-> mappings, status |-> status]

NextTable == index' = index + 1 /\ pc' = "source"
Planning(plan) ==
  /\ table_plans' = Append(table_plans, plan)
  /\ rows_planned' = Append(rows_planned, rows_then)

ReadSource ==
  /\ pc = "source" /\ index < Len(Requested)
  /\ \E catalog \in SourceTables[kinds[1]][TableName] :
       /\ src_schema' \in Answers(kinds[1], {catalog})
       /\ rows_then' = catalog.rows
  /\ pc' = "exists"
  /\ UNCHANGED <<kinds, index, rows_planned, table_plans, total_rows, warnings, faults>>

\* Wrong on purpose: the table disappears without a trace.
SourceUnreadableSilently ==
  /\ pc = "source" /\ index < Len(Requested)
  /\ Fault("source_read")
  /\ NextTable
  /\ UNCHANGED <<kinds, src_schema, rows_then, rows_planned, table_plans, total_rows, warnings>>

\* Wrong on purpose: without "continue", the schema of the table before is used.
SourceUnreadableGoesOn ==
  /\ pc = "source" /\ index < Len(Requested)
  /\ Fault("source_read")
  /\ warnings' = warnings \cup {<<"source_unreadable", index + 1>>}
  /\ pc' = "exists"
  /\ UNCHANGED <<kinds, index, src_schema, rows_then, rows_planned, table_plans, total_rows>>

\* The table is left out of the plan; only a warning tells.
SourceUnreadable ==
  /\ pc = "source" /\ index < Len(Requested)
  /\ Fault("source_read")
  /\ warnings' = warnings \cup {<<"source_unreadable", index + 1>>}
  /\ NextTable
  /\ UNCHANGED <<kinds, src_schema, rows_then, rows_planned, table_plans, total_rows>>

\* Wrong on purpose: counts the rows of a table that will not be copied.
SkipCountingRows(dst) ==
  /\ Incompatible(src_schema, dst)
  /\ Planning(TablePlan(dst, <<>>, "skipped"))
  /\ total_rows' = total_rows + src_schema.row_count

\* The table is planned as skipped. The warnings found before the error go
\* down with it, and its rows are not counted.
Skip(dst) ==
  /\ Incompatible(src_schema, dst)
  /\ Planning(TablePlan(dst, <<>>, "skipped"))
  /\ UNCHANGED total_rows

Include(dst) ==
  /\ ~Incompatible(src_schema, dst)
  /\ Planning(TablePlan(dst, ColumnMappings(src_schema, dst), "pending"))
  /\ total_rows' = total_rows + src_schema.row_count

Judgement(dst) ==
  IF Incompatible(src_schema, dst) THEN {<<"fatal", index + 1>>}
                                   ELSE Concerns(index + 1, src_schema, dst)

\* The destination has no such table.
NotThere ==
  /\ pc = "exists"
  /\ Skip(Missing) \/ Include(Missing)
  /\ warnings' = warnings \cup Judgement(Missing)
  /\ NextTable
  /\ UNCHANGED <<kinds, src_schema, rows_then, faults>>

Exists ==
  /\ pc = "exists" /\ DestTables[kinds[2]][TableName] # {}
  /\ pc' = "destination"
  /\ UNCHANGED <<kinds, index, src_schema, rows_then, rows_planned, table_plans, total_rows, warnings, faults>>

\* table_exists is outside every try: there is no plan at all.
ExistsRaises ==
  /\ pc = "exists"
  /\ Fault("table_exists")
  /\ pc' = "raised"
  /\ UNCHANGED <<kinds, index, src_schema, rows_then, rows_planned, table_plans, total_rows, warnings>>

ReadDestination ==
  /\ pc = "destination"
  /\ \E dst \in Answers(kinds[2], DestTables[kinds[2]][TableName]) :
       /\ Skip(dst) \/ Include(dst)
       /\ warnings' = warnings \cup Judgement(dst)
  /\ NextTable
  /\ UNCHANGED <<kinds, src_schema, rows_then, faults>>

\* The table exists, or did a moment ago, but is planned as if it did not.
DestinationUnreadable ==
  /\ pc = "destination"
  /\ Fault("destination_read")
  /\ Skip(Missing) \/ Include(Missing)
  /\ warnings' = warnings \cup {<<"destination_unreadable", index + 1>>} \cup Judgement(Missing)
  /\ NextTable
  /\ UNCHANGED <<kinds, src_schema, rows_then>>

Return ==
  /\ pc = "source" /\ index = Len(Requested)
  /\ pc' = "returned"
  /\ UNCHANGED <<kinds, index, src_schema, rows_then, rows_planned, table_plans, total_rows, warnings, faults>>

Init ==
  /\ kinds \in Kinds
  /\ index = 0 /\ pc = "source" /\ src_schema = Missing
  /\ rows_then = 0 /\ rows_planned = <<>>
  /\ table_plans = <<>> /\ total_rows = 0 /\ warnings = {}
  /\ faults = 0

Next ==
  \/ ReadSource \/ SourceUnreadable
  \/ NotThere   \/ Exists           \/ ExistsRaises
  \/ ReadDestination \/ DestinationUnreadable
  \/ Return

Spec == Init /\ [][Next]_vars

-----------------------------------------------------------------------------
(* Properties.                                                             *)

Positions == 1..Len(Requested)
WarningKinds == {"source_unreadable", "destination_unreadable", "fatal",
                 "not_in_destination", "may_be_truncated", "not_in_source"}

\* The shape of every variable.
TypeOK ==
  /\ kinds \in Kinds
  /\ index \in 0..Len(Requested)
  /\ pc \in {"source", "exists", "destination", "returned", "raised"}
  /\ pc \in {"exists", "destination"} => /\ index < Len(Requested)
                                         /\ src_schema \in Answers(kinds[1], SourceTables[kinds[1]][TableName])
  /\ rows_then \in Nat
  /\ Len(table_plans) <= index /\ Len(rows_planned) = Len(table_plans)
  /\ \A k \in DOMAIN table_plans : table_plans[k].status \in {"pending", "skipped"}
  /\ total_rows \in Nat
  /\ warnings \subseteq WarningKinds \X Positions
  /\ faults \in 0..MaxFaults

\* Whatever reads fail on the way, the plan has the requested tables in their
\* order, but for those a warning says could not be read.
Readable == {i \in 1..index : <<"source_unreadable", i>> \notin warnings}
Place(i) == Cardinality({j \in Readable : j <= i})
PlansEveryTable ==
  /\ Len(table_plans) = Cardinality(Readable)
  /\ \A i \in Readable : table_plans[Place(i)].table_name = Requested[i]

\* total_rows, which every percentage is taken of, is the number of rows that the
\* tables to be copied really had when they were read, and no row of a table that
\* is skipped or could not be read, unless one of PostgreSQL's estimates went into
\* it: the count of a table of at most EstimateAbove rows, or of any table of
\* another database, is never one.
RowsToCopy == [k \in DOMAIN table_plans |->
                 IF table_plans[k].status = "pending" THEN rows_planned[k] ELSE 0]
MayBeEstimated(plan) ==
  /\ plan.status = "pending"
  /\ kinds[1] = "postgres" /\ plan.source_schema.row_count > EstimateAbove
TotalIsExact ==
  \/ \E k \in DOMAIN table_plans : MayBeEstimated(table_plans[k])
  \/ total_rows = SumUpTo(RowsToCopy, Len(table_plans))

\* The holes of the validator: no column in common, a NULL or a long text for a
\* column that takes none, types it has no family for, and those of one family
\* whose values the drivers do not share: bits, dates and times, and Decimal,
\* which SQLite's cannot bind.
OwnClasses == {"BIT", "BOOL", "DATE", "TIME", "DATETIME", "TIMESTAMP", "TIMETZ", "TIMESTAMPTZ"}

Ordinary(plan, row) ==
  LET shared == Shared(plan.source_schema, plan.destination_schema)
  IN  /\ shared # {}
      /\ \A c \in shared :
           LET scol == plan.source_schema.columns[c]
               dcol == plan.destination_schema.columns[c]
           IN  /\ Family(scol.data_type) # {} /\ scol.data_type \notin OwnClasses
               /\ Family(dcol.data_type) # {} /\ dcol.data_type \notin OwnClasses
               /\ row[c] = "null" => dcol.is_nullable
               /\ row[c] = "long" => dcol.max_length # 1
               /\ row[c] = "decimal" => kinds[2] # "sqlite"

\* Validator, mapper and executor together: the destination that was read for
\* a planned table accepts every ordinary row of the source, with the columns
\* the source lacks filled in and those the destination lacks left out.
PlannedRowsAreAccepted ==
  \A k \in DOMAIN table_plans :
    LET plan == table_plans[k]
    IN  plan.status = "pending" /\ plan.destination_schema # Missing =>
          \A row \in RowsOf(kinds[1], plan.source_schema) :
            Ordinary(plan, row) =>
              Accepts(kinds[2], plan.destination_schema, Transformed(plan, row))

=============================================================================
