--------------------------- MODULE MigrationAttempts ---------------------------
(***************************************************************************)
(* A migration of one table from its request to its end, over as many      *)
(* attempts as it takes: the plan the request makes, the one each attempt   *)
(* makes again, the table create_table() makes, and what get_status() and   *)
(* the feed tell meanwhile. Planning (MigrationPlanner) and copying         *)
(* (MigrationExecutor) are coarse here, without failing reads or batches;   *)
(* what is fine is what one attempt leaves to the next.                     *)
(***************************************************************************)
EXTENDS SchemaMapping, ProgressReport, FiniteSets

CONSTANTS
  Kinds,         \* pairs of a source and a destination DatabaseType
  SourceTables,  \* [DatabaseTypes -> the catalogs a source table may have]
  DestTables,    \* the same of a destination table that others made
  MaxRows,       \* the source grows up to so many rows
  MaxAttempts

CatalogOK(t) ==
  /\ t.rows \in 0..MaxRows
  /\ t.primary_keys \subseteq DOMAIN t.columns
  /\ \A c \in DOMAIN t.columns :
       /\ t.columns[c].max_length \in Nat
       /\ t.columns[c].precision \in Nat /\ t.columns[c].scale \in Nat

ASSUME AttemptsOK ==
  /\ Kinds \subseteq DatabaseTypes \X DatabaseTypes
  /\ \A d \in DatabaseTypes : \A t \in SourceTables[d] \cup DestTables[d] : CatalogOK(t)
  /\ MaxRows \in Nat /\ MaxAttempts \in Nat
  /\ Estimates = {}

\* Of the types in a catalog, those that have a length there, and those that have a
\* precision with a scale. Types in no provider's map are named by example: these
\* every database of the kind knows, and the ForeignTypes only some PostgreSQL.
Lengthy(kind) ==
  CASE kind = "postgres" -> {"varchar", "bpchar", "BIT"}
    [] kind = "mysql"    -> {"char", "varchar", "enum", "set", "tinytext", "text", "mediumtext",
                             "longtext", "tinyblob", "blob", "mediumblob", "longblob", "BINARY",
                             "VARBINARY"}
    [] kind = "sqlite"   -> {}
Scaled(kind) ==
  CASE kind = "postgres" -> {"numeric"}
    [] kind = "mysql"    -> {"decimal", "numeric", "float", "double"}
    [] kind = "sqlite"   -> {}
OtherTypes(kind) == CASE kind = "postgres" -> {"INET", "BIT"} \cup ForeignTypes
                      [] kind = "mysql"    -> {"GEOMETRY", "BINARY", "VARBINARY"}
                      [] kind = "sqlite"   -> {}

LongTypes == {"tinytext", "mediumtext", "longtext", "tinyblob", "mediumblob", "longblob"}

\* A column that a database of that kind may have, where its DDL depends on it:
\* an enum of PostgreSQL has any name, and MySQL has limits of its own.
Shown(kind, col) ==
  kind # "sqlite" /\ ~(kind = "postgres" /\ col.is_enum) =>
    /\ col.udt \in DOMAIN TypesOf(kind) \cup OtherTypes(kind)
    /\ col.max_length > 0 => col.udt \in Lengthy(kind)
    /\ col.precision > 0 /\ col.scale > 0 => col.udt \in Scaled(kind)
    /\ kind = "mysql" =>
         /\ col.udt \in {"char", "BINARY"} => col.max_length <= 255
         /\ col.udt \in {"decimal", "numeric"} => col.precision <= 65
         /\ col.precision > 0 /\ col.scale > 0 => col.scale <= 30 /\ col.scale <= col.precision

ASSUME CatalogsShow ==
  \A d \in DatabaseTypes : \A t \in SourceTables[d] :
    /\ \A c \in DOMAIN t.columns : Shown(d, t.columns[c])
    /\ d = "postgres" => \A k \in t.primary_keys : t.columns[k].udt # "json" \/ t.columns[k].is_enum

VARIABLES
  kinds,         \* of the two databases
  source,        \* the source table's catalog
  destination,   \* that of the destination table, or Missing
  own,           \* did create_table() make it?
  row,           \* the migration's: Row
  plan,          \* the last plan made
  phase,
  copied,        \* total_rows_processed of the running attempt
  attempts,
  crashed,       \* has a worker died?
  late,          \* attempts that ended and whose on_failure() is to come, or is not
  overtaken,     \* has it come after the running attempt began?
  clock

vars == <<kinds, source, destination, own, row, plan, phase, copied, attempts, crashed, late, overtaken, clock>>

NoPlan == [source_schema |-> Missing, column_mappings |-> <<>>, status |-> "none"]
Total(p) == IF p.status = "pending" THEN p.source_schema.row_count ELSE 0

Now == clock' = clock + 1

\* build_plan(), with exact counts: there are no Estimates here.
BuildPlan ==
  \E src \in Answers(kinds[1], {source}) :
    \E dst \in IF destination = Missing THEN {Missing} ELSE Answers(kinds[2], {destination}) :
      plan' = IF Incompatible(src, dst)
              THEN [source_schema |-> src, column_mappings |-> <<>>, status |-> "skipped"]
              ELSE [source_schema |-> src, column_mappings |-> ColumnMappings(src, dst),
                    status |-> "pending"]

-----------------------------------------------------------------------------
\* create_migration()
CreateMigration ==
  /\ phase = "new"
  /\ BuildPlan
  /\ row' = [row EXCEPT !.total_rows = Total(plan')]
  /\ phase' = "idle"
  /\ UNCHANGED <<kinds, source, destination, own, copied, attempts, crashed, late, overtaken, clock>>

\* Wrong on purpose: the old end is cleared, but not the old rows.
BeginClearingEnd ==
  /\ phase \in {"idle", "failed", "refused"} /\ attempts < MaxAttempts
  /\ BuildPlan
  /\ row' = [row EXCEPT !.started_at = clock, !.completed_at = None]
  /\ copied' = 0
  /\ phase' = IF plan'.status = "skipped" THEN "copied" ELSE "create"
  /\ attempts' = attempts + 1
  /\ Now
  /\ overtaken' = FALSE
  /\ UNCHANGED <<kinds, source, destination, own, crashed, late>>

\* Wrong on purpose: a skipped table is created all the same.
BeginAnyway ==
  /\ phase \in {"idle", "failed", "refused"} /\ attempts < MaxAttempts
  /\ BuildPlan
  /\ row' = [row EXCEPT !.started_at = clock]
  /\ copied' = 0
  /\ phase' = "create"
  /\ attempts' = attempts + 1
  /\ Now
  /\ overtaken' = FALSE
  /\ UNCHANGED <<kinds, source, destination, own, crashed, late>>

\* start_migration() and the task up to executor.run(). What the last attempt
\* left in the row stays, but for started_at.
Begin ==
  /\ phase \in {"idle", "failed", "refused"} /\ attempts < MaxAttempts
  /\ BuildPlan
  /\ row' = [row EXCEPT !.started_at = clock]
  /\ copied' = 0
  /\ phase' = IF plan'.status = "skipped" THEN "copied" ELSE "create"
  /\ attempts' = attempts + 1
  /\ Now
  /\ overtaken' = FALSE
  /\ UNCHANGED <<kinds, source, destination, own, crashed, late>>

\* CREATE TABLE IF NOT EXISTS, at a database that knows some of the foreign types.
CreateTable ==
  /\ phase = "create"
  /\ \E known \in SUBSET ForeignTypes : ~Refuses(kinds[2], plan.source_schema, destination, known)
  /\ destination' = IF destination = Missing THEN Created(kinds[2], plan.source_schema)
                                             ELSE destination
  /\ own' = (own \/ destination = Missing)
  /\ phase' = "copy"
  /\ Now
  /\ UNCHANGED <<kinds, source, row, plan, copied, attempts, crashed, late, overtaken>>

\* on_failure() is called after most failures, and by an error after the final
\* commit; never in a task that returns.
MayFailLate == late' \in {late, late + 1}

CreateRefused ==
  /\ phase = "create"
  /\ \E known \in SUBSET ForeignTypes : Refuses(kinds[2], plan.source_schema, destination, known)
  /\ phase' = "refused"
  /\ row' = [row EXCEPT !.completed_at = clock, !.processed_rows = copied]
  /\ MayFailLate
  /\ Now
  /\ UNCHANGED <<kinds, source, destination, own, plan, copied, attempts, crashed, overtaken>>

\* Wrong on purpose: the row is committed before the counter moves.
CopyRowLate ==
  /\ phase = "copy" /\ copied < source.rows
  /\ copied' = copied + 1
  /\ row' = [row EXCEPT !.processed_rows = copied]
  /\ Now
  /\ UNCHANGED <<kinds, source, destination, own, plan, phase, attempts, crashed, late, overtaken>>

\* A batch of one row, with its on_progress().
CopyRow ==
  /\ phase = "copy" /\ copied < source.rows
  /\ copied' = copied + 1
  /\ row' = [row EXCEPT !.processed_rows = copied + 1]
  /\ Now
  /\ UNCHANGED <<kinds, source, destination, own, plan, phase, attempts, crashed, late, overtaken>>

NoMoreRows ==
  /\ phase = "copy" /\ copied >= source.rows
  /\ phase' = "copied"
  /\ UNCHANGED <<kinds, source, destination, own, row, plan, copied, attempts, crashed, late, overtaken, clock>>

\* The final commit of a run without failed tables, a skipped one included.
Finalise ==
  /\ phase = "copied"
  /\ phase' = "completed"
  /\ row' = [row EXCEPT !.completed_at = clock, !.processed_rows = copied]
  /\ MayFailLate
  /\ Now
  /\ UNCHANGED <<kinds, source, destination, own, plan, copied, attempts, crashed, overtaken>>

\* The table fails, and the final commit counts its rows; or anything raises, and
\* the handler's _mark_failed() leaves processed_rows alone.
Fail ==
  /\ phase \in {"create", "copy", "copied"}
  /\ phase' = "failed"
  /\ \E n \in {copied, row.processed_rows} :
       row' = [row EXCEPT !.completed_at = clock, !.processed_rows = n]
  /\ MayFailLate
  /\ Now
  /\ UNCHANGED <<kinds, source, destination, own, plan, copied, attempts, crashed, overtaken>>

\* on_failure() marks what the handler has marked already, or the final commit has
\* ended, whatever has been started since. (Two attempts at once are the matter of
\* MigrationLifecycle.)
OnFailure ==
  /\ late > 0 /\ late' = late - 1
  /\ row' = [row EXCEPT !.completed_at = clock]
  /\ overtaken' = (overtaken \/ phase \in {"create", "copy", "copied"})
  /\ phase' = IF phase = "completed" THEN "failed" ELSE phase
  /\ Now
  /\ UNCHANGED <<kinds, source, destination, own, plan, copied, attempts, crashed>>

\* The worker dies, and the message will be delivered again.
Crash ==
  /\ phase \in {"create", "copy", "copied"}
  /\ phase' = "idle" /\ crashed' = TRUE
  /\ UNCHANGED <<kinds, source, destination, own, row, plan, copied, attempts, late, overtaken, clock>>

\* The databases belong to others.
SourceGrows ==
  /\ phase # "completed" /\ source.rows < MaxRows
  /\ source' = [columns |-> source.columns, primary_keys |-> source.primary_keys,
                rows |-> source.rows + 1]
  /\ UNCHANGED <<kinds, destination, own, row, plan, phase, copied, attempts, crashed, late, overtaken, clock>>

DestinationAppears ==
  /\ phase # "completed" /\ destination = Missing
  /\ destination' \in DestTables[kinds[2]]
  /\ UNCHANGED <<kinds, source, own, row, plan, phase, copied, attempts, crashed, late, overtaken, clock>>

-----------------------------------------------------------------------------
Init ==
  /\ kinds \in Kinds
  /\ source \in SourceTables[kinds[1]] /\ destination \in DestTables[kinds[2]] \cup {Missing}
  /\ own = FALSE
  /\ row = [processed_rows |-> 0, total_rows |-> 0, started_at |-> None, completed_at |-> None]
  /\ plan = NoPlan /\ phase = "new" /\ copied = 0 /\ attempts = 0
  /\ crashed = FALSE /\ late = 0 /\ overtaken = FALSE /\ clock = 0

Next ==
  \/ CreateMigration \/ Begin
  \/ CreateTable     \/ CreateRefused
  \/ CopyRow         \/ NoMoreRows    \/ Finalise
  \/ Fail            \/ OnFailure     \/ Crash
  \/ SourceGrows     \/ DestinationAppears

Spec == Init /\ [][Next]_vars

-----------------------------------------------------------------------------
(* Properties.                                                             *)

\* The shape of every variable.
TypeOK ==
  /\ kinds \in Kinds
  /\ source.rows \in Nat
  /\ destination # Missing => destination.rows \in Nat
  /\ own \in BOOLEAN
  /\ row \in Row
  /\ plan.status \in {"none", "pending", "skipped"}
  /\ phase = "new" <=> plan.status = "none"
  /\ plan.status = "pending" => plan.source_schema.row_count \in 0..source.rows
  /\ phase \in {"new", "idle", "create", "copy", "copied", "completed", "failed", "refused"}
  /\ phase \in {"create", "copy"} => plan.status = "pending"
  /\ copied \in Nat /\ attempts \in 0..MaxAttempts
  /\ crashed \in BOOLEAN /\ late \in Nat /\ overtaken \in BOOLEAN /\ clock \in Nat

\* A migration that failed can be started again: the table its first attempt
\* made is never found incompatible, whatever the types were called on the way
\* through two databases, and no column is left out.
OwnTableStaysPlanned ==
  own => /\ plan.status = "pending"
         /\ \A c \in DOMAIN plan.column_mappings : plan.column_mappings[c].include

\* Whether a column of the destination holds what the source's may. The bits of a
\* BIT are its length to PostgreSQL and its precision to MySQL; else a precision is
\* of decimal digits, so many before the point and so many after it. A 0 is no
\* limit. (The ranges of integers and floats are not sizes.)
HasRoom(scol, dcol) ==
  LET bits      == scol.data_type = "BIT"
      Length(x) == IF bits /\ x.max_length = 0 THEN x.precision ELSE x.max_length
  IN  /\ Length(dcol) = 0 \/ Length(scol) \in 1..Length(dcol)
      /\ \/ bits \/ dcol.precision = 0
         \/ /\ scol.precision > 0 /\ scol.scale <= dcol.scale
            /\ scol.precision + dcol.scale <= dcol.precision + scol.scale

\* The columns that lose room: their catalog has neither a length nor a scale, and
\* the bare type of the destination is smaller than what the source may hold.
LosesRoom(kind, scol) ==
  /\ scol.max_length = 0 /\ (scol.precision = 0 \/ scol.scale = 0)
  /\ ~(kind = "postgres" /\ scol.is_enum)
  /\ \/ kind # "sqlite" /\ scol.data_type = "CHAR"
     \/ kind # "sqlite" /\ scol.data_type = "BIT" /\ scol.precision # 1
     \/ /\ kind = "mysql"
        /\ \/ scol.data_type \in {"BINARY", "TINYTEXT", "TEXT", "MEDIUMTEXT",
                                  "TINYBLOB", "BLOB", "MEDIUMBLOB"}
           \/ scol.data_type \in Decimals /\ ~(scol.scale = 0 /\ scol.precision \in 1..10)

\* What create_table() made has the source's columns, its key (without which a
\* repeated insert stores rows twice), a NULL where the source has one, and room
\* for every size the source's provider reported, but in the columns that lose it:
\* these, and no others, are what may be truncated or refused later.
CreatedTableIsFaithful ==
  own =>
    /\ DOMAIN destination.columns = DOMAIN source.columns
    /\ destination.primary_keys = source.primary_keys
    /\ \A c \in DOMAIN source.columns :
         LET scol == Discovered(kinds[1], source.columns[c])
             dcol == destination.columns[c]
         IN  /\ scol.is_nullable /\ c \notin source.primary_keys => dcol.is_nullable
             /\ HasRoom(scol, dcol) <=> ~LosesRoom(kinds[2], scol)

\* get_status() measures with the total of the request's plan, the feed with
\* that of the attempt's own: over a source that only grows a client of the
\* first is never told less than a client of the second.
StatusCoversFeed ==
  row.total_rows > 0 /\ phase = "copy" =>
    calculate_progress(copied, Total(plan)) <= Status(row, clock).progress

\* The processed_rows that a failed attempt leaves in the row are never taken for
\* the speed of the next one: its older completed_at, which a restart leaves as
\* well, keeps speed and estimate at 0. Only a crash leaves the one without the
\* other, and only an on_failure() that comes after the restart makes it younger.
SpeedIsNotInherited ==
  LET status == Status(row, clock)
  IN  /\ status.speed >= 0 /\ status.estimated_time_remaining >= 0
      /\ phase \in {"create", "copy"} /\ ~crashed /\ ~overtaken =>
           status.speed <= calculate_speed(copied, clock - row.started_at)

\* What a database does not take of another of its own kind: SQLite nothing,
\* PostgreSQL only a table with a type that it lacks, and MySQL one with a text or
\* blob that its catalog gives a length but its grammar does not, with a text of no
\* characters at all, with such a type in the key, whose prefix length is not
\* declared, or wider than utf8mb4 allows.
OwnKindIsCreated ==
  LET Types(names) == {source.columns[c].udt : c \in names}
  IN  phase = "refused" =>
        /\ kinds[2] # "sqlite"
        /\ kinds = <<"postgres", "postgres">> =>
             Types(DOMAIN source.columns) \cap ForeignTypes # {}
        /\ kinds = <<"mysql", "mysql">> =>
             \/ Types(DOMAIN source.columns) \cap LongTypes # {}
             \/ \E c \in DOMAIN source.columns :
                  /\ source.columns[c].udt \in {"varchar", "enum", "set", "VARBINARY"}
                  /\ source.columns[c].max_length = 0
             \/ Types(source.primary_keys) \cap {"text", "blob", "json", "GEOMETRY"} # {}
             \/ TooWide("mysql", plan.source_schema)

=============================================================================
