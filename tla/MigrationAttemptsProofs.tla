------------------------ MODULE MigrationAttemptsProofs ------------------------
(***************************************************************************)
(* What one attempt leaves to the next, for any catalogs, rows, attempts    *)
(* and failures.                                                            *)
(***************************************************************************)
EXTENDS MigrationAttempts

-----------------------------------------------------------------------------
(* The percentage against two totals.                                       *)

\* The larger the divisor the smaller the quotient, rounded as well.
LEMMA RoundedAntitone ==
  ASSUME NEW n \in Nat, NEW d1 \in Nat \ {0}, NEW d2 \in Nat \ {0}, d1 <= d2
  PROVE  Rounded(n, d2) <= Rounded(n, d1)
<1>1. PICK q1 \in Nat, r1 \in Nat :
        q1 = n \div d1 /\ r1 = n % d1 /\ r1 < d1 /\ n = d1 * q1 + r1
  BY SMT
<1>2. PICK q2 \in Nat, r2 \in Nat :
        q2 = n \div d2 /\ r2 = n % d2 /\ r2 < d2 /\ n = d2 * q2 + r2
  BY SMT
<1>3. d1 * q2 <= d2 * q2 /\ d1 * (q1 + 1) = d1 * q1 + d1
  BY SMT
<1>4. q2 <= q1
  <2>1. SUFFICES ASSUME q1 + 1 <= q2 PROVE FALSE
    BY SMT
  <2>2. d1 * (q1 + 1) <= d1 * q2
    BY <2>1, SMT
  <2>3. d1 * q1 \in Int /\ d1 * q2 \in Int /\ d2 * q2 \in Int /\ d1 * (q1 + 1) \in Int
    BY SMT
  <2> QED
    BY <1>1, <1>2, <1>3, <2>2, <2>3, SMT
<1>5. CASE q2 < q1
  <2>1. Rounded(n, d2) <= q2 + 1 /\ q1 <= Rounded(n, d1)
    BY <1>1, <1>2, RoundedRange
  <2>2. Rounded(n, d2) \in Nat /\ Rounded(n, d1) \in Nat
    BY RoundedRange
  <2> QED
    BY <1>5, <2>1, <2>2, SMT
<1>6. CASE q1 = q2
  <2>1. r2 <= r1
    <3>1. d1 * q1 \in Int /\ d1 * q2 \in Int /\ d2 * q2 \in Int /\ d1 * q1 = d1 * q2
      BY <1>6, SMT
    <3> QED
      BY <1>1, <1>2, <1>3, <3>1, SMT
  <2>2. /\ Rounded(n, d1) = IF 2 * r1 < d1 \/ (2 * r1 = d1 /\ q1 % 2 = 0) THEN q1 ELSE q1 + 1
        /\ Rounded(n, d2) = IF 2 * r2 < d2 \/ (2 * r2 = d2 /\ q2 % 2 = 0) THEN q2 ELSE q2 + 1
    BY <1>1, <1>2 DEF Rounded
  <2> QED
    BY <1>6, <2>1, <2>2, SMT
<1> QED
  BY <1>4, <1>5, <1>6, SMT

\* A larger total never shows more progress.
LEMMA ProgressAntitone ==
  ASSUME NEW processed \in Nat, NEW t1 \in Nat \ {0}, NEW t2 \in Nat, t1 <= t2
  PROVE  calculate_progress(processed, t2) <= calculate_progress(processed, t1)
<1>1. 100 * processed \in Nat /\ t2 \in Nat \ {0}
  BY SMT
<1>2. Rounded(100 * processed, t2) <= Rounded(100 * processed, t1)
  BY <1>1, RoundedAntitone
<1>3. Rounded(100 * processed, t2) \in Nat /\ Rounded(100 * processed, t1) \in Nat
  BY <1>1, RoundedRange
<1> QED
  BY <1>1, <1>2, <1>3, SMT DEF calculate_progress

\* Nothing processed is no progress.
LEMMA NoProgress ==
  ASSUME NEW total \in Nat
  PROVE  calculate_progress(0, total) = 0
<1>1. CASE total = 0
  BY <1>1 DEF calculate_progress
<1>2. CASE total # 0
  <2>1. 0 \div total = 0 /\ 0 % total = 0
    BY <1>2, SMT
  <2>2. 100 * 0 = 0
    BY SMT
  <2>3. Rounded(0, total) = 0
    BY <1>2, <2>1, SMT DEF Rounded
  <2> QED
    BY <1>2, <2>2, <2>3, SMT DEF calculate_progress
<1> QED
  BY <1>1, <1>2

\* Speeds and estimates are natural numbers, over any time.
LEMMA SpeedType ==
  ASSUME NEW processed \in Nat, NEW total \in Nat, NEW elapsed \in Int
  PROVE  /\ calculate_speed(processed, elapsed) \in Nat
         /\ estimate_time_remaining(processed, total, elapsed) \in Nat
<1>1. calculate_speed(processed, elapsed) \in Nat
  <2>1. CASE elapsed <= 0
    BY <2>1 DEF calculate_speed
  <2>2. CASE elapsed \in Nat \ {0}
    BY <2>2, RoundedRange DEF calculate_speed
  <2> QED
    BY <2>1, <2>2
<1>2. CASE processed <= 0 \/ total <= 0 \/ elapsed <= 0
  <2>1. estimate_time_remaining(processed, total, elapsed) = 0
    BY <1>2, Zenon DEF estimate_time_remaining
  <2> QED
    BY <1>1, <2>1
<1>3. CASE ~(processed <= 0 \/ total <= 0 \/ elapsed <= 0)
  <2> DEFINE left == IF total > processed THEN total - processed ELSE 0
  <2>1. left \in Nat
    BY SMT
  <2> HIDE DEF left
  <2>2. left * elapsed \in Nat
    BY <1>3, <2>1, SMT
  <2>3. estimate_time_remaining(processed, total, elapsed) = Ceiling(left * elapsed, processed)
    BY <1>3 DEF estimate_time_remaining, left
  <2> QED
    BY <1>1, <1>3, <2>2, <2>3, CeilingIsLeast
<1> QED
  BY <1>1, <1>2, <1>3

-----------------------------------------------------------------------------
(* Type correctness.                                                        *)

\* The databases are asked for tables of few enough rows to count.
LEMMA ExactCount ==
  ASSUME NEW kind, NEW rows \in 0..MaxRows
  PROVE  RowCounts(kind, rows) = {rows}
BY AttemptsOK DEF RowCounts

\* A schema as read: the columns and the rows of the catalog.
LEMMA AnswerFacts ==
  ASSUME NEW kind, NEW t, t.rows \in 0..MaxRows, NEW schema \in Answers(kind, {t})
  PROVE  schema = [columns |-> [c \in DOMAIN t.columns |-> Discovered(kind, t.columns[c])],
                   primary_keys |-> t.primary_keys, row_count |-> t.rows]
BY ExactCount DEF Answers

\* What a plan knows of the source.
LEMMA PlanFacts ==
  ASSUME source.rows \in 0..MaxRows, BuildPlan
  PROVE  /\ plan'.status \in {"pending", "skipped"}
         /\ plan'.source_schema =
              [columns |-> [c \in DOMAIN source.columns |-> Discovered(kinds[1], source.columns[c])],
               primary_keys |-> source.primary_keys, row_count |-> source.rows]
BY AnswerFacts DEF BuildPlan

\* A table that create_table() made is empty.
LEMMA CreatedEmpty ==
  ASSUME NEW kind, NEW schema
  PROVE  Created(kind, schema).rows = 0
BY DEF Created

Types ==
  /\ TypeOK
  /\ source.rows \in 0..MaxRows
  /\ kinds[1] \in DatabaseTypes /\ kinds[2] \in DatabaseTypes

LEMMA InitTypes == Init => Types
<1> SUFFICES ASSUME Init PROVE Types
  OBVIOUS
<1>1. kinds[1] \in DatabaseTypes /\ kinds[2] \in DatabaseTypes /\ kinds \in Kinds
  BY AttemptsOK DEF Init
<1>2. CatalogOK(source) /\ (destination # Missing => CatalogOK(destination))
  BY <1>1, AttemptsOK DEF Init
<1>3. source.rows \in 0..MaxRows /\ source.rows \in Nat
      /\ (destination # Missing => destination.rows \in Nat)
  BY <1>2, AttemptsOK DEF CatalogOK
<1>4. row \in Row /\ plan.status = "none" /\ attempts \in 0..MaxAttempts
  BY AttemptsOK DEF Init, Row, NoPlan
<1> QED
  BY <1>1, <1>3, <1>4 DEF Init, Types, TypeOK

LEMMA NextTypes ==
  ASSUME Types, [Next]_vars
  PROVE  Types'
<1> USE DEF Types, TypeOK
<1>1. CASE CreateMigration
  <2>1. Total(plan') \in Nat
    BY <1>1, PlanFacts DEF CreateMigration, Total
  <2>2. row' \in Row
    BY <1>1, <2>1 DEF CreateMigration, Row
  <2> QED
    BY <1>1, <2>2, PlanFacts DEF CreateMigration
<1>2. CASE Begin
  <2>1. row' \in Row
    BY <1>2 DEF Begin, Row
  <2>2. attempts' \in 0..MaxAttempts /\ clock' \in Nat
    BY <1>2, AttemptsOK DEF Begin, Now
  <2>3. phase' \in {"copied", "create"} /\ (phase' = "create" => plan'.status = "pending")
    BY <1>2, PlanFacts DEF Begin
  <2>4. late' = late /\ overtaken' \in BOOLEAN
    BY <1>2, Zenon DEF Begin
  <2> QED
    BY <1>2, <2>1, <2>2, <2>3, <2>4, PlanFacts DEF Begin
<1>3. CASE CreateTable
  <2>1. destination' # Missing => destination'.rows \in Nat
    BY <1>3, CreatedEmpty DEF CreateTable
  <2> QED
    BY <1>3, <2>1 DEF CreateTable, Now
<1>4. CASE CreateRefused
  <2>1. row' \in Row
    BY <1>4 DEF CreateRefused, Row
  <2> QED
    BY <1>4, <2>1, SMT DEF CreateRefused, MayFailLate, Now
<1>5. CASE CopyRow
  BY <1>5 DEF CopyRow, Now, Row
<1>6. CASE NoMoreRows \/ Crash
  BY <1>6 DEF NoMoreRows, Crash
<1>7. CASE Finalise
  <2>1. row' \in Row
    BY <1>7 DEF Finalise, Row
  <2> QED
    BY <1>7, <2>1, SMT DEF Finalise, MayFailLate, Now
<1>8. CASE Fail
  <2>1. PICK n \in Nat : row' = [row EXCEPT !.completed_at = clock, !.processed_rows = n]
    BY <1>8 DEF Fail, Row
  <2>2. row' \in Row
    BY <2>1 DEF Row
  <2> QED
    BY <1>8, <2>2, SMT DEF Fail, MayFailLate, Now
<1>9. CASE SourceGrows
  BY <1>9, AttemptsOK DEF SourceGrows
<1>10. CASE DestinationAppears
  BY <1>10, AttemptsOK DEF DestinationAppears, CatalogOK
<1>11. CASE OnFailure
  <2>1. row' \in Row
    BY <1>11 DEF OnFailure, Row
  <2>2. late' \in Nat /\ overtaken' \in BOOLEAN
    BY <1>11 DEF OnFailure
  <2>3. phase' = phase \/ (phase = "completed" /\ phase' = "failed")
    BY <1>11 DEF OnFailure
  <2> QED
    BY <1>11, <2>1, <2>2, <2>3 DEF OnFailure, Now
<1>12. CASE UNCHANGED vars
  BY <1>12 DEF vars
<1> QED
  BY <1>1, <1>2, <1>3, <1>4, <1>5, <1>6, <1>7, <1>8, <1>9, <1>10, <1>11, <1>12 DEF Next

\* Whatever fails, and however the databases change in between.
THEOREM AttemptsTypeCorrect == Spec => []TypeOK
<1>1. Types /\ [Next]_vars => Types'
  BY NextTypes
<1>2. Types => TypeOK
  BY DEF Types
<1> QED
  BY InitTypes, <1>1, <1>2, PTL DEF Spec

-----------------------------------------------------------------------------
(* The two percentages.                                                     *)

\* The request's total is that of an older plan, so no larger than the attempt's;
\* and the row has counted what the running attempt has, if it has any.
Covered ==
  /\ row.total_rows <= source.rows
  /\ plan.status = "pending" => row.total_rows <= plan.source_schema.row_count
  /\ phase \in {"create", "copy"} => copied = 0 \/ row.processed_rows = copied

LEMMA InitCovered == Init => Covered
<1> SUFFICES ASSUME Init PROVE Covered
  OBVIOUS
<1>1. source.rows \in Nat
  BY InitTypes DEF Types, TypeOK
<1> QED
  BY <1>1 DEF Init, Covered, NoPlan

LEMMA NextCovered ==
  ASSUME Types, Covered, [Next]_vars
  PROVE  Covered'
<1> USE DEF Covered
<1>0. row \in Row /\ source.rows \in Nat /\ source.rows \in 0..MaxRows
  BY DEF Types, TypeOK
<1>1. CASE CreateMigration
  <2>1. plan'.source_schema.row_count = source.rows /\ source' = source /\ phase' = "idle"
    BY <1>0, <1>1, PlanFacts DEF CreateMigration
  <2>2. row'.total_rows = Total(plan')
    BY <1>0, <1>1 DEF CreateMigration, Row
  <2>3. row'.total_rows \in {0, source.rows}
    BY <2>1, <2>2 DEF Total
  <2> QED
    BY <1>0, <2>1, <2>3
<1>2. CASE Begin
  <2>1. plan'.source_schema.row_count = source.rows /\ source' = source /\ copied' = 0
    BY <1>0, <1>2, PlanFacts DEF Begin
  <2>2. row'.total_rows = row.total_rows
    BY <1>0, <1>2 DEF Begin, Row
  <2> QED
    BY <2>1, <2>2
<1>3. CASE CreateTable
  BY <1>3 DEF CreateTable
<1>4. CASE CreateRefused \/ Finalise \/ Fail
  <2>1. row'.total_rows = row.total_rows
    BY <1>0, <1>4 DEF CreateRefused, Finalise, Fail, Row
  <2>2. phase' \notin {"create", "copy"} /\ source' = source /\ plan' = plan
    BY <1>4 DEF CreateRefused, Finalise, Fail
  <2> QED
    BY <2>1, <2>2
<1>5. CASE CopyRow
  <2>1. row'.total_rows = row.total_rows /\ row'.processed_rows = copied' /\ source' = source /\ plan' = plan
    BY <1>0, <1>5 DEF CopyRow, Row
  <2> QED
    BY <2>1
<1>6. CASE NoMoreRows \/ Crash \/ DestinationAppears \/ UNCHANGED vars
  BY <1>6 DEF NoMoreRows, Crash, DestinationAppears, vars
<1>7. CASE SourceGrows
  <2>1. source'.rows = source.rows + 1 /\ row' = row /\ plan' = plan /\ phase' = phase /\ copied' = copied
    BY <1>7 DEF SourceGrows
  <2>2. row.total_rows \in Nat
    BY <1>0 DEF Row
  <2> QED
    BY <1>0, <2>1, <2>2
<1>8. CASE OnFailure
  <2>1. /\ row'.total_rows = row.total_rows /\ row'.processed_rows = row.processed_rows
        /\ source' = source /\ plan' = plan /\ copied' = copied
    BY <1>0, <1>8 DEF OnFailure, Row
  <2>2. phase' \in {"create", "copy"} => phase' = phase
    BY <1>8 DEF OnFailure
  <2> QED
    BY <2>1, <2>2
<1> QED
  BY <1>1, <1>2, <1>3, <1>4, <1>5, <1>6, <1>7, <1>8 DEF Next

\* Over a source that only grows get_status() never tells less than the feed:
\* it measures with the total of the request's plan, and the row is never behind
\* the attempt that is copying.
THEOREM StatusIsAhead == Spec => []StatusCoversFeed
<1>1. Types /\ [Next]_vars => Types'
  BY NextTypes
<1>2. Types /\ Covered /\ [Next]_vars => Covered'
  BY NextCovered
<1>3. Types /\ Covered => StatusCoversFeed
  <2> SUFFICES ASSUME Types, Covered, row.total_rows > 0, phase = "copy"
               PROVE  calculate_progress(copied, Total(plan)) <= Status(row, clock).progress
    BY DEF StatusCoversFeed
  <2>1. /\ row.total_rows \in Nat \ {0} /\ row.processed_rows \in Nat /\ copied \in Nat
        /\ plan.status = "pending" /\ plan.source_schema.row_count \in Nat
    BY DEF Types, TypeOK, Row
  <2>2. Total(plan) = plan.source_schema.row_count /\ row.total_rows <= Total(plan) /\ Total(plan) \in Nat
    BY <2>1 DEF Covered, Total
  <2>3. Status(row, clock).progress = calculate_progress(row.processed_rows, row.total_rows)
    BY DEF Status
  <2>4. CASE row.processed_rows = copied
    BY <2>1, <2>2, <2>3, <2>4, ProgressAntitone
  <2>5. CASE copied = 0
    <3>1. calculate_progress(copied, Total(plan)) = 0
      BY <2>2, <2>5, NoProgress
    <3>2. calculate_progress(row.processed_rows, row.total_rows) \in 0..100
      BY <2>1, ProgressIsAPercentage
    <3> QED
      BY <2>3, <3>1, <3>2
  <2> QED
    BY <2>4, <2>5 DEF Covered
<1> QED
  BY InitTypes, InitCovered, <1>1, <1>2, <1>3, PTL DEF Spec

-----------------------------------------------------------------------------
(* The speed of a restarted migration.                                      *)

\* An end that is older than the running attempt, unless a late mark made it
\* younger; or, without any, a row that
\* counts this attempt's rows only, if no worker has died.
Dated ==
  /\ row.started_at # None => row.started_at <= clock
  /\ row.completed_at # None => row.completed_at <= clock
  /\ phase \in {"failed", "refused", "completed"} => row.completed_at # None
  /\ phase \in {"create", "copy", "copied"} =>
       /\ row.started_at # None
       /\ row.completed_at # None /\ ~overtaken => row.completed_at <= row.started_at
  /\ ~crashed /\ row.completed_at = None =>
       row.processed_rows = IF phase \in {"create", "copy", "copied"} THEN copied ELSE 0

LEMMA InitDated == Init => Dated
BY DEF Init, Dated

LEMMA NextDated ==
  ASSUME Types, Dated, [Next]_vars
  PROVE  Dated'
<1>0. /\ row \in Row /\ clock \in Nat /\ row.processed_rows \in Nat
      /\ row.started_at \in Nat \cup {None} /\ row.completed_at \in Nat \cup {None}
  BY DEF Types, TypeOK, Row
<1>1. CASE CreateMigration
  <2>1. /\ row'.started_at = row.started_at /\ row'.completed_at = row.completed_at
        /\ row'.processed_rows = row.processed_rows
        /\ clock' = clock /\ crashed' = crashed /\ phase = "new" /\ phase' = "idle"
    BY <1>0, <1>1 DEF CreateMigration, Row
  <2> QED
    BY <2>1 DEF Dated
<1>2. CASE Begin
  <2>1. /\ row'.started_at = clock /\ row'.completed_at = row.completed_at
        /\ row'.processed_rows = row.processed_rows /\ copied' = 0
        /\ clock' = clock + 1 /\ crashed' = crashed
        /\ phase \in {"idle", "failed", "refused"} /\ phase' \in {"create", "copied"}
    BY <1>0, <1>2 DEF Begin, Now, Row
  <2>2. clock # None
    BY <1>0, NoneIsNoTime
  <2> QED
    BY <1>0, <2>1, <2>2 DEF Dated
<1>3. CASE CreateTable \/ NoMoreRows
  <2>1. /\ row' = row /\ clock' \in {clock, clock + 1} /\ crashed' = crashed /\ copied' = copied
        /\ phase \in {"create", "copy", "copied"} /\ phase' \in {"create", "copy", "copied"}
        /\ overtaken' = overtaken
    BY <1>3 DEF CreateTable, NoMoreRows, Now
  <2> QED
    BY <1>0, <2>1 DEF Dated
<1>4. CASE CreateRefused \/ Finalise \/ Fail
  <2>1. /\ row'.started_at = row.started_at /\ row'.completed_at = clock
        /\ clock' = clock + 1 /\ phase' \in {"refused", "completed", "failed"}
    BY <1>0, <1>4 DEF CreateRefused, Finalise, Fail, Now, Row
  <2>2. clock # None
    BY <1>0, NoneIsNoTime
  <2> QED
    BY <1>0, <2>1, <2>2 DEF Dated
<1>5. CASE CopyRow
  <2>1. /\ row'.started_at = row.started_at /\ row'.completed_at = row.completed_at
        /\ row'.processed_rows = copied' /\ clock' = clock + 1
        /\ phase = "copy" /\ phase' = "copy" /\ crashed' = crashed
        /\ overtaken' = overtaken
    BY <1>0, <1>5 DEF CopyRow, Now, Row
  <2> QED
    BY <1>0, <2>1 DEF Dated
<1>6. CASE Crash
  BY <1>6 DEF Crash, Dated
<1>7. CASE SourceGrows \/ DestinationAppears \/ UNCHANGED vars
  <2>1. /\ row' = row /\ clock' = clock /\ crashed' = crashed /\ copied' = copied /\ phase' = phase
        /\ overtaken' = overtaken
    BY <1>7 DEF SourceGrows, DestinationAppears, vars
  <2> QED
    BY <2>1 DEF Dated
<1>8. CASE OnFailure
  <2>1. /\ row'.started_at = row.started_at /\ row'.completed_at = clock /\ clock' = clock + 1
        /\ overtaken' = (overtaken \/ phase \in {"create", "copy", "copied"})
        /\ phase' \in {"create", "copy", "copied"} => phase' = phase
    BY <1>0, <1>8 DEF OnFailure, Now, Row
  <2>2. clock # None
    BY <1>0, NoneIsNoTime
  <2>3. phase' \in {"create", "copy", "copied"} => overtaken'
    BY <2>1, Zenon
  <2> QED
    BY <1>0, <2>1, <2>2, <2>3 DEF Dated
<1> QED
  BY <1>1, <1>2, <1>3, <1>4, <1>5, <1>6, <1>7, <1>8 DEF Next

\* A restarted migration is never credited with the rows of the attempt before
\* it, unless a worker died or the old attempt's on_failure() came after the
\* restart: its speed is 0 by the old end, or, if no attempt has ended, its own.
THEOREM SpeedIsItsOwn == Spec => []SpeedIsNotInherited
<1>1. Types /\ [Next]_vars => Types'
  BY NextTypes
<1>2. Types /\ Dated /\ [Next]_vars => Dated'
  BY NextDated
<1>3. Types /\ Dated => SpeedIsNotInherited
  <2> SUFFICES ASSUME Types, Dated PROVE SpeedIsNotInherited
    OBVIOUS
  <2>1. /\ row.processed_rows \in Nat /\ row.total_rows \in Nat /\ clock \in Nat /\ copied \in Nat
        /\ row.started_at \in Nat \cup {None} /\ row.completed_at \in Nat \cup {None}
    BY DEF Types, TypeOK, Row
  <2>2. Elapsed(row, clock) \in Int
    BY <2>1 DEF Elapsed
  <2>3. /\ Status(row, clock).speed = calculate_speed(row.processed_rows, Elapsed(row, clock))
        /\ Status(row, clock).estimated_time_remaining =
             estimate_time_remaining(row.processed_rows, row.total_rows, Elapsed(row, clock))
    BY DEF Status
  <2>4. /\ Status(row, clock).speed \in Nat
        /\ Status(row, clock).estimated_time_remaining \in Nat
    BY <2>1, <2>2, <2>3, SpeedType
  <2>5. ASSUME phase \in {"create", "copy"}, ~crashed, ~overtaken
        PROVE  Status(row, clock).speed <= calculate_speed(copied, clock - row.started_at)
    <3>1. row.started_at \in Nat /\ row.started_at # None
      BY <2>1, <2>5 DEF Dated
    <3>2. calculate_speed(copied, clock - row.started_at) \in Nat
      <4>1. clock - row.started_at \in Int
        BY <2>1, <3>1
      <4> QED
        BY <2>1, <4>1, SpeedType
    <3>3. CASE row.completed_at # None
      <4>1. Elapsed(row, clock) <= 0
        BY <2>1, <2>5, <3>1, <3>3 DEF Elapsed, Dated
      <4>2. Status(row, clock).speed = 0
        BY <2>3, <4>1 DEF calculate_speed
      <4> QED
        BY <3>2, <4>2
    <3>4. CASE row.completed_at = None
      <4>1. row.processed_rows = copied /\ Elapsed(row, clock) = clock - row.started_at
        BY <2>5, <3>1, <3>4 DEF Elapsed, Dated
      <4> QED
        BY <2>3, <2>4, <4>1
    <3> QED
      BY <3>3, <3>4
  <2>6. Status(row, clock).speed >= 0 /\ Status(row, clock).estimated_time_remaining >= 0
    BY <2>4
  <2> QED
    BY <2>5, <2>6 DEF SpeedIsNotInherited
<1> QED
  BY InitTypes, InitDated, <1>1, <1>2, <1>3, PTL DEF Spec

-----------------------------------------------------------------------------
(* The table that create_table() makes.                                     *)

\* The key goes to one clause or the other.
LEMMA KeyDeclared ==
  ASSUME NEW kind, NEW schema
  PROVE  DeclaredKey(kind, schema) = schema.primary_keys
BY DEF DeclaredKey, KeyOfColumn, KeyOfTable

LEMMA CreatedFacts ==
  ASSUME NEW kind, NEW schema, NEW c \in DOMAIN schema.columns
  PROVE  LET col == schema.columns[c]
             new == Created(kind, schema).columns[c]
         IN  /\ new.udt = Native(kind, col)
             /\ new.is_nullable = (col.is_nullable /\ (kind # "sqlite" => c \notin schema.primary_keys))
             /\ new.max_length = Held(kind, col).length
             /\ new.precision = Held(kind, col).precision
             /\ new.scale = Held(kind, col).scale
BY KeyDeclared, Zenon DEF Created

\* What the catalog shows of a size that was declared.
LEMMA HeldDeclared ==
  ASSUME NEW kind, NEW col, Size(kind, col) # NoSize
  PROVE  /\ kind # "mysql" \/ col.data_type # "BIT" => Held(kind, col) = Size(kind, col)
         /\ kind = "mysql" /\ col.data_type = "BIT" =>
              /\ Held(kind, col).length = 0 /\ Held(kind, col).scale = 0
              /\ Held(kind, col).precision = Size(kind, col).length
BY DEF Held, NoSize

\* And what it shows of a bare type.
LEMMA HeldBare ==
  ASSUME NEW kind \in DatabaseTypes, NEW col, Size(kind, col) = NoSize,
         ~(kind = "postgres" /\ col.is_enum)
  PROVE  /\ Held(kind, col).scale = 0
         /\ Held(kind, col).length = IF col.data_type \in DOMAIN BareLength(kind)
                                     THEN BareLength(kind)[col.data_type] ELSE 0
         /\ Held(kind, col).precision = IF col.data_type \in DOMAIN BarePrecision(kind)
                                        THEN BarePrecision(kind)[col.data_type] ELSE 0
BY DEF Held, NoSize

\* A size is declared wherever there is a length, or a precision with a scale.
LEMMA SizeFacts ==
  ASSUME NEW kind, NEW col, kind # "sqlite", ~(kind = "postgres" /\ col.is_enum),
         col.max_length \in Nat, col.precision \in Nat, col.scale \in Nat,
         Size(kind, col) = NoSize
  PROVE  col.max_length = 0 /\ (col.precision = 0 \/ col.scale = 0)
<1>1. /\ col.max_length > 0 => Size(kind, col).length = col.max_length
      /\ col.max_length = 0 /\ col.precision > 0 /\ col.scale > 0 => Size(kind, col).precision = col.precision
  BY DEF Size, NoSize
<1>2. Size(kind, col).length = 0 /\ Size(kind, col).precision = 0
  BY DEF NoSize
<1> QED
  BY <1>1, <1>2

\* A column holds what another may, unless it lost a size and its bare type is
\* too small.
LEMMA HeldRoom ==
  ASSUME NEW kind \in DatabaseTypes, NEW col, NEW dcol,
         col.max_length \in Nat, col.precision \in Nat, col.scale \in Nat,
         dcol.max_length = Held(kind, col).length,
         dcol.precision = Held(kind, col).precision,
         dcol.scale = Held(kind, col).scale
  PROVE  HasRoom(col, dcol) <=> ~LosesRoom(kind, col)
<1> DEFINE enum == kind = "postgres" /\ col.is_enum
<1>1. CASE Size(kind, col) # NoSize
  <2>1. \/ /\ col.max_length > 0
           /\ Size(kind, col).length = col.max_length
           /\ Size(kind, col).precision = 0 /\ Size(kind, col).scale = 0
        \/ /\ col.max_length = 0 /\ col.precision > 0 /\ col.scale > 0
           /\ Size(kind, col).length = 0
           /\ Size(kind, col).precision = col.precision /\ Size(kind, col).scale = col.scale
    BY <1>1 DEF Size, NoSize
  <2>2. ~LosesRoom(kind, col)
    BY <2>1 DEF LosesRoom
  <2>3. CASE col.max_length > 0
    <3>1. /\ Size(kind, col).length = col.max_length
          /\ Size(kind, col).precision = 0 /\ Size(kind, col).scale = 0
      BY <2>1, <2>3
    <3>2. HasRoom(col, dcol)
      BY <1>1, <2>3, <3>1, HeldDeclared DEF HasRoom
    <3> QED
      BY <2>2, <3>2
  <2>4. CASE col.max_length = 0
    <3>1. /\ Size(kind, col).length = 0 /\ col.precision > 0
          /\ Size(kind, col).precision = col.precision /\ Size(kind, col).scale = col.scale
      BY <2>1, <2>4
    <3>2. HasRoom(col, dcol)
      BY <1>1, <2>4, <3>1, HeldDeclared DEF HasRoom
    <3> QED
      BY <2>2, <3>2
  <2> QED
    BY <2>3, <2>4
<1>2. CASE enum
  <2>1. Held(kind, col) = NoSize
    BY <1>2 DEF Held, Size
  <2>2. dcol.max_length = 0 /\ dcol.precision = 0
    BY <2>1 DEF NoSize
  <2>3. HasRoom(col, dcol)
    BY <2>2 DEF HasRoom
  <2> QED
    BY <1>2, <2>3, Zenon DEF LosesRoom
<1>3. CASE Size(kind, col) = NoSize /\ ~enum
  <2>1. CASE kind = "sqlite"
    <3>1. dcol.max_length = 0 /\ dcol.precision = 0
      BY <1>3, <2>1, HeldBare DEF BareLength, BarePrecision
    <3>2. HasRoom(col, dcol)
      BY <3>1 DEF HasRoom
    <3> QED
      BY <2>1, <3>2 DEF LosesRoom
  <2>2. CASE kind = "postgres"
    <3>1. col.max_length = 0 /\ (col.precision = 0 \/ col.scale = 0)
      BY <1>3, <2>2, SizeFacts
    <3>2. /\ dcol.max_length = IF col.data_type \in {"CHAR", "BIT"} THEN 1 ELSE 0
          /\ dcol.precision = 0 /\ dcol.scale = 0
      BY <1>3, <2>2, HeldBare DEF BareLength, BarePrecision
    <3>3. HasRoom(col, dcol) <=> \/ col.data_type \notin {"CHAR", "BIT"}
                                 \/ col.data_type = "BIT" /\ col.precision = 1
      BY <3>1, <3>2 DEF HasRoom
    <3> QED
      BY <1>3, <2>2, <3>1, <3>3, Zenon DEF LosesRoom
  <2>3. CASE kind = "mysql"
    <3> DEFINE Short == {"CHAR", "BINARY", "TINYTEXT", "TEXT", "MEDIUMTEXT", "TINYBLOB", "BLOB", "MEDIUMBLOB"}
    <3>1. col.max_length = 0 /\ (col.precision = 0 \/ col.scale = 0)
      BY <1>3, <2>3, SizeFacts
    <3>2. /\ col.data_type \in Short => dcol.max_length > 0 /\ dcol.max_length \in Nat
          /\ col.data_type \notin Short => dcol.max_length = 0
      BY <1>3, <2>3, HeldBare DEF BareLength
    <3>3. /\ dcol.precision = IF col.data_type \in Decimals THEN 10
                              ELSE IF col.data_type = "BIT" THEN 1 ELSE 0
          /\ dcol.scale = 0
      BY <1>3, <2>3, HeldBare DEF BarePrecision, Decimals
    <3>4. CASE col.data_type \in Short
      <4>1. ~HasRoom(col, dcol)
        BY <3>1, <3>2, <3>4 DEF HasRoom
      <4> QED
        BY <1>3, <2>3, <3>1, <3>4, <4>1 DEF LosesRoom
    <3>5. CASE col.data_type \in Decimals
      <4>1. HasRoom(col, dcol) <=> col.scale = 0 /\ col.precision \in 1..10
        BY <3>1, <3>2, <3>3, <3>5 DEF HasRoom, Decimals
      <4> QED
        BY <1>3, <2>3, <3>1, <3>5, <4>1 DEF LosesRoom, Decimals
    <3>6. CASE col.data_type = "BIT"
      <4>1. HasRoom(col, dcol) <=> col.precision = 1
        BY <3>1, <3>2, <3>3, <3>6 DEF HasRoom, Decimals
      <4> QED
        BY <1>3, <2>3, <3>1, <3>6, <4>1 DEF LosesRoom, Decimals
    <3>7. CASE col.data_type \notin Short \cup Decimals \cup {"BIT"}
      <4>1. HasRoom(col, dcol)
        BY <3>2, <3>3, <3>7 DEF HasRoom
      <4> QED
        BY <3>7, <4>1 DEF LosesRoom
    <3> QED
      BY <3>4, <3>5, <3>6, <3>7
  <2> QED
    BY <2>1, <2>2, <2>3 DEF DatabaseTypes
<1> QED
  BY <1>1, <1>2, <1>3

LEMMA DiscoveredSizes ==
  ASSUME NEW kind, NEW col, col.max_length \in Nat, col.precision \in Nat, col.scale \in Nat
  PROVE  LET d == Discovered(kind, col)
         IN  d.max_length \in Nat /\ d.precision \in Nat /\ d.scale \in Nat
BY DEF Discovered

\* Columns and key of a schema read from the source; its rows may grow.
ReadFrom(schema, kind, t) ==
  /\ schema.columns = [c \in DOMAIN t.columns |-> Discovered(kind, t.columns[c])]
  /\ schema.primary_keys = t.primary_keys

Sized(t) ==
  \A c \in DOMAIN t.columns :
    t.columns[c].max_length \in Nat /\ t.columns[c].precision \in Nat /\ t.columns[c].scale \in Nat

\* The destination's table of a migration's own is the one its plan describes.
Made ==
  /\ Sized(source)
  /\ plan.status = "pending" => ReadFrom(plan.source_schema, kinds[1], source)
  /\ own => \E schema : /\ ReadFrom(schema, kinds[1], source)
                        /\ destination = Created(kinds[2], schema)

\* None is no table.
NoneIsNoTable == \A kind, schema : Created(kind, schema) # Missing

LEMMA InitMade == Init => Made
<1> SUFFICES ASSUME Init PROVE Made
  OBVIOUS
<1>1. CatalogOK(source)
  BY AttemptsOK DEF Init
<1> QED
  BY <1>1 DEF Init, Made, Sized, CatalogOK, NoPlan

LEMMA NextMade ==
  ASSUME NoneIsNoTable, Types, Made, [Next]_vars
  PROVE  Made'
<1>0. source.rows \in 0..MaxRows
  BY DEF Types
<1>1. CASE CreateMigration \/ Begin
  <2>1. ReadFrom(plan'.source_schema, kinds[1], source)
    BY <1>0, <1>1, PlanFacts DEF CreateMigration, Begin, ReadFrom
  <2>2. source' = source /\ kinds' = kinds /\ own' = own /\ destination' = destination
    BY <1>1 DEF CreateMigration, Begin
  <2> QED
    BY <2>1, <2>2 DEF Made, Sized, ReadFrom
<1>2. CASE CreateTable
  <2>1. source' = source /\ kinds' = kinds /\ plan' = plan
    BY <1>2 DEF CreateTable
  <2>2. ReadFrom(plan.source_schema, kinds[1], source)
    BY <1>2 DEF CreateTable, Made, Types, TypeOK
  <2>3. CASE destination = Missing
    <3>1. destination' = Created(kinds[2], plan.source_schema)
      BY <1>2, <2>3 DEF CreateTable
    <3> QED
      BY <2>1, <2>2, <3>1 DEF Made, Sized, ReadFrom
  <2>4. CASE destination # Missing
    <3>1. destination' = destination /\ (own' => own)
      BY <1>2, <2>4, Zenon DEF CreateTable
    <3> QED
      BY <2>1, <3>1 DEF Made, Sized, ReadFrom
  <2> QED
    BY <2>3, <2>4
<1>3. CASE SourceGrows
  <2>1. /\ source'.columns = source.columns /\ source'.primary_keys = source.primary_keys
        /\ plan' = plan /\ kinds' = kinds /\ own' = own /\ destination' = destination
    BY <1>3 DEF SourceGrows
  <2> QED
    BY <2>1 DEF Made, Sized, ReadFrom
<1>4. CASE DestinationAppears
  <2>1. destination = Missing /\ own' = own /\ source' = source /\ plan' = plan /\ kinds' = kinds
    BY <1>4 DEF DestinationAppears
  <2>2. ~own
    BY <2>1 DEF Made, NoneIsNoTable
  <2> QED
    BY <2>1, <2>2 DEF Made, Sized, ReadFrom
<1>5. CASE \/ CreateRefused \/ CopyRow \/ NoMoreRows \/ Finalise \/ Fail
           \/ OnFailure \/ Crash \/ UNCHANGED vars
  <2>1. source' = source /\ kinds' = kinds /\ plan' = plan /\ own' = own /\ destination' = destination
    BY <1>5 DEF CreateRefused, CopyRow, NoMoreRows, Finalise, Fail, OnFailure, Crash, vars
  <2> QED
    BY <2>1 DEF Made, Sized, ReadFrom
<1> QED
  BY <1>1, <1>2, <1>3, <1>4, <1>5 DEF Next

\* A table made from another has its columns, its key and its sizes.
LEMMA MadeIsFaithful ==
  ASSUME Types, Made
  PROVE  CreatedTableIsFaithful
<1> SUFFICES ASSUME own PROVE CreatedTableIsFaithful
  BY DEF CreatedTableIsFaithful
<1>1. PICK schema : ReadFrom(schema, kinds[1], source) /\ destination = Created(kinds[2], schema)
  BY DEF Made
<1>2. DOMAIN destination.columns = DOMAIN source.columns
  BY <1>1 DEF ReadFrom, Created
<1>3. destination.primary_keys = source.primary_keys
  BY <1>1, KeyDeclared DEF ReadFrom, Created
<1>4. ASSUME NEW c \in DOMAIN source.columns
      PROVE  LET scol == Discovered(kinds[1], source.columns[c])
                 dcol == destination.columns[c]
             IN  /\ scol.is_nullable /\ c \notin source.primary_keys => dcol.is_nullable
                 /\ HasRoom(scol, dcol) <=> ~LosesRoom(kinds[2], scol)
  <2> DEFINE scol == Discovered(kinds[1], source.columns[c])
             dcol == destination.columns[c]
  <2>1. schema.columns[c] = scol /\ c \in DOMAIN schema.columns /\ schema.primary_keys = source.primary_keys
    BY <1>1, <1>4 DEF ReadFrom
  <2>2. scol.max_length \in Nat /\ scol.precision \in Nat /\ scol.scale \in Nat
    BY <1>4, DiscoveredSizes DEF Made, Sized
  <2> HIDE DEF scol
  <2>3. /\ dcol.is_nullable = (scol.is_nullable /\ (kinds[2] # "sqlite" => c \notin source.primary_keys))
        /\ dcol.max_length = Held(kinds[2], scol).length
        /\ dcol.precision = Held(kinds[2], scol).precision
        /\ dcol.scale = Held(kinds[2], scol).scale
    BY <1>1, <2>1, CreatedFacts
  <2> HIDE DEF dcol
  <2>4. scol.is_nullable /\ c \notin source.primary_keys => dcol.is_nullable
    BY <2>3, Zenon
  <2>5. HasRoom(scol, dcol) <=> ~LosesRoom(kinds[2], scol)
    BY <2>2, <2>3, HeldRoom DEF Types
  <2> QED
    BY <2>4, <2>5, Zenon DEF scol, dcol
<1> QED
  BY <1>2, <1>3, <1>4 DEF CreatedTableIsFaithful

\* The table of the first attempt that made one, whatever has failed since: the
\* source's key, and in every column room for what the source's catalog allows,
\* but in exactly those whose size create_table() leaves out.
THEOREM CreatedTablesAreFaithful ==
  ASSUME NoneIsNoTable
  PROVE  Spec => []CreatedTableIsFaithful
<1>1. Types /\ [Next]_vars => Types'
  BY NextTypes
<1>2. Types /\ Made /\ [Next]_vars => Made'
  BY NextMade
<1> QED
  BY InitTypes, InitMade, MadeIsFaithful, <1>1, <1>2, PTL DEF Spec

-----------------------------------------------------------------------------
(* The types on their way through two databases.                            *)

\* Every type that has a family.
Familiar == UNION TypeFamilies

\* DOUBLE PRECISION has no family.
LEMMA NotFamiliar == DoublePrecision \notin Familiar
<1>1. Familiar = {"INTEGER", "SMALLINT", "BIGINT", "FLOAT", "DOUBLE", "DECIMAL", "NUMERIC"}
         \cup {"CHAR", "VARCHAR", "TEXT", "NCHAR", "NVARCHAR", "NTEXT"}
         \cup {"DATE", "TIME", "DATETIME", "TIMESTAMP", "TIMETZ", "TIMESTAMPTZ"}
         \cup {"BOOLEAN", "BOOL", "BIT"} \cup {"BLOB", "BYTEA", "BINARY", "VARBINARY"}
         \cup {"JSON", "JSONB"}
  BY SMT DEF Familiar, TypeFamilies
<1> QED
  BY <1>1, Zenon DEF DoublePrecision

\* What the catalog shows for a type that was declared, and what the provider
\* calls that again.
Word(kind, dtype) == IF dtype \in DOMAIN NativeOf(kind) THEN NativeOf(kind)[dtype] ELSE dtype
Again(kind, udt) == IF udt \in DOMAIN TypesOf(kind) THEN TypesOf(kind)[udt] ELSE udt

\* Only DOUBLE PRECISION is not looked up in the words.
LEMMA InWords ==
  ASSUME NEW words, NEW udt, NEW T, T # DoublePrecision
  PROVE  (IF T \in DOMAIN WithDouble(words, udt) THEN WithDouble(words, udt)[T] ELSE T)
         = IF T \in DOMAIN words THEN words[T] ELSE T
BY DEF WithDouble

LEMMA PgRoundTrip ==
  ASSUME NEW T \in Familiar
  PROVE  \/ Again("postgres", Word("postgres", T)) = T
         \/ T = "FLOAT"   /\ Again("postgres", Word("postgres", T)) = DoublePrecision
         \/ T = "DECIMAL" /\ Again("postgres", Word("postgres", T)) = "NUMERIC"
<1>1. T # DoublePrecision
  BY NotFamiliar
<1>2. NativeOf("postgres") = WithDouble(PgWords, "float8") /\ TypesOf("postgres") = PgTypes
  BY DEF NativeOf, TypesOf
<1>3. Word("postgres", T) = IF T \in DOMAIN PgWords THEN PgWords[T] ELSE T
  BY <1>1, <1>2, InWords DEF Word
<1> QED
  BY <1>2, <1>3 DEF Again, Familiar, TypeFamilies, PgTypes, PgWords

LEMMA MySQLRoundTrip ==
  ASSUME NEW T \in Familiar
  PROVE  \/ Again("mysql", Word("mysql", T)) = T
         \/ T = "INTEGER" /\ Again("mysql", Word("mysql", T)) = "INT"
         \/ T = "NUMERIC" /\ Again("mysql", Word("mysql", T)) = "DECIMAL"
         \/ T = "BOOLEAN" /\ Again("mysql", Word("mysql", T)) = "TINYINT"
<1>1. T # DoublePrecision
  BY NotFamiliar
<1>2. NativeOf("mysql") = WithDouble(MySQLWords, "double") /\ TypesOf("mysql") = MySQLTypes
  BY DEF NativeOf, TypesOf
<1>3. Word("mysql", T) = IF T \in DOMAIN MySQLWords THEN MySQLWords[T] ELSE T
  BY <1>1, <1>2, InWords DEF Word
<1> QED
  BY <1>2, <1>3 DEF Again, Familiar, TypeFamilies, MySQLTypes, MySQLWords

LEMMA SQLiteRoundTrip ==
  ASSUME NEW T \in Familiar
  PROVE  \/ Again("sqlite", Word("sqlite", T)) = T
         \/ T = "NUMERIC" /\ Again("sqlite", Word("sqlite", T)) = "DECIMAL"
BY DEF Familiar, TypeFamilies, Again, Word, NativeOf, TypesOf, SQLiteWords, SQLiteTypes

\* A type without a family is none of those.
LEMMA Unfamiliar ==
  ASSUME NEW T, T \notin Familiar
  PROVE  Family(T) = {}
BY DEF Family, Familiar

LEMMA Families ==
  /\ Family("DECIMAL") = Family("NUMERIC")
  /\ Family("INT") = {} /\ Family("TINYINT") = {}
<1>1. Family("INT") = {} /\ Family("TINYINT") = {}
  BY DEF Family, TypeFamilies
<1>2. \A f \in TypeFamilies : "DECIMAL" \in f <=> "NUMERIC" \in f
  BY DEF TypeFamilies
<1> QED
  BY <1>1, <1>2 DEF Family

\* A type that a database declares and shows again is in its old family, or in
\* none, so it never clashes.
LEMMA NoClash ==
  ASSUME NEW kind \in DatabaseTypes, NEW T
  PROVE  Family(T) = {} \/ Family(Again(kind, Word(kind, T))) \in {{}, Family(T)}
<1>1. SUFFICES ASSUME T \in Familiar PROVE Family(Again(kind, Word(kind, T))) \in {{}, Family(T)}
  BY Unfamiliar
<1>2. CASE kind = "postgres"
  <2>1. Family(DoublePrecision) = {}
    BY NotFamiliar, Unfamiliar
  <2> QED
    BY <1>1, <1>2, <2>1, PgRoundTrip, Families
<1>3. CASE kind = "mysql"
  <2>1. CASE T = "BOOLEAN" /\ Again("mysql", Word("mysql", T)) = "TINYINT"
    BY <1>3, <2>1, Families
  <2>2. CASE T = "INTEGER" /\ Again("mysql", Word("mysql", T)) = "INT"
    BY <1>3, <2>2, Families
  <2>3. CASE T = "NUMERIC" /\ Again("mysql", Word("mysql", T)) = "DECIMAL"
    BY <1>3, <2>3, Families
  <2>4. CASE Again("mysql", Word("mysql", T)) = T
    BY <1>3, <2>4
  <2> QED
    BY <1>1, <2>1, <2>2, <2>3, <2>4, MySQLRoundTrip
<1>4. CASE kind = "sqlite"
  BY <1>1, <1>4, SQLiteRoundTrip, Families
<1> QED
  BY <1>2, <1>3, <1>4 DEF DatabaseTypes

-----------------------------------------------------------------------------
(* The plan for a table of one's own.                                       *)

\* The columns of a created table as the provider describes them next time.
LEMMA CreatedTypes ==
  ASSUME NEW kind \in DatabaseTypes, NEW schema, NEW c \in DOMAIN schema.columns
  PROVE  LET T   == schema.columns[c].data_type
             new == Discovered(kind, Created(kind, schema).columns[c]).data_type
         IN  Family(T) = {} \/ Family(new) \in {{}, Family(T)}
<1> DEFINE T == schema.columns[c].data_type
<1>1. Created(kind, schema).columns[c].udt = Native(kind, schema.columns[c])
  BY CreatedFacts
<1>2. \A col : Discovered(kind, col).data_type = Again(kind, col.udt)
  BY DEF Discovered, Again
<1>3. CASE Native(kind, schema.columns[c]) = Word(kind, T)
  BY <1>1, <1>2, <1>3, NoClash
<1>4. CASE kind = "mysql" /\ Native(kind, schema.columns[c]) = "mediumtext"
  <2>1. Again("mysql", "mediumtext") = "MEDIUMTEXT"
    BY DEF Again, TypesOf, MySQLTypes
  <2>2. Family("MEDIUMTEXT") = {}
    BY DEF Family, TypeFamilies
  <2> QED
    BY <1>1, <1>2, <1>4, <2>1, <2>2
<1> QED
  BY <1>3, <1>4, Zenon DEF Native, Word

\* Whatever a table's count, its columns are read as they are.
LEMMA AnswerColumns ==
  ASSUME NEW kind, NEW t, NEW schema \in Answers(kind, {t})
  PROVE  schema.columns = [c \in DOMAIN t.columns |-> Discovered(kind, t.columns[c])]
BY DEF Answers

\* A schema that comes back from the database that was told to make it.
LEMMA OwnTablePasses ==
  ASSUME NEW kind \in DatabaseTypes, NEW src, NEW schema, NEW dst,
         src.columns = schema.columns, DOMAIN src.columns # {},
         dst \in Answers(kind, {Created(kind, schema)})
  PROVE  /\ ~Incompatible(src, dst)
         /\ \A c \in DOMAIN src.columns : c \in DOMAIN dst.columns
<1>1. DOMAIN Created(kind, schema).columns = DOMAIN schema.columns
  BY DEF Created
<1>2. dst.columns = [c \in DOMAIN schema.columns |-> Discovered(kind, Created(kind, schema).columns[c])]
  BY <1>1, AnswerColumns
<1>3. DOMAIN dst.columns = DOMAIN src.columns
  BY <1>2
<1>4. ASSUME NEW c \in DOMAIN src.columns
      PROVE  ~Clash(src.columns[c], dst.columns[c])
  <2> DEFINE T == src.columns[c].data_type
  <2>1. dst.columns[c] = Discovered(kind, Created(kind, schema).columns[c])
    BY <1>2, <1>4
  <2>2. Family(T) = {} \/ Family(dst.columns[c].data_type) \in {{}, Family(T)}
    BY <1>4, <2>1, CreatedTypes
  <2> QED
    BY <2>1, <2>2, Zenon DEF Clash
<1> QED
  BY <1>3, <1>4 DEF Incompatible, Shared, Unmatched

\* A plan with work to do has columns to copy, all of them into a table that is
\* yet to be made, and is there as long as the table it made.
Kept ==
  /\ plan.status = "pending" => DOMAIN source.columns # {}
  /\ plan.status = "pending" /\ (destination = Missing \/ own) =>
       \A c \in DOMAIN plan.column_mappings : plan.column_mappings[c].include
  /\ own => plan.status = "pending"

LEMMA PlanKept ==
  ASSUME NoneIsNoTable, Types, Made, Kept, BuildPlan
  PROVE  /\ plan'.status = "pending" => DOMAIN source.columns # {}
         /\ plan'.status = "pending" /\ (destination = Missing \/ own) =>
              \A c \in DOMAIN plan'.column_mappings : plan'.column_mappings[c].include
         /\ own => plan'.status = "pending"
<1>0. source.rows \in 0..MaxRows /\ kinds[2] \in DatabaseTypes
  BY DEF Types
<1>1. PICK src \in Answers(kinds[1], {source}),
           dst \in IF destination = Missing THEN {Missing} ELSE Answers(kinds[2], {destination}) :
        plan' = IF Incompatible(src, dst)
                THEN [source_schema |-> src, column_mappings |-> <<>>, status |-> "skipped"]
                ELSE [source_schema |-> src, column_mappings |-> ColumnMappings(src, dst),
                      status |-> "pending"]
  BY DEF BuildPlan
<1>2. src.columns = [c \in DOMAIN source.columns |-> Discovered(kinds[1], source.columns[c])]
  BY AnswerColumns
<1>3. DOMAIN source.columns = {} => Incompatible(src, dst)
  BY <1>2 DEF Incompatible
<1>4. ASSUME \A c \in DOMAIN src.columns : dst # Missing => c \in DOMAIN dst.columns
      PROVE  \A c \in DOMAIN ColumnMappings(src, dst) : ColumnMappings(src, dst)[c].include
  BY <1>4 DEF ColumnMappings
<1>5. CASE destination = Missing
  <2>1. dst = Missing
    BY <1>5
  <2>2. ~own
    BY <1>5 DEF Made, NoneIsNoTable
  <2> QED
    BY <1>1, <1>3, <1>4, <2>1, <2>2
<1>6. CASE own
  <2>1. PICK schema : ReadFrom(schema, kinds[1], source) /\ destination = Created(kinds[2], schema)
    BY <1>6 DEF Made
  <2>2. dst \in Answers(kinds[2], {Created(kinds[2], schema)})
    BY <2>1 DEF NoneIsNoTable
  <2>3. src.columns = schema.columns
    BY <1>2, <2>1 DEF ReadFrom
  <2>4. DOMAIN src.columns # {}
    BY <1>2, <1>6 DEF Kept
  <2>5. ~Incompatible(src, dst) /\ \A c \in DOMAIN src.columns : c \in DOMAIN dst.columns
    BY <1>0, <2>2, <2>3, <2>4, OwnTablePasses
  <2> QED
    BY <1>1, <1>3, <1>4, <2>5
<1>7. CASE destination # Missing /\ ~own
  BY <1>1, <1>3, <1>7
<1> QED
  BY <1>5, <1>6, <1>7

LEMMA NextKept ==
  ASSUME NoneIsNoTable, Types, Made, Kept, [Next]_vars
  PROVE  Kept'
<1>1. CASE CreateMigration \/ Begin
  <2>1. BuildPlan /\ source' = source /\ destination' = destination /\ own' = own
    BY <1>1 DEF CreateMigration, Begin
  <2> QED
    BY <2>1, PlanKept DEF Kept
<1>2. CASE CreateTable
  <2>1. /\ plan' = plan /\ source' = source /\ plan.status = "pending"
        /\ own' = (own \/ destination = Missing)
        /\ destination # Missing => destination' = destination
    BY <1>2 DEF CreateTable, Types, TypeOK
  <2>2. destination' = Missing => destination = Missing
    BY <2>1
  <2>3. own' => own \/ destination = Missing
    BY <2>1, Zenon
  <2> QED
    BY <2>1, <2>2, <2>3 DEF Kept
<1>3. CASE SourceGrows
  <2>1. source'.columns = source.columns /\ plan' = plan /\ own' = own /\ destination' = destination
    BY <1>3 DEF SourceGrows
  <2> QED
    BY <2>1 DEF Kept
<1>4. CASE DestinationAppears
  <2>1. source' = source /\ plan' = plan /\ own' = own /\ destination = Missing
    BY <1>4 DEF DestinationAppears
  <2> QED
    BY <2>1 DEF Kept
<1>5. CASE \/ CreateRefused \/ CopyRow \/ NoMoreRows \/ Finalise \/ Fail
           \/ OnFailure \/ Crash \/ UNCHANGED vars
  <2>1. source' = source /\ plan' = plan /\ own' = own /\ destination' = destination
    BY <1>5 DEF CreateRefused, CopyRow, NoMoreRows, Finalise, Fail, OnFailure, Crash, vars
  <2> QED
    BY <2>1 DEF Kept
<1> QED
  BY <1>1, <1>2, <1>3, <1>4, <1>5 DEF Next

\* However often a migration is started again, and whichever two databases it
\* is between: the table that its own first attempt made passes the validator,
\* with every column of the source.
THEOREM OwnTablesStayPlanned ==
  ASSUME NoneIsNoTable
  PROVE  Spec => []OwnTableStaysPlanned
<1>1. Init => Kept
  BY DEF Init, Kept, NoPlan
<1>2. Types /\ [Next]_vars => Types'
  BY NextTypes
<1>3. Types /\ Made /\ [Next]_vars => Made'
  BY NextMade
<1>4. Types /\ Made /\ Kept /\ [Next]_vars => Kept'
  BY NextKept
<1>5. Kept => OwnTableStaysPlanned
  BY DEF Kept, OwnTableStaysPlanned
<1> QED
  BY InitTypes, InitMade, <1>1, <1>2, <1>3, <1>4, <1>5, PTL DEF Spec

-----------------------------------------------------------------------------
(* The refused CREATE TABLE.                                                *)

\* A column read from PostgreSQL goes back there, but for a type it may lack.
LEMMA PgTakesItsOwn ==
  ASSUME NEW col, Shown("postgres", col), NEW known, col.udt \notin ForeignTypes,
         col.max_length \in Nat, col.precision \in Nat, col.scale \in Nat
  PROVE  ~RefusedColumn("postgres", Discovered("postgres", col), known)
<1> DEFINE d == Discovered("postgres", col)
           T == d.data_type
<1> SUFFICES ~RefusedColumn("postgres", d, known)
  OBVIOUS
<1>1. T = Again("postgres", col.udt)
  BY Zenon DEF Discovered, Again
<1>2. d.max_length = col.max_length /\ d.precision = col.precision /\ d.scale = col.scale
  BY DEF Discovered
<1>3. d.is_enum <=> col.is_enum
  BY Zenon DEF Discovered
<1> HIDE DEF d
<1>4. CASE col.is_enum
  <2>1. Size("postgres", d) = NoSize
    BY <1>3, <1>4, Zenon DEF Size
  <2>2. ~(Size("postgres", d).length > 0) /\ ~(Size("postgres", d).precision > 0)
    BY <2>1 DEF NoSize
  <2> QED
    BY <1>3, <1>4, <2>2, Zenon DEF RefusedColumn
<1>5. CASE ~col.is_enum
  <2>1. /\ col.udt \in DOMAIN PgTypes \cup {"INET", "BIT"}
        /\ col.max_length > 0 => col.udt \in {"varchar", "bpchar", "BIT"}
        /\ col.precision > 0 /\ col.scale > 0 => col.udt = "numeric"
    BY <1>5 DEF Shown, TypesOf, OtherTypes, Lengthy, Scaled
  <2>2. T = DoublePrecision \/ T \in DOMAIN PgWords
    BY <1>1, <2>1 DEF Again, TypesOf, PgTypes, PgWords
  <2>3. T \in DOMAIN NativeOf("postgres")
    BY <2>2 DEF NativeOf, WithDouble
  <2>4. Size("postgres", d).length > 0 => T \in TakesLength("postgres")
    <3>1. Size("postgres", d).length > 0 => col.max_length > 0
      BY <1>2 DEF Size, NoSize
    <3> QED
      BY <1>1, <2>1, <3>1 DEF Again, TypesOf, PgTypes, TakesLength
  <2>5. Size("postgres", d).precision > 0 => T \in TakesPrecision("postgres")
    <3>1. Size("postgres", d).precision > 0 => col.precision > 0 /\ col.scale > 0
      BY <1>2 DEF Size, NoSize
    <3> QED
      BY <1>1, <2>1, <3>1 DEF Again, TypesOf, PgTypes, TakesPrecision
  <2> QED
    BY <2>3, <2>4, <2>5, Zenon DEF RefusedColumn
<1> QED
  BY <1>4, <1>5

\* Nor is its key of a type that cannot be one.
LEMMA PgKeepsItsKey ==
  ASSUME NEW col, Shown("postgres", col), ~col.is_enum, col.udt # "json"
  PROVE  Discovered("postgres", col).data_type \notin Unkeyable("postgres")
<1>1. Discovered("postgres", col).data_type = Again("postgres", col.udt)
  BY Zenon DEF Discovered, Again
<1>2. col.udt \in DOMAIN PgTypes \cup {"INET", "BIT"} \cup ForeignTypes
  BY DEF Shown, TypesOf, OtherTypes
<1>3. DoublePrecision # "JSON"
  BY Zenon DEF DoublePrecision
<1> QED
  BY <1>1, <1>2, <1>3 DEF Again, TypesOf, PgTypes, Unkeyable, ForeignTypes

\* A column read from MySQL goes back there, but for a length that its type does
\* not take, or lacks.
LEMMA MySQLTakesItsOwn ==
  ASSUME NEW col, Shown("mysql", col), NEW known, col.udt \notin LongTypes,
         col.udt \in {"varchar", "enum", "set", "VARBINARY"} => col.max_length # 0,
         col.max_length \in Nat, col.precision \in Nat, col.scale \in Nat
  PROVE  ~RefusedColumn("mysql", Discovered("mysql", col), known)
<1> DEFINE d == Discovered("mysql", col)
           T == d.data_type
<1> SUFFICES ~RefusedColumn("mysql", d, known)
  OBVIOUS
<1>1. T = Again("mysql", col.udt)
  BY Zenon DEF Discovered, Again
<1>2. d.max_length = col.max_length /\ d.precision = col.precision /\ d.scale = col.scale
  BY DEF Discovered
<1>3. ~d.is_enum
  BY Zenon DEF Discovered
<1> HIDE DEF d
<1>4. /\ col.udt \in DOMAIN MySQLTypes \cup {"GEOMETRY", "BINARY", "VARBINARY"}
      /\ col.max_length > 0 => col.udt \in {"char", "varchar", "enum", "set", "tinytext", "text",
                 "mediumtext", "longtext", "tinyblob", "blob", "mediumblob", "longblob", "BINARY",
                 "VARBINARY"}
      /\ col.precision > 0 /\ col.scale > 0 => col.udt \in {"decimal", "numeric", "float", "double"}
      /\ col.udt \in {"char", "BINARY"} => col.max_length <= 255
      /\ col.udt \in {"decimal", "numeric"} => col.precision <= 65
      /\ col.precision > 0 /\ col.scale > 0 => col.scale <= 30 /\ col.scale <= col.precision
  BY DEF Shown, TypesOf, OtherTypes, Lengthy, Scaled
<1>5. /\ Size("mysql", d).length = col.max_length
      /\ \/ Size("mysql", d).precision = 0 /\ Size("mysql", d).scale = 0
         \/ /\ col.precision > 0 /\ col.scale > 0
            /\ Size("mysql", d).precision = col.precision /\ Size("mysql", d).scale = col.scale
  BY <1>2, <1>3 DEF Size, NoSize
<1>6. T \in DOMAIN MySQLWords
  BY <1>1, <1>4 DEF Again, TypesOf, MySQLTypes, MySQLWords
<1>7. T \in DOMAIN NativeOf("mysql")
  BY <1>6 DEF NativeOf, WithDouble
<1>8. Size("mysql", d).length > 0 => T \in TakesLength("mysql")
  BY <1>1, <1>4, <1>5 DEF Again, TypesOf, MySQLTypes, TakesLength, LongTypes
<1>9. Size("mysql", d).precision > 0 => T \in TakesPrecision("mysql")
  BY <1>1, <1>4, <1>5 DEF Again, TypesOf, MySQLTypes, TakesPrecision
<1>10. /\ T \in {"VARCHAR", "VARBINARY"} => col.udt \in {"varchar", "enum", "set", "VARBINARY"}
       /\ T \in {"CHAR", "BINARY"} => col.udt \in {"char", "BINARY"}
       /\ T = "BIT" => col.udt = "bit"
       /\ T \in {"NUMERIC", "DECIMAL"} => col.udt \in {"decimal", "numeric"}
  BY <1>1, <1>4 DEF Again, TypesOf, MySQLTypes
<1>11. ~TooBig(T, Size("mysql", d))
  BY <1>4, <1>5, <1>10 DEF TooBig
<1>12. Size("mysql", d).length = 0 => T \notin {"VARCHAR", "VARBINARY"}
  BY <1>5, <1>10
<1> QED
  BY <1>3, <1>7, <1>8, <1>9, <1>11, <1>12, Zenon DEF RefusedColumn

LEMMA MySQLKeepsItsKey ==
  ASSUME NEW col, Shown("mysql", col),
         col.udt \notin LongTypes \cup {"text", "blob", "json", "GEOMETRY"}
  PROVE  Discovered("mysql", col).data_type \notin Unkeyable("mysql")
<1>1. Discovered("mysql", col).data_type = Again("mysql", col.udt)
  BY Zenon DEF Discovered, Again
<1>2. col.udt \in DOMAIN MySQLTypes \cup {"GEOMETRY", "BINARY", "VARBINARY"}
  BY DEF Shown, TypesOf, OtherTypes
<1> QED
  BY <1>1, <1>2 DEF Again, TypesOf, MySQLTypes, Unkeyable, LongTypes

\* The source is one that its database has shown, and a refusal is of the plan
\* that is still there.
Known ==
  /\ \A c \in DOMAIN source.columns : Shown(kinds[1], source.columns[c])
  /\ source.primary_keys \subseteq DOMAIN source.columns
  /\ kinds[1] = "postgres" =>
       \A k \in source.primary_keys : source.columns[k].udt # "json" \/ source.columns[k].is_enum
  /\ phase = "refused" =>
       /\ plan.status = "pending"
       /\ \E dst, known : Refuses(kinds[2], plan.source_schema, dst, known)

LEMMA NextKnown ==
  ASSUME Types, Known, [Next]_vars
  PROVE  Known'
<1>1. CASE CreateRefused
  <2>1. PICK known : Refuses(kinds[2], plan.source_schema, destination, known)
    BY <1>1 DEF CreateRefused
  <2>2. plan.status = "pending" /\ source' = source /\ kinds' = kinds /\ plan' = plan
    BY <1>1 DEF CreateRefused, Types, TypeOK
  <2> QED
    BY <2>1, <2>2 DEF Known
<1>2. CASE SourceGrows
  <2>1. /\ source'.columns = source.columns /\ source'.primary_keys = source.primary_keys
        /\ kinds' = kinds /\ phase' = phase /\ plan' = plan
    BY <1>2 DEF SourceGrows
  <2> QED
    BY <2>1 DEF Known
<1>3. CASE DestinationAppears \/ UNCHANGED vars
  <2>1. source' = source /\ kinds' = kinds /\ phase' = phase /\ plan' = plan
    BY <1>3 DEF DestinationAppears, vars
  <2> QED
    BY <2>1 DEF Known
<1>4. CASE OnFailure
  <2>1. /\ source' = source /\ kinds' = kinds /\ plan' = plan
        /\ phase' = "refused" => phase = "refused"
    BY <1>4 DEF OnFailure
  <2> QED
    BY <2>1 DEF Known
<1>5. CASE \/ CreateMigration \/ Begin \/ CreateTable \/ CopyRow \/ NoMoreRows
           \/ Finalise \/ Fail \/ Crash
  <2>1. source' = source /\ kinds' = kinds /\ phase' # "refused"
    BY <1>5 DEF CreateMigration, Begin, CreateTable, CopyRow, NoMoreRows, Finalise, Fail, Crash
  <2> QED
    BY <2>1 DEF Known
<1> QED
  BY <1>1, <1>2, <1>3, <1>4, <1>5 DEF Next

\* The three ways to refuse a table, told of the source's own catalog.
LEMMA RefusedFor ==
  ASSUME Made, Known, phase = "refused"
  PROVE  \/ \E c \in DOMAIN source.columns : \E known :
              RefusedColumn(kinds[2], Discovered(kinds[1], source.columns[c]), known)
         \/ \E k \in source.primary_keys :
              /\ Discovered(kinds[1], source.columns[k]).data_type \in Unkeyable(kinds[2])
              /\ ~(kinds[2] = "postgres" /\ Discovered(kinds[1], source.columns[k]).is_enum)
         \/ TooWide(kinds[2], plan.source_schema)
<1>1. PICK dst, known : Refuses(kinds[2], plan.source_schema, dst, known)
  BY DEF Known
<1>2. /\ plan.source_schema.columns
           = [x \in DOMAIN source.columns |-> Discovered(kinds[1], source.columns[x])]
      /\ plan.source_schema.primary_keys = source.primary_keys
      /\ source.primary_keys \subseteq DOMAIN source.columns
  BY DEF Known, Made, ReadFrom
<1>3. \A c \in DOMAIN source.columns :
        plan.source_schema.columns[c] = Discovered(kinds[1], source.columns[c])
  BY <1>2
<1>4. DOMAIN plan.source_schema.columns = DOMAIN source.columns
  BY <1>2
<1>5. \A k \in source.primary_keys : k \in DOMAIN source.columns
  BY <1>2
<1>6. CASE \E c \in DOMAIN plan.source_schema.columns :
             RefusedColumn(kinds[2], plan.source_schema.columns[c], known)
  BY <1>3, <1>4, <1>6
<1>7. CASE \E k \in plan.source_schema.primary_keys :
             /\ plan.source_schema.columns[k].data_type \in Unkeyable(kinds[2])
             /\ ~(kinds[2] = "postgres" /\ plan.source_schema.columns[k].is_enum)
  BY <1>2, <1>3, <1>5, <1>7
<1> QED
  BY <1>1, <1>6, <1>7, Zenon DEF Refuses

\* The tables that a database does not take of another of its own kind.
THEOREM OwnKindsAreCreated ==
  ASSUME NoneIsNoTable
  PROVE  Spec => []OwnKindIsCreated
<1>1. Init => Known
  <2> SUFFICES ASSUME Init PROVE Known
    OBVIOUS
  <2>1. kinds[1] \in DatabaseTypes /\ source \in SourceTables[kinds[1]] /\ phase # "refused"
    BY InitTypes DEF Init, Types
  <2>2. CatalogOK(source)
    BY <2>1, AttemptsOK
  <2> QED
    BY <2>1, <2>2, CatalogsShow DEF Known, CatalogOK
<1>2. Types /\ [Next]_vars => Types'
  BY NextTypes
<1>3. Types /\ Known /\ [Next]_vars => Known'
  BY NextKnown
<1>4. Types /\ Made /\ [Next]_vars => Made'
  BY NextMade
<1>5. Types /\ Made /\ Known => OwnKindIsCreated
  <2> SUFFICES ASSUME Types, Made, Known, phase = "refused" PROVE OwnKindIsCreated
    BY DEF OwnKindIsCreated
  <2>1. \A c \in DOMAIN source.columns :
          /\ Shown(kinds[1], source.columns[c])
          /\ source.columns[c].max_length \in Nat
          /\ source.columns[c].precision \in Nat /\ source.columns[c].scale \in Nat
    BY DEF Known, Made, Sized
  <2>2. \A k \in source.primary_keys : k \in DOMAIN source.columns
    BY DEF Known
  <2>3. kinds[2] # "sqlite"
    <3>1. ASSUME NEW col, NEW known PROVE ~RefusedColumn("sqlite", col, known)
      BY Zenon DEF RefusedColumn
    <3>2. Unkeyable("sqlite") = {} /\ ~TooWide("sqlite", plan.source_schema)
      BY DEF Unkeyable, TooWide
    <3> QED
      BY <3>1, <3>2, RefusedFor
  <2>4. ASSUME kinds = <<"postgres", "postgres">>
        PROVE  \E c \in DOMAIN source.columns : source.columns[c].udt \in ForeignTypes
    <3>1. kinds[1] = "postgres" /\ kinds[2] = "postgres"
      BY <2>4
    <3>2. ~TooWide("postgres", plan.source_schema)
      BY DEF TooWide
    <3>3. ASSUME NEW k \in source.primary_keys, ~Discovered("postgres", source.columns[k]).is_enum
          PROVE  Discovered("postgres", source.columns[k]).data_type \notin Unkeyable("postgres")
      <4>1. ~source.columns[k].is_enum
        BY <3>3 DEF Discovered
      <4>2. source.columns[k].udt # "json"
        BY <3>1, <4>1 DEF Known
      <4> QED
        BY <2>1, <2>2, <3>1, <4>1, <4>2, PgKeepsItsKey
    <3>4. PICK c \in DOMAIN source.columns : \E known :
            RefusedColumn("postgres", Discovered("postgres", source.columns[c]), known)
      BY <3>1, <3>2, <3>3, RefusedFor
    <3> QED
      BY <2>1, <3>1, <3>4, PgTakesItsOwn
  <2>5. ASSUME kinds = <<"mysql", "mysql">>
        PROVE  \/ \E c \in DOMAIN source.columns : source.columns[c].udt \in LongTypes
               \/ \E c \in DOMAIN source.columns :
                    /\ source.columns[c].udt \in {"varchar", "enum", "set", "VARBINARY"}
                    /\ source.columns[c].max_length = 0
               \/ \E k \in source.primary_keys :
                    source.columns[k].udt \in {"text", "blob", "json", "GEOMETRY"}
               \/ TooWide("mysql", plan.source_schema)
    <3>1. kinds[1] = "mysql" /\ kinds[2] = "mysql"
      BY <2>5
    <3>2. CASE \E c \in DOMAIN source.columns : \E known :
                 RefusedColumn("mysql", Discovered("mysql", source.columns[c]), known)
      BY <2>1, <3>1, <3>2, MySQLTakesItsOwn
    <3>3. CASE \E k \in source.primary_keys :
                 Discovered("mysql", source.columns[k]).data_type \in Unkeyable("mysql")
      BY <2>1, <2>2, <3>1, <3>3, MySQLKeepsItsKey
    <3> QED
      BY <3>1, <3>2, <3>3, RefusedFor
  <2> QED
    BY <2>3, <2>4, <2>5 DEF OwnKindIsCreated
<1> QED
  BY InitTypes, InitMade, <1>1, <1>2, <1>3, <1>4, <1>5, PTL DEF Spec

=============================================================================
