------------------------ MODULE MCMigrationExecutor -------------------------
(* Small instances of MigrationExecutor for TLC: a table with a key that     *)
(* needs two batches, one without a key, and one the plan skips.             *)
EXTENDS MigrationExecutor

CONSTANTS a, b, c

ThreeTables == {a, b, c}
SkipThenCopy == <<c, a, b>>
Rows == [t \in ThreeTables |-> IF t = a THEN 3 ELSE 2]
NoReferences == [t \in ThreeTables |-> {}]

\* Rows of a refer to rows of b.
AReferencesB == [t \in ThreeTables |-> IF t = b THEN {a} ELSE {}]

\* The values that tests/test_helpers.py:9-32 expects of the progress helpers,
\* which on_progress() calls after every batch.
ASSUME HelpersPassTheirTests ==
  /\ calculate_progress(50, 100) = 50
  /\ calculate_progress(0, 100) = 0
  /\ calculate_progress(100, 100) = 100
  /\ calculate_progress(110, 100) = 100
  /\ calculate_progress(10, 0) = 0
  /\ calculate_speed(1000, 2) = 500
  /\ calculate_speed(0, 5) = 0
  /\ calculate_speed(1000, 0) = 0
  /\ estimate_time_remaining(500, 1000, 1) = 1
  /\ estimate_time_remaining(0, 1000, 1) = 0

\* Python's round() takes a half to the even neighbour; 99.5 % shows as 100.
ASSUME HalvesGoToEven ==
  /\ calculate_progress(1, 200) = 0 /\ calculate_progress(3, 200) = 2
  /\ calculate_progress(199, 200) = 100

=============================================================================
