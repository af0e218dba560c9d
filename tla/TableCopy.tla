----------------------------- MODULE TableCopy ------------------------------
(***************************************************************************)
(* What a migration promises about the destination, without batches,       *)
(* offsets or retries: the tables of the plan are settled one by one, only *)
(* the table whose turn it is changes, and a table is called "completed"   *)
(* only when each of its source rows is there.                             *)
(***************************************************************************)
EXTENDS Naturals, Sequences

CONSTANTS
  Tables,       \* names of tables
  Plan,         \* the tables of the plan, in order
  Skipped,      \* those the plan marks "skipped"
  NumRows       \* [Tables -> Nat]: rows of the source table

VARIABLES
  present,      \* [Tables -> set of source rows the destination holds]
  outcome,      \* how the tables settled so far ended
  phase,        \* "running", "returned" or "raised"
  copyData,     \* does this migration copy rows at all?
  goesOn        \* does it go on after a failed table?

vars == <<present, outcome, phase, copyData, goesOn>>

Outcomes == {"completed", "skipped", "failed"}
RowsOf(t) == 1..NumRows[t]
Current == Plan[Len(outcome) + 1]

Init ==
  /\ present \in [Tables -> SUBSET (UNION {RowsOf(t) : t \in Tables})]
  /\ outcome = <<>>
  /\ phase = "running"
  /\ copyData \in BOOLEAN /\ goesOn \in BOOLEAN

Unsettled == phase = "running" /\ Len(outcome) < Len(Plan)

\* Rows of the current table arrive, or are truncated away.
Change ==
  /\ Unsettled /\ Current \notin Skipped
  /\ \E rows \in SUBSET RowsOf(Current) :
       present' = [present EXCEPT ![Current] = rows]
  /\ UNCHANGED <<outcome, phase, copyData, goesOn>>

Settle(o) ==
  /\ Unsettled
  /\ o = "skipped" <=> Current \in Skipped
  /\ (o = "completed" /\ copyData) => RowsOf(Current) \subseteq present[Current]
  /\ outcome' = Append(outcome, o)
  /\ phase' = IF o = "failed" /\ ~goesOn THEN "returned" ELSE phase
  /\ UNCHANGED <<present, copyData, goesOn>>

Return ==
  /\ phase = "running" /\ Len(outcome) = Len(Plan)
  /\ phase' = "returned"
  /\ UNCHANGED <<present, outcome, copyData, goesOn>>

Raise ==
  /\ phase = "running"
  /\ phase' = "raised"
  /\ UNCHANGED <<present, outcome, copyData, goesOn>>

\* The migration is run again from its first table, by someone who finds each row
\* of the completed tables; of the others, some rows may be gone or back.
Rerun ==
  /\ present' \in [Tables -> SUBSET (UNION {RowsOf(t) : t \in Tables})]
  /\ \A k \in DOMAIN outcome :
       copyData /\ outcome[k] = "completed" => RowsOf(Plan[k]) \subseteq present'[Plan[k]]
  /\ outcome' = <<>>
  /\ phase' = "running"
  /\ UNCHANGED <<copyData, goesOn>>

Next == Change \/ (\E o \in Outcomes : Settle(o)) \/ Return \/ Raise \/ Rerun

Spec == Init /\ [][Next]_vars

=============================================================================
