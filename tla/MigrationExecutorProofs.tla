---------------------- MODULE MigrationExecutorProofs -----------------------
(***************************************************************************)
(* What holds of MigrationExecutor for every plan, batch size, retry limit *)
(* and number of failures.                                                 *)
(***************************************************************************)
EXTENDS MigrationExecutor, FiniteSetTheorems, TLAPS

-----------------------------------------------------------------------------
(* Helpers.                                                                *)

InTable == {"create", "truncate", "fetch", "insert", "give_up", "report"}

LEMMA FaultType ==
  ASSUME TypeOK, NEW kind, Fault(kind)
  PROVE  faults' \in 0..MaxFaults /\ faults' = faults + 1
BY FaultsOK DEF TypeOK, Fault

LEMMA SettleType ==
  ASSUME TypeOK, NEW o \in Outcomes, Settle(o), Len(outcome) < Len(Plan)
  PROVE  /\ outcome' \in Seq(Outcomes) /\ Len(outcome') = Len(outcome) + 1
         /\ \A k \in 1..Len(outcome) : outcome'[k] = outcome[k]
         /\ outcome'[Len(outcome) + 1] = o
         /\ Len(outcome') <= Len(Plan)
         /\ pc' \in {"next", "returned"}
BY PlanOK DEF TypeOK, Settle

\* The table at hand is one of the plan's.
LEMMA CurrentType ==
  ASSUME TypeOK, Len(outcome) < Len(Plan)
  PROVE  Current \in Tables /\ NumRows[Current] \in Nat
BY PlanOK DEF TypeOK, Current

LEMMA RowsFinite ==
  ASSUME NEW t \in Tables, NEW rows \in SUBSET RowsOf(t)
  PROVE  IsFiniteSet(rows) /\ Cardinality(rows) \in Nat
<1>1. IsFiniteSet(RowsOf(t))
  BY PlanOK, FS_Interval DEF RowsOf
<1>2. IsFiniteSet(rows)
  BY <1>1, FS_Subset
<1> QED
  BY <1>2, FS_CardinalityType

LEMMA WrittenFacts ==
  ASSUME TypeOK
  PROVE  /\ exists \subseteq Tables
         /\ DOMAIN taken = Tables /\ DOMAIN copies = Tables
         /\ \A t \in Tables : taken[t] \subseteq RowsOf(t) /\ copies[t] \in [RowsOf(t) -> Nat]
BY DEF TypeOK, DestinationOK, IsWritten, Written

LEMMA DestinationKept ==
  ASSUME TypeOK, UNCHANGED <<autocommit, destination>>
  PROVE  DestinationOK'
BY DEF TypeOK, DestinationOK, IsWritten, Written, RowsOf, destination

\* A write that is committed, or left to SQLite's open transaction.
LEMMA DestinationWritten ==
  ASSUME TypeOK, UNCHANGED autocommit, Commit \/ (~autocommit /\ UNCHANGED durable),
         exists' \subseteq Tables, DOMAIN taken' = Tables, DOMAIN copies' = Tables,
         \A t \in Tables : taken'[t] \subseteq RowsOf(t) /\ copies'[t] \in [RowsOf(t) -> Nat]
  PROVE  DestinationOK'
<1>1. IsWritten(Written)'
  BY DEF IsWritten, Written, RowsOf
<1>2. CASE Commit
  BY <1>1, <1>2 DEF DestinationOK, Commit
<1>3. CASE ~autocommit /\ UNCHANGED durable
  BY <1>1, <1>3 DEF DestinationOK, IsWritten, RowsOf, TypeOK
<1> QED
  BY <1>2, <1>3

LEMMA CreatesWritten ==
  ASSUME TypeOK, Len(outcome) < Len(Plan), Creates, UNCHANGED autocommit,
         Commit \/ (~autocommit /\ UNCHANGED durable)
  PROVE  DestinationOK'
BY CurrentType, WrittenFacts, DestinationWritten DEF Creates

LEMMA EmptiedWritten ==
  ASSUME TypeOK, Emptied, UNCHANGED autocommit, Commit \/ (~autocommit /\ UNCHANGED durable)
  PROVE  DestinationOK'
<1>1. /\ exists' \subseteq Tables /\ DOMAIN taken' = Tables /\ DOMAIN copies' = Tables
      /\ \A t \in Tables : taken'[t] \subseteq RowsOf(t) /\ copies'[t] \in [RowsOf(t) -> Nat]
  BY WrittenFacts DEF Emptied
<1> QED
  BY <1>1, DestinationWritten

LEMMA InsertsWritten ==
  ASSUME TypeOK, NEW rows, Inserts(rows), Current \in Tables, UNCHANGED autocommit,
         Commit \/ (~autocommit /\ UNCHANGED durable)
  PROVE  DestinationOK'
<1>1. DOMAIN copies' = Tables /\ \A t \in Tables : copies'[t] \in [RowsOf(t) -> Nat]
  BY WrittenFacts DEF Inserts, Inserted
<1> QED
  BY <1>1, WrittenFacts, DestinationWritten DEF Inserts

LEMMA BatchesType ==
  ASSUME NEW t \in Tables, NEW from \in Nat, NEW rows \in Batches(t, from)
  PROVE  rows \subseteq RowsOf(t)
BY PlanOK, SettingsOK, FaultsOK DEF Batches, RowsOf

-----------------------------------------------------------------------------
(* Type correctness.                                                       *)

\* Every variable keeps its shape in every step, no table is worked on after the
\* last of the plan, and only SQLite has anything uncommitted.
THEOREM ExecutorTypeCorrect == Spec => []TypeOK
<1>1. Init => TypeOK
  <2> SUFFICES ASSUME Init
               PROVE  TypeOK
    OBVIOUS
  <2>1. IsWritten(Written)
    BY PlanOK DEF Init, IsWritten, Written, RowsOf
  <2> QED
    BY <2>1, PlanOK, SettingsOK, FaultsOK DEF Init, TypeOK, DestinationOK, Outcomes, PCs
<1>2. TypeOK /\ [Next]_vars => TypeOK'
  <2> SUFFICES ASSUME TypeOK, [Next]_vars
               PROVE  TypeOK'
    OBVIOUS
  <2> USE DEF given, destination
  <2>1. CASE SkipTable
    BY <2>1, SettleType, DestinationKept DEF SkipTable, TypeOK, Outcomes, PCs, local
  <2>2. CASE BeginTable
    BY <2>2, SettingsOK, DestinationKept DEF BeginTable, TypeOK, PCs
  <2>3. CASE Return
    BY <2>3, DestinationKept DEF Return, TypeOK, PCs, local
  <2>4. CASE CreateTable
    <3>0. /\ Len(outcome) < Len(Plan) /\ UNCHANGED autocommit
          /\ (Creates /\ Commit) \/ UNCHANGED destination
      BY <2>4 DEF CreateTable, TypeOK
    <3>1. DestinationOK'
      BY <3>0, CreatesWritten, DestinationKept
    <3> QED
      BY <2>4, <3>1 DEF CreateTable, TypeOK, PCs, local
  <2>5. CASE TruncateTable
    <3>0. Emptied /\ Commit /\ UNCHANGED autocommit
      BY <2>5 DEF TruncateTable
    <3>1. DestinationOK'
      BY <3>0, EmptiedWritten
    <3> QED
      BY <2>5, <3>1 DEF TruncateTable, TypeOK, PCs, local
  <2>6. CASE NothingToTruncate
    BY <2>6, DestinationKept DEF NothingToTruncate, TypeOK, PCs, local
  <2>7. CASE SkipData \/ FetchNothing
    BY <2>7, SettleType, DestinationKept
       DEF SkipData, FetchNothing, TypeOK, Outcomes, PCs, local
  <2>8. CASE FetchBatch
    <3>1. Len(outcome) < Len(Plan) /\ Current \in Tables /\ Current' = Current
      BY <2>8, CurrentType DEF FetchBatch, TypeOK, Current
    <3>2. batch' \subseteq RowsOf(Current)
      BY <2>8, <3>1, BatchesType DEF FetchBatch, TypeOK
    <3>3. RowsOf(Current)' = RowsOf(Current)
      BY <3>1 DEF RowsOf
    <3> QED
      BY <2>8, <3>1, <3>2, <3>3, SettingsOK, DestinationKept DEF FetchBatch, TypeOK, PCs
  <2>9. CASE InsertBatch
    <3>1. Len(outcome) < Len(Plan) /\ Current \in Tables
      BY <2>9, CurrentType DEF InsertBatch, TypeOK
    <3>2. Cardinality(batch) \in Nat
      BY <2>9, <3>1, RowsFinite DEF InsertBatch, TypeOK
    <3>3. DestinationOK'
      BY <2>9, <3>1, InsertsWritten DEF InsertBatch
    <3> QED
      BY <2>9, <3>1, <3>2, <3>3, SettingsOK DEF InsertBatch, TypeOK, PCs
  <2>10. CASE InsertNowhere
    BY <2>10, SettingsOK, DestinationKept
       DEF InsertNowhere, RetryInsert, TypeOK, PCs, Current, RowsOf
  <2>11. CASE GiveUp
    BY <2>11, SettleType, DestinationKept DEF GiveUp, TypeOK, Outcomes, PCs, local
  <2>12. CASE Report
    BY <2>12, DestinationKept DEF Report, TypeOK, PCs, local
  <2>13. CASE CreateFails
    <3>1. Len(outcome) < Len(Plan)
      BY <2>13 DEF CreateFails, TypeOK
    <3>2. CASE UNCHANGED destination
      BY <2>13, <3>1, <3>2, SettleType, FaultType, DestinationKept
         DEF CreateFails, TypeOK, Outcomes, PCs, local
    <3>3. CASE Creates /\ (Commit \/ (durable # Written /\ UNCHANGED durable))
      <4>1. DestinationOK'
        BY <2>13, <3>1, <3>3, CreatesWritten DEF CreateFails, TypeOK, DestinationOK
      <4> QED
        BY <2>13, <3>1, <4>1, SettleType, FaultType
           DEF CreateFails, TypeOK, Outcomes, PCs, local
    <3> QED
      BY <2>13, <3>2, <3>3 DEF CreateFails
  <2>14. CASE TruncateFails
    <3>1. DestinationOK'
      BY <2>14, EmptiedWritten, DestinationKept DEF TruncateFails
    <3> QED
      BY <2>14, <3>1, FaultType DEF TruncateFails, TypeOK, PCs, local
  <2>15. CASE FetchFails
    <3>1. CASE retry_count < MaxRetries
      BY <2>15, <3>1, FaultType, SettingsOK, DestinationKept DEF FetchFails, TypeOK, PCs
    <3>2. CASE ~(retry_count < MaxRetries)
      BY <2>15, <3>2, FaultType, SettleType, DestinationKept
         DEF FetchFails, TypeOK, Outcomes, PCs
    <3> QED
      BY <3>1, <3>2
  <2>16. CASE InsertFails
    <3>1. Len(outcome) < Len(Plan) /\ Current \in Tables /\ Current' = Current
      BY <2>16, CurrentType DEF InsertFails, TypeOK, Current
    <3>2. DestinationOK'
      BY <2>16, <3>1, InsertsWritten, DestinationKept DEF InsertFails
    <3>3. faults' \in 0..MaxFaults
      BY <2>16, FaultType DEF InsertFails
    <3>4. attempt' \in 0..MaxRetries /\ pc' \in {pc, "give_up"}
      BY <2>16, SettingsOK DEF InsertFails, RetryInsert, TypeOK
    <3> QED
      BY <2>16, <3>1, <3>2, <3>3, <3>4 DEF InsertFails, TypeOK, PCs, RowsOf
  <2>17. CASE CallbackRaises
    BY <2>17, FaultType, DestinationKept DEF CallbackRaises, TypeOK, PCs, local
  <2>18. CASE Rerun
    <3>1. DestinationOK'
      BY <2>18 DEF Rerun, TypeOK, DestinationOK, IsWritten, Written, RowsOf
    <3> QED
      BY <2>18, <3>1, FaultType, SettingsOK, PlanOK DEF Rerun, TypeOK, PCs
  <2>19. CASE UNCHANGED vars
    BY <2>19, DestinationKept DEF vars, TypeOK, Current, local, RowsOf
  <2> QED
    BY <2>1, <2>2, <2>3, <2>4, <2>5, <2>6, <2>7, <2>8, <2>9, <2>10, <2>11, <2>12, <2>13,
       <2>14, <2>15, <2>16, <2>17, <2>18, <2>19 DEF Next, Step, Failure
<1> QED
  BY <1>1, <1>2, PTL DEF Spec

-----------------------------------------------------------------------------
(* A completed table is completely copied, and committed.                  *)

\* The plan names no table twice, and truncating one table empties no other.
DistinctPlan == \A j, k \in DOMAIN Plan : Plan[j] = Plan[k] => j = k
NoCascade == \A t \in Tables : Cascade[t] \subseteq {t}

\* What the connection sees and would leave behind.
Kept(t) == Present(t) \cap Durable(t)

CompletedIsKept ==
  settings.include_data =>
    \A k \in DOMAIN outcome : outcome[k] = "completed" => RowsOf(Plan[k]) \subseteq Kept(Plan[k])

\* The rows below the offset are kept, and the batch holds the ones that follow.
Copied ==
  /\ CompletedIsKept
  /\ pc \in {"create", "truncate"} => offset = 0
  /\ pc \in {"fetch", "insert", "give_up", "report"} =>
       offset <= NumRows[Current] /\ 1..offset \subseteq Kept(Current)
  /\ pc = "insert" =>
       \E upto \in 1..NumRows[Current] : offset <= upto /\ batch = (offset + 1)..upto

LEMMA PlannedTables ==
  ASSUME TypeOK
  PROVE  \A k \in DOMAIN outcome : Plan[k] \in Tables
BY PlanOK DEF TypeOK

LEMMA CommitIsDurable ==
  ASSUME Commit, NEW t
  PROVE  Durable(t)' = Present(t)'
BY DEF Commit, Written, Durable, Present, RowsOf

\* A write that takes no row away, committed or not.
LEMMA KeptGrows ==
  ASSUME NEW t, Present(t) \subseteq Present(t)', Commit \/ UNCHANGED durable
  PROVE  Kept(t) \subseteq Kept(t)'
<1>1. CASE Commit
  BY <1>1, CommitIsDurable DEF Kept
<1>2. CASE UNCHANGED durable
  BY <1>2 DEF Kept, Durable, RowsOf
<1> QED
  BY <1>1, <1>2

LEMMA KeptUntouched ==
  ASSUME UNCHANGED destination, NEW t
  PROVE  Kept(t)' = Kept(t)
BY DEF destination, Kept, Present, Durable, RowsOf

\* Inserting loses nothing, and stores every row it is given.
LEMMA InsertsPresent ==
  ASSUME TypeOK, NEW t \in Tables, t = Current, NEW rows \in SUBSET RowsOf(t), Inserts(rows)
  PROVE  /\ \A x \in Tables : Present(x) \subseteq Present(x)'
         /\ rows \subseteq Present(t)'
<1>1. \A x \in Tables : x # t => copies'[x] = copies[x]
  BY WrittenFacts DEF Inserts, Inserted
<1>2. \A r \in RowsOf(t) :
        copies'[t][r] = IF r \in rows /\ ~(t \in Keyed /\ (r \in taken[t] \/ copies[t][r] > 0))
                        THEN copies[t][r] + 1 ELSE copies[t][r]
  BY WrittenFacts DEF Inserts, Inserted
<1>3. taken' = taken /\ \A r \in RowsOf(t) : copies[t][r] \in Nat
  BY WrittenFacts DEF Inserts
<1>4. \A r \in RowsOf(t) : r \in Present(t) \/ r \in rows => r \in Present(t)'
  BY <1>2, <1>3 DEF Present, RowsOf
<1>5. \A x \in Tables : x # t => Present(x)' = Present(x)
  BY <1>1, <1>3 DEF Present, RowsOf
<1> QED
  BY <1>4, <1>5 DEF Present

\* A step that settles no table as completed and loses no row of those settled.
LEMMA StillKept ==
  ASSUME CompletedIsKept, settings' = settings, outcome' = outcome,
         \A k \in DOMAIN outcome : Kept(Plan[k]) \subseteq Kept(Plan[k])'
  PROVE  CompletedIsKept'
BY DEF CompletedIsKept, RowsOf

\* A step that settles the current table, and loses no row.
LEMMA SettleKept ==
  ASSUME TypeOK, CompletedIsKept, NEW o \in Outcomes, Settle(o),
         Len(outcome) < Len(Plan), settings' = settings,
         \A t \in Tables : Kept(t) \subseteq Kept(t)',
         settings.include_data /\ o = "completed" => RowsOf(Current) \subseteq Kept(Current)
  PROVE  CompletedIsKept'
<1>1. /\ Len(outcome') = Len(outcome) + 1 /\ outcome' \in Seq(Outcomes)
      /\ \A k \in 1..Len(outcome) : outcome'[k] = outcome[k]
      /\ outcome'[Len(outcome) + 1] = o
  BY SettleType
<1>2. /\ \A k \in DOMAIN outcome : Kept(Plan[k]) \subseteq Kept(Plan[k])'
      /\ Plan[Len(outcome) + 1] = Current /\ Current \in Tables
  BY PlannedTables, CurrentType DEF Current
<1>3. DOMAIN outcome' = DOMAIN outcome \cup {Len(outcome) + 1} /\ DOMAIN outcome = 1..Len(outcome)
  BY <1>1 DEF TypeOK
<1>4. ASSUME settings.include_data, NEW k \in DOMAIN outcome', outcome'[k] = "completed"
      PROVE  RowsOf(Plan[k]) \subseteq Kept(Plan[k])'
  <2>1. CASE k \in DOMAIN outcome
    BY <1>1, <1>2, <1>3, <1>4, <2>1 DEF CompletedIsKept
  <2>2. CASE k = Len(outcome) + 1
    <3>1. Plan[k] = Current /\ o = "completed" /\ Plan[k] \in Tables
      BY <1>1, <1>2, <1>4, <2>2
    <3>2. RowsOf(Plan[k]) \subseteq Kept(Plan[k])
      BY <1>4, <3>1
    <3> QED
      BY <3>1, <3>2
  <2> QED
    BY <1>3, <1>4, <2>1, <2>2
<1> QED
  BY <1>4 DEF CompletedIsKept, RowsOf

\* Nothing of the destination changes: what SettleKept and StillKept ask for.
LEMMA AllKept ==
  ASSUME TypeOK, UNCHANGED destination
  PROVE  /\ \A t \in Tables : Kept(t) \subseteq Kept(t)'
         /\ \A k \in DOMAIN outcome : Kept(Plan[k]) \subseteq Kept(Plan[k])'
BY KeptUntouched

LEMMA CreatesKept ==
  ASSUME TypeOK, Creates, Commit \/ UNCHANGED durable
  PROVE  /\ \A t \in Tables : Kept(t) \subseteq Kept(t)'
         /\ \A k \in DOMAIN outcome : Kept(Plan[k]) \subseteq Kept(Plan[k])'
<1>1. \A t : Present(t)' = Present(t)
  BY DEF Creates, Present, RowsOf
<1> QED
  BY <1>1, KeptGrows

\* Emptying the current table leaves the ones settled before it alone.
LEMMA EmptiedKept ==
  ASSUME DistinctPlan, NoCascade, TypeOK, Len(outcome) < Len(Plan), Emptied,
         Commit \/ UNCHANGED durable
  PROVE  \A k \in DOMAIN outcome : Kept(Plan[k]) \subseteq Kept(Plan[k])'
<1>1. Current \in Tables
  BY CurrentType
<1>2. \A k \in DOMAIN outcome : Plan[k] # Current /\ Plan[k] \in Tables
  BY <1>1, PlanOK DEF DistinctPlan, Current, TypeOK
<1>3. \A t \in Tables \ {Current} : copies'[t] = copies[t] /\ taken'[t] = taken[t]
  BY <1>1, PlanOK DEF Emptied, NoCascade
<1>4. \A t \in Tables \ {Current} : Present(t)' = Present(t)
  BY <1>3 DEF Present, RowsOf
<1> QED
  BY <1>2, <1>4, KeptGrows

\* The invariant holds whatever is retried, given up, repeated or interrupted.
LEMMA CopiedInvariant ==
  ASSUME DistinctPlan, NoCascade, StableScans
  PROVE  Spec => []Copied
<1>1. Init => Copied
  BY DEF Init, Copied, CompletedIsKept
<1>2. TypeOK /\ Copied /\ [Next]_vars => Copied'
  <2> SUFFICES ASSUME TypeOK, Copied, [Next]_vars
               PROVE  Copied'
    OBVIOUS
  <2> USE DEF given
  <2>0. /\ CompletedIsKept
        /\ pc \in InTable => Len(outcome) < Len(Plan)
    BY DEF Copied, TypeOK, InTable
  <2>1. CASE SkipTable
    <3>1. CompletedIsKept'
      BY <2>0, <2>1, SettleKept, AllKept DEF SkipTable, Outcomes
    <3> QED
      BY <2>1, <3>1, SettleType DEF SkipTable, Outcomes, Copied
  <2>2. CASE BeginTable \/ Return \/ CallbackRaises
    <3>1. CompletedIsKept'
      BY <2>0, <2>2, StillKept, AllKept DEF BeginTable, Return, CallbackRaises
    <3> QED
      BY <2>2, <3>1 DEF BeginTable, Return, CallbackRaises, Copied
  <2>3. CASE CreateTable
    <3>1. (Creates /\ Commit) \/ UNCHANGED destination
      BY <2>3 DEF CreateTable
    <3>2. settings' = settings /\ outcome' = outcome
      BY <2>3 DEF CreateTable
    <3>3. CompletedIsKept'
      BY <2>0, <3>1, <3>2, StillKept, AllKept, CreatesKept
    <3> QED
      BY <2>3, <3>3 DEF CreateTable, Copied, local
  <2>4. CASE TruncateTable
    <3>1. /\ Emptied /\ Commit /\ settings' = settings /\ outcome' = outcome
          /\ Len(outcome) < Len(Plan)
      BY <2>0, <2>4 DEF TruncateTable, InTable
    <3>2. CompletedIsKept'
      BY <2>0, <3>1, EmptiedKept, StillKept
    <3>3. NumRows[Current] \in Nat
      BY <3>1, CurrentType
    <3> QED
      BY <2>4, <3>2, <3>3 DEF TruncateTable, Copied, local, Current
  <2>5. CASE NothingToTruncate \/ TruncateFails
    <3>1. /\ UNCHANGED destination \/ (Emptied /\ (Commit \/ UNCHANGED durable))
          /\ settings' = settings /\ outcome' = outcome
          /\ Len(outcome) < Len(Plan)
      BY <2>0, <2>5 DEF NothingToTruncate, TruncateFails, InTable
    <3>2. CompletedIsKept'
      BY <2>0, <3>1, EmptiedKept, AllKept, StillKept
    <3>3. NumRows[Current] \in Nat
      BY <3>1, CurrentType
    <3> QED
      BY <2>5, <3>2, <3>3 DEF NothingToTruncate, TruncateFails, Copied, local, Current
  <2>6. CASE SkipData
    <3>1. CompletedIsKept'
      BY <2>0, <2>6, SettleKept, AllKept DEF SkipData, Outcomes, InTable
    <3> QED
      BY <2>0, <2>6, <3>1, SettleType DEF SkipData, Outcomes, Copied, InTable
  <2>7. CASE FetchNothing
    <3>1. Current \in Tables /\ Len(outcome) < Len(Plan) /\ NumRows[Current] \in Nat
      BY <2>0, <2>7, CurrentType DEF FetchNothing, InTable
    <3>2. RowsOf(Current) \subseteq Kept(Current)
      BY <2>7, <3>1 DEF FetchNothing, Copied, RowsOf, TypeOK
    <3>3. CompletedIsKept'
      BY <2>0, <2>7, <3>1, <3>2, SettleKept, AllKept DEF FetchNothing, Outcomes
    <3> QED
      BY <2>7, <3>1, <3>3, SettleType DEF FetchNothing, Outcomes, Copied
  <2>8. CASE FetchBatch
    <3>1. NumRows[Current] \in Nat /\ Current' = Current
      BY <2>0, <2>8, CurrentType DEF FetchBatch, InTable, Current
    <3>2. Kept(Current)' = Kept(Current)
      BY <2>8, <3>1, KeptUntouched DEF FetchBatch, Kept, Present, Durable, RowsOf, destination
    <3>3. CompletedIsKept'
      BY <2>0, <2>8, StillKept, AllKept DEF FetchBatch
    <3>4. \E upto \in 1..NumRows[Current] : offset <= upto /\ batch' = (offset + 1)..upto
      BY <2>8, <3>1, SettingsOK DEF FetchBatch, Batches, TypeOK
    <3> QED
      BY <2>8, <3>1, <3>2, <3>3, <3>4 DEF FetchBatch, Copied
  <2>9. CASE InsertBatch
    <3>1. Current \in Tables /\ NumRows[Current] \in Nat /\ Current' = Current
      BY <2>0, <2>9, CurrentType DEF InsertBatch, InTable, Current
    <3>2. PICK upto \in 1..NumRows[Current] : offset <= upto /\ batch = (offset + 1)..upto
      BY <2>9 DEF InsertBatch, Copied
    <3>3. Cardinality(batch) = upto - offset
      BY <3>1, <3>2, FS_Interval DEF TypeOK
    <3>4. /\ \A x \in Tables : Present(x) \subseteq Present(x)'
          /\ batch \subseteq Present(Current)'
      <4>1. batch \in SUBSET RowsOf(Current) /\ Inserts(batch)
        BY <2>9 DEF InsertBatch, TypeOK
      <4> QED
        BY <3>1, <4>1, InsertsPresent
    <3>5. \A x \in Tables : Kept(x) \subseteq Kept(x)'
      BY <2>9, <3>4, KeptGrows DEF InsertBatch
    <3>6. batch \subseteq Durable(Current)'
      <4>1. Present(Current)' = Durable(Current)'
        BY <2>9, <3>1, CommitIsDurable DEF InsertBatch, Durable, Present
      <4> QED
        BY <3>4, <4>1
    <3>7. offset' = upto /\ 1..upto \subseteq Kept(Current)'
      <4>1. offset' = upto
        BY <2>9, <3>1, <3>2, <3>3 DEF InsertBatch, TypeOK
      <4>2. 1..offset \subseteq Kept(Current)'
        BY <2>9, <3>1, <3>5 DEF InsertBatch, Copied
      <4>3. batch \subseteq Kept(Current)'
        BY <3>4, <3>6 DEF Kept
      <4>4. 1..upto \subseteq (1..offset) \cup batch
        BY <3>1, <3>2 DEF TypeOK
      <4> QED
        BY <4>1, <4>2, <4>3, <4>4
    <3>8. CompletedIsKept'
      BY <2>0, <2>9, <3>5, PlannedTables, StillKept DEF InsertBatch
    <3> QED
      BY <2>9, <3>1, <3>2, <3>7, <3>8 DEF InsertBatch, Copied
  <2>10. CASE InsertFails
    <3>1. Current \in Tables /\ NumRows[Current] \in Nat /\ Current' = Current
      BY <2>0, <2>10, CurrentType DEF InsertFails, InTable, Current
    <3>2. \/ UNCHANGED destination
          \/ \E rows \in SUBSET batch : Inserts(rows) /\ (Commit \/ UNCHANGED durable)
      BY <2>10 DEF InsertFails
    <3>3. \A x \in Tables : Kept(x) \subseteq Kept(x)'
      <4>1. CASE UNCHANGED destination
        BY <4>1, AllKept
      <4>2. ASSUME NEW rows \in SUBSET batch, Inserts(rows), Commit \/ UNCHANGED durable
            PROVE  \A x \in Tables : Kept(x) \subseteq Kept(x)'
        <5>1. rows \in SUBSET RowsOf(Current)
          BY <2>10 DEF InsertFails, TypeOK
        <5>2. \A x \in Tables : Present(x) \subseteq Present(x)'
          BY <3>1, <4>2, <5>1, InsertsPresent
        <5> QED
          BY <4>2, <5>2, KeptGrows
      <4> QED
        BY <3>2, <4>1, <4>2
    <3>4. CompletedIsKept'
      BY <2>0, <2>10, <3>3, PlannedTables, StillKept DEF InsertFails
    <3>5. pc' \in {"insert", "give_up"}
      BY <2>10 DEF InsertFails, RetryInsert
    <3> QED
      BY <2>10, <3>1, <3>3, <3>4, <3>5 DEF InsertFails, Copied
  <2>11. CASE InsertNowhere \/ Report
    <3>1. Current' = Current /\ Current \in Tables
      BY <2>0, <2>11, CurrentType DEF InsertNowhere, Report, Current, InTable
    <3>2. \A t \in Tables : Kept(t) \subseteq Kept(t)'
      BY <2>11, AllKept DEF InsertNowhere, Report
    <3>3. CompletedIsKept'
      BY <2>0, <2>11, StillKept, AllKept DEF InsertNowhere, Report
    <3>4. (pc' = "insert" => pc = "insert") /\ pc' \in {"insert", "give_up", "fetch"}
      BY <2>11 DEF InsertNowhere, Report, RetryInsert
    <3>5. offset' = offset /\ batch' = batch /\ pc \in {"insert", "report"}
      BY <2>11 DEF InsertNowhere, Report, local
    <3> QED
      BY <3>1, <3>2, <3>3, <3>4, <3>5 DEF Copied
  <2>12. CASE GiveUp \/ CreateFails
    <3>1. \A t \in Tables : Kept(t) \subseteq Kept(t)'
      <4>1. UNCHANGED destination \/ (Creates /\ (Commit \/ UNCHANGED durable))
        BY <2>12 DEF GiveUp, CreateFails
      <4> QED
        BY <4>1, AllKept, CreatesKept
    <3>2. CompletedIsKept'
      BY <2>0, <2>12, <3>1, SettleKept DEF GiveUp, CreateFails, Outcomes, InTable
    <3> QED
      BY <2>0, <2>12, <3>2, SettleType DEF GiveUp, CreateFails, Outcomes, Copied, InTable
  <2>13. CASE FetchFails
    <3>1. CASE Settle("failed")
      <4>1. CompletedIsKept'
        BY <2>0, <2>13, <3>1, SettleKept, AllKept DEF FetchFails, Outcomes, InTable
      <4> QED
        BY <2>0, <2>13, <3>1, <4>1, SettleType DEF FetchFails, Outcomes, Copied, InTable
    <3>2. CASE UNCHANGED <<pc, outcome>>
      <4>1. CompletedIsKept'
        BY <2>0, <2>13, <3>2, StillKept, AllKept DEF FetchFails
      <4>2. Current' = Current /\ Kept(Current) \subseteq Kept(Current)'
        BY <2>0, <2>13, <3>2, AllKept, CurrentType DEF FetchFails, Current, InTable
      <4> QED
        BY <2>13, <3>2, <4>1, <4>2 DEF FetchFails, Copied
    <3> QED
      BY <2>13, <3>1, <3>2 DEF FetchFails
  <2>14. CASE Rerun
    BY <2>14 DEF Rerun, Copied, CompletedIsKept
  <2>15. CASE UNCHANGED vars
    <3>1. CompletedIsKept'
      BY <2>0, <2>15, StillKept, AllKept DEF vars
    <3>2. Current' = Current /\ Kept(Current)' = Kept(Current)
      BY <2>15 DEF vars, Current, destination, Kept, Present, Durable, RowsOf
    <3> QED
      BY <2>15, <3>1, <3>2 DEF vars, local, Copied
  <2> QED
    BY <2>1, <2>2, <2>3, <2>4, <2>5, <2>6, <2>7, <2>8, <2>9, <2>10, <2>11, <2>12, <2>13,
       <2>14, <2>15 DEF Next, Step, Failure
<1> QED
  BY <1>1, <1>2, ExecutorTypeCorrect, PTL DEF Spec

\* Whatever is retried, given up, repeated or interrupted, a table counted as
\* completed has all its rows in the destination, and committed.
THEOREM CompletedRowsAreThere ==
  ASSUME DistinctPlan, NoCascade, StableScans
  PROVE  Spec => []CompletedIsCopied
<1>1. Copied => CompletedIsCopied
  BY DEF Copied, CompletedIsKept, CompletedIsCopied, Kept, Durable
<1> QED
  BY <1>1, CopiedInvariant, PTL

-----------------------------------------------------------------------------
(* The percentage shown.                                                   *)

\* However many rows the plan promised, the feed's percentage moves back only
\* when a new attempt begins.
THEOREM FeedMovesOn == Spec => ProgressMovesOn
<1>1. TypeOK /\ [Next]_vars => [~Rerun => Shown <= Shown']_vars
  <2> SUFFICES ASSUME TypeOK, [Next]_vars, ~Rerun
               PROVE  Shown <= Shown'
    OBVIOUS
  <2>1. total_rows_processed \in Nat /\ PlannedRows \in Int
    BY PlanOK DEF TypeOK
  <2>2. total_rows_processed' \in Nat /\ total_rows_processed <= total_rows_processed'
    <3>1. CASE InsertBatch
      <4>1. Len(outcome) < Len(Plan) /\ Current \in Tables
        BY <3>1, CurrentType DEF InsertBatch, TypeOK
      <4>2. Cardinality(batch) \in Nat
        BY <3>1, <4>1, RowsFinite DEF InsertBatch, TypeOK
      <4> QED
        BY <2>1, <3>1, <4>2 DEF InsertBatch
    <3>2. CASE ~InsertBatch
      BY <2>1, <3>2
         DEF Next, Step, Failure, vars, SkipTable, BeginTable, Return, CreateTable,
             TruncateTable, NothingToTruncate, SkipData, FetchBatch, FetchNothing,
             InsertNowhere, GiveUp, Report, CreateFails, TruncateFails, FetchFails,
             InsertFails, CallbackRaises
    <3> QED
      BY <3>1, <3>2
  <2>3. /\ Shown = calculate_progress(total_rows_processed, PlannedRows)
        /\ Shown' = calculate_progress(total_rows_processed', PlannedRows)
    BY DEF Shown
  <2> QED
    BY <2>1, <2>2, <2>3, ProgressNeverMovesBack
<1> QED
  BY <1>1, ExecutorTypeCorrect, PTL DEF Spec, ProgressMovesOn

-----------------------------------------------------------------------------
(* Rows that are stored twice.                                             *)

\* Has this attempt been over the row already?
Passed(t, r) ==
  \/ \E k \in 1..Len(outcome) : Plan[k] = t
  \/ pc # "next" /\ Len(outcome) < Len(Plan) /\ t = Current /\ r <= offset

\* Each failure may have stored the row once, and the running attempt as well.
Limit(t, r) == IF t \in Keyed THEN 1 ELSE IF Passed(t, r) THEN faults + 1 ELSE faults

Within(c) == \A t \in Tables : \A r \in RowsOf(t) : c[t][r] <= Limit(t, r)

Bounded ==
  /\ Within(copies) /\ Within(durable.copies)
  /\ pc = "insert" => \E upto \in Nat : offset <= upto /\ batch = (offset + 1)..upto

LEMMA CopiesType ==
  ASSUME TypeOK, NEW t \in Tables, NEW r \in RowsOf(t)
  PROVE  /\ copies[t][r] \in Nat /\ durable.copies[t][r] \in Nat
         /\ r \in Nat /\ faults \in Nat /\ offset \in Nat
<1>1. NumRows[t] \in Nat /\ faults \in Nat /\ offset \in Nat
  BY PlanOK, FaultsOK DEF TypeOK
<1>2. copies[t] \in [RowsOf(t) -> Nat] /\ durable.copies[t] \in [RowsOf(t) -> Nat]
  BY DEF TypeOK, DestinationOK, IsWritten, Written
<1> QED
  BY <1>1, <1>2 DEF RowsOf

\* What the steps have in common that insert no rows: they settle the current table,
\* or they go on with it.
LEMMA QuietSteps ==
  ASSUME TypeOK, Next, ~InsertBatch, ~InsertFails, ~Rerun
  PROVE  /\ faults' = faults \/ faults' = faults + 1
         /\ \/ Len(outcome) < Len(Plan) /\ \E o \in Outcomes : Settle(o)
            \/ outcome' = outcome /\ (offset' = offset \/ pc = "next") /\ pc' # "next"
         /\ copies' = copies \/ Emptied
         /\ Commit \/ UNCHANGED durable
         /\ pc' = "insert" => FetchBatch \/ (pc = "insert" /\ UNCHANGED <<batch, offset>>)
<1>1. CASE SkipTable \/ SkipData \/ FetchNothing \/ GiveUp
  BY <1>1 DEF SkipTable, SkipData, FetchNothing, GiveUp, destination, TypeOK, Outcomes, Settle
<1>2. CASE BeginTable \/ Return \/ NothingToTruncate \/ FetchBatch \/ Report
  BY <1>2 DEF BeginTable, Return, NothingToTruncate, FetchBatch, Report, destination, local
<1>3. CASE CreateTable \/ TruncateTable \/ InsertNowhere
  BY <1>3 DEF CreateTable, Creates, TruncateTable, InsertNowhere, RetryInsert, destination, local
<1>4. CASE CreateFails
  BY <1>4, FaultType DEF CreateFails, Creates, destination, TypeOK, Outcomes, Settle
<1>5. CASE TruncateFails \/ CallbackRaises
  BY <1>5, FaultType DEF TruncateFails, CallbackRaises, destination, local
<1>6. CASE FetchFails
  BY <1>6, FaultType DEF FetchFails, destination, TypeOK, Outcomes, Settle
<1> QED
  BY <1>1, <1>2, <1>3, <1>4, <1>5, <1>6 DEF Next, Step, Failure

\* Within an attempt, a row that was passed stays passed.
LEMMA PassedStays ==
  ASSUME TypeOK, NEW t, NEW r, Passed(t, r),
         \/ Len(outcome) < Len(Plan) /\ \E o \in Outcomes : Settle(o)
         \/ outcome' = outcome /\ (offset' = offset \/ pc = "next") /\ pc' # "next"
  PROVE  Passed(t, r)'
<1>1. CASE Len(outcome) < Len(Plan) /\ \E o \in Outcomes : Settle(o)
  BY <1>1, SettleType DEF Passed, Current, TypeOK
<1>2. CASE outcome' = outcome /\ (offset' = offset \/ pc = "next") /\ pc' # "next"
  BY <1>2 DEF Passed, Current
<1> QED
  BY <1>1, <1>2

LEMMA LimitGrows ==
  ASSUME TypeOK, NEW t, NEW r, Passed(t, r) => Passed(t, r)', faults' = faults \/ faults' = faults + 1
  PROVE  Limit(t, r) <= Limit(t, r)'
<1>1. faults \in Nat
  BY FaultsOK DEF TypeOK
<1> QED
  BY <1>1 DEF Limit

\* What is within its limits stays so, and so does what is committed of it.
LEMMA WithinStays ==
  ASSUME TypeOK, Bounded, Commit \/ UNCHANGED durable, faults' = faults \/ faults' = faults + 1,
         \A t \in Tables : \A r \in RowsOf(t) :
           copies'[t][r] <= Limit(t, r)' /\ Limit(t, r) <= Limit(t, r)'
  PROVE  Within(copies)' /\ Within(durable.copies)'
<1>1. Within(copies)'
  BY DEF Within, RowsOf
<1>2. CASE Commit
  <2>1. durable'.copies = copies'
    BY <1>2 DEF Commit, Written
  <2> QED
    BY <1>1, <2>1 DEF Within, RowsOf
<1>3. CASE UNCHANGED durable
  <2>1. ASSUME NEW t \in Tables, NEW r \in RowsOf(t)
        PROVE  durable'.copies[t][r] <= Limit(t, r)'
    <3>1. durable.copies[t][r] \in Nat /\ durable.copies[t][r] <= Limit(t, r)
      BY CopiesType DEF Bounded, Within
    <3>2. Limit(t, r) \in Nat /\ Limit(t, r)' \in Int /\ Limit(t, r) <= Limit(t, r)'
      BY CopiesType DEF Limit
    <3> QED
      BY <1>3, <3>1, <3>2
  <2> QED
    BY <2>1 DEF Within, RowsOf
<1> QED
  BY <1>1, <1>2, <1>3

\* How inserting some rows of the batch moves the counts.
LEMMA InsertedOnce ==
  ASSUME TypeOK, NEW rows, Inserts(rows), NEW t \in Tables, NEW r \in RowsOf(t)
  PROVE  \/ copies'[t][r] = copies[t][r]
         \/ /\ copies'[t][r] = copies[t][r] + 1
            /\ t = Current /\ r \in rows /\ (t \in Keyed => copies[t][r] = 0)
<1>1. copies[t][r] \in Nat
  BY CopiesType
<1> QED
  BY <1>1, WrittenFacts DEF Inserts, Inserted

\* A keyed table never holds a row twice, and any other at most once more for each
\* failure, over all attempts, whether their writes were committed or not.
THEOREM DuplicatesAreFaults ==
  ASSUME DistinctPlan, StableScans
  PROVE  Spec => []DuplicatesAccounted
<1>1. Init => Bounded
  <2> SUFFICES ASSUME Init
               PROVE  Bounded
    OBVIOUS
  <2>1. \A t \in Tables : \A r \in RowsOf(t) : copies[t][r] = 0 /\ durable.copies[t][r] = 0
    BY DEF Init, Written
  <2>2. faults = 0 /\ pc = "next"
    BY DEF Init
  <2> QED
    BY <2>1, <2>2 DEF Bounded, Within, Limit
<1>2. TypeOK /\ Bounded /\ [Next]_vars => Bounded'
  <2> SUFFICES ASSUME TypeOK, Bounded, [Next]_vars
               PROVE  Bounded'
    OBVIOUS
  <2>1. CASE Rerun
    <3>1. /\ copies' = durable.copies /\ durable' = durable /\ faults' = faults + 1
          /\ outcome' = <<>> /\ pc' = "next"
      BY <2>1 DEF Rerun, Fault
    <3>2. ASSUME NEW t \in Tables, NEW r \in RowsOf(t)
          PROVE  durable.copies[t][r] <= Limit(t, r)'
      <4>1. durable.copies[t][r] <= Limit(t, r) /\ durable.copies[t][r] \in Nat /\ faults \in Nat
        BY CopiesType DEF Bounded, Within
      <4>2. Limit(t, r)' = IF t \in Keyed THEN 1 ELSE faults + 1
        BY <3>1 DEF Limit, Passed
      <4> QED
        BY <4>1, <4>2 DEF Limit
    <3> QED
      BY <3>1, <3>2 DEF Bounded, Within, RowsOf
  <2>2. CASE InsertBatch
    <3>1. /\ Current \in Tables /\ Current' = Current /\ Len(outcome) < Len(Plan)
          /\ Len(outcome) \in Nat
      BY <2>2, CurrentType DEF InsertBatch, Current, TypeOK
    <3>2. PICK upto \in Nat : offset <= upto /\ batch = (offset + 1)..upto
      BY <2>2 DEF InsertBatch, Bounded
    <3>3. offset \in Nat /\ offset' = upto
      <4>1. offset \in Nat
        BY DEF TypeOK
      <4>2. Cardinality(batch) = upto - offset
        <5>1. offset + 1 \in Int /\ upto \in Int /\ ~(upto < offset)
          BY <3>2, <4>1
        <5>2. Cardinality((offset + 1)..upto)
                = IF offset + 1 > upto THEN 0 ELSE upto - (offset + 1) + 1
          BY <5>1, FS_Interval
        <5> QED
          BY <3>2, <4>1, <5>1, <5>2
      <4> QED
        BY <2>2, <3>2, <4>1, <4>2 DEF InsertBatch
    <3>4. outcome' = outcome /\ pc' = "report" /\ pc = "insert" /\ faults' = faults
      BY <2>2 DEF InsertBatch
    <3>5. \A t, r : Passed(t, r) /\ r \in Nat => Passed(t, r)'
      BY <3>1, <3>2, <3>3, <3>4 DEF Passed
    <3>6. ASSUME NEW t \in Tables, NEW r \in RowsOf(t)
          PROVE  copies'[t][r] <= Limit(t, r)' /\ Limit(t, r) <= Limit(t, r)'
      <4>1. /\ copies[t][r] \in Nat /\ copies[t][r] <= Limit(t, r)
            /\ r \in Nat /\ faults \in Nat
        BY CopiesType DEF Bounded, Within
      <4>2. Limit(t, r) <= Limit(t, r)'
        BY <3>4, <3>5, <4>1, LimitGrows
      <4>3. CASE copies'[t][r] = copies[t][r]
        BY <3>4, <4>1, <4>2, <4>3 DEF Limit
      <4>4. CASE /\ copies'[t][r] = copies[t][r] + 1
                 /\ t = Current /\ r \in batch /\ (t \in Keyed => copies[t][r] = 0)
        <5>1. Passed(t, r)'
          BY <3>1, <3>2, <3>3, <3>4, <4>4 DEF Passed
        <5>2. ~Passed(t, r)
          <6>1. ~\E k \in 1..Len(outcome) : Plan[k] = t
            BY <3>1, <4>4, PlanOK DEF DistinctPlan, Current
          <6>2. ~(r <= offset)
            BY <3>2, <3>3, <4>1, <4>4
          <6> QED
            BY <6>1, <6>2 DEF Passed
        <5> QED
          BY <3>4, <4>1, <4>2, <4>4, <5>1, <5>2 DEF Limit
      <4> QED
        BY <2>2, <4>2, <4>3, <4>4, InsertedOnce DEF InsertBatch
    <3>7. Within(copies)' /\ Within(durable.copies)'
      BY <2>2, <3>4, <3>6, WithinStays DEF InsertBatch
    <3> QED
      BY <3>4, <3>7 DEF Bounded
  <2>3. CASE InsertFails
    <3>1. /\ outcome' = outcome /\ offset' = offset /\ batch' = batch /\ pc = "insert"
          /\ pc' \in {"insert", "give_up"} /\ faults' = faults + 1
          /\ Commit \/ UNCHANGED durable
          /\ copies' = copies \/ \E rows : Inserts(rows)
      BY <2>3 DEF InsertFails, RetryInsert, Fault, destination
    <3>2. \A t, r : Passed(t, r)' <=> Passed(t, r)
      BY <3>1 DEF Passed, Current
    <3>3. ASSUME NEW t \in Tables, NEW r \in RowsOf(t)
          PROVE  copies'[t][r] <= Limit(t, r)' /\ Limit(t, r) <= Limit(t, r)'
      <4>1. copies[t][r] \in Nat /\ copies[t][r] <= Limit(t, r) /\ faults \in Nat
        BY CopiesType DEF Bounded, Within
      <4>2. Limit(t, r)' = IF t \in Keyed THEN 1 ELSE Limit(t, r) + 1
        BY <3>1, <3>2, <4>1 DEF Limit
      <4>3. \/ copies'[t][r] = copies[t][r]
            \/ copies'[t][r] = copies[t][r] + 1 /\ (t \in Keyed => copies[t][r] = 0)
        BY <3>1, InsertedOnce
      <4> QED
        BY <4>1, <4>2, <4>3 DEF Limit
    <3>4. Within(copies)' /\ Within(durable.copies)'
      BY <3>1, <3>3, WithinStays
    <3> QED
      BY <3>1, <3>4 DEF Bounded
  <2>4. CASE Next /\ ~Rerun /\ ~InsertBatch /\ ~InsertFails
    <3>1. /\ faults' = faults \/ faults' = faults + 1
          /\ Commit \/ UNCHANGED durable
          /\ copies' = copies \/ Emptied
      BY <2>4, QuietSteps
    <3>2. \A t, r : Passed(t, r) => Passed(t, r)'
      BY <2>4, QuietSteps, PassedStays
    <3>3. ASSUME NEW t \in Tables, NEW r \in RowsOf(t)
          PROVE  copies'[t][r] <= Limit(t, r)' /\ Limit(t, r) <= Limit(t, r)'
      <4>1. copies[t][r] \in Nat /\ copies[t][r] <= Limit(t, r) /\ faults \in Nat
        BY CopiesType DEF Bounded, Within
      <4>2. Limit(t, r) <= Limit(t, r)'
        BY <3>1, <3>2, LimitGrows
      <4>3. copies'[t][r] \in {copies[t][r], 0}
        BY <3>1 DEF Emptied
      <4> QED
        BY <3>1, <4>1, <4>2, <4>3 DEF Limit
    <3>4. Within(copies)' /\ Within(durable.copies)'
      BY <3>1, <3>3, WithinStays
    <3>5. ASSUME pc' = "insert"
          PROVE  \E upto \in Nat : offset' <= upto /\ batch' = (offset' + 1)..upto
      <4>1. CASE FetchBatch
        <5>1. NumRows[Current] \in Nat /\ offset \in Nat /\ offset < NumRows[Current]
          BY <4>1, CurrentType DEF FetchBatch, TypeOK
        <5> QED
          BY <4>1, <5>1, SettingsOK DEF FetchBatch, Batches
      <4>2. CASE pc = "insert" /\ UNCHANGED <<batch, offset>>
        BY <4>2 DEF Bounded
      <4> QED
        BY <2>4, <3>5, <4>1, <4>2, QuietSteps
    <3> QED
      BY <3>4, <3>5 DEF Bounded
  <2>5. CASE UNCHANGED vars
    BY <2>5 DEF vars, destination, local, Bounded, Within, Limit, Passed, Current, RowsOf
  <2> QED
    BY <2>1, <2>2, <2>3, <2>4, <2>5
<1>3. TypeOK /\ Bounded => DuplicatesAccounted
  <2> SUFFICES ASSUME TypeOK, Bounded, NEW t \in Tables, NEW r \in RowsOf(t)
               PROVE  copies[t][r] <= IF t \in Keyed THEN 1 ELSE 1 + faults
    BY DEF DuplicatesAccounted
  <2>1. copies[t][r] \in Nat /\ copies[t][r] <= Limit(t, r) /\ faults \in Nat
    BY CopiesType DEF Bounded, Within
  <2> QED
    BY <2>1 DEF Limit
<1> QED
  BY <1>1, <1>2, <1>3, ExecutorTypeCorrect, PTL DEF Spec

-----------------------------------------------------------------------------
(* Giving up.                                                              *)

FailedTables == {k \in DOMAIN outcome : outcome[k] = "failed"}

\* The failures that the table at hand has cost since its last batch.
Underway == CASE pc = "fetch"   -> retry_count
              [] pc = "insert"  -> attempt
              [] pc = "give_up" -> MaxRetries + 1
              [] OTHER          -> 0

\* Without include_schema no table is made, and a failure is always a fault.
Afforded ==
  /\ ~settings.include_schema => durable.exists = exists
  /\ pc \in {"create", "truncate", "report"} => retry_count = 0
  /\ ~settings.include_schema /\ exists = Tables =>
       Cardinality(FailedTables) * (MaxRetries + 1) + Underway <= faults

LEMMA Counters ==
  ASSUME TypeOK
  PROVE  /\ MaxRetries \in Nat /\ faults \in Nat /\ retry_count \in Nat /\ attempt \in Nat
         /\ retry_count <= MaxRetries /\ attempt <= MaxRetries /\ Underway \in Nat
BY SettingsOK, FaultsOK DEF TypeOK, Underway

LEMMA FailedFinite ==
  ASSUME TypeOK
  PROVE  IsFiniteSet(FailedTables) /\ Cardinality(FailedTables) \in Nat
<1>1. IsFiniteSet(DOMAIN outcome)
  <2>1. DOMAIN outcome = 1..Len(outcome) /\ Len(outcome) \in Nat
    BY DEF TypeOK
  <2> QED
    BY <2>1, FS_Interval
<1>2. IsFiniteSet(FailedTables)
  BY <1>1, FS_Subset DEF FailedTables
<1> QED
  BY <1>2, FS_CardinalityType

LEMMA FailedGrow ==
  ASSUME TypeOK, NEW o \in Outcomes, Settle(o), Len(outcome) < Len(Plan)
  PROVE  Cardinality(FailedTables') = Cardinality(FailedTables) + IF o = "failed" THEN 1 ELSE 0
<1>1. /\ DOMAIN outcome = 1..Len(outcome) /\ Len(outcome) \in Nat
      /\ DOMAIN outcome' = 1..(Len(outcome) + 1)
      /\ \A k \in 1..Len(outcome) : outcome'[k] = outcome[k]
      /\ outcome'[Len(outcome) + 1] = o
  BY SettleType DEF TypeOK
<1>2. Len(outcome) + 1 \notin FailedTables
  BY <1>1 DEF FailedTables
<1>3. CASE o = "failed"
  <2>1. FailedTables' = FailedTables \cup {Len(outcome) + 1}
    BY <1>1, <1>3 DEF FailedTables
  <2> QED
    BY <1>2, <1>3, <2>1, FailedFinite, FS_AddElement
<1>4. CASE o # "failed"
  <2>1. FailedTables' = FailedTables
    BY <1>1, <1>4 DEF FailedTables
  <2> QED
    BY <1>4, <2>1, FailedFinite
<1> QED
  BY <1>3, <1>4

LEMMA OneTableMore ==
  ASSUME NEW n \in Nat, NEW m \in Nat
  PROVE  n * m \in Nat /\ (n + 1) * m = n * m + m
OBVIOUS

LEMMA StillPaid ==
  ASSUME NEW a \in Nat, NEW u \in Nat, NEW v \in Nat, NEW f \in Nat, NEW g \in Nat, NEW m \in Nat,
         a + u <= f
  PROVE  /\ v + f <= u + g => a + v <= g
         /\ f <= g => a + 0 <= g
         /\ m + f <= u + g => (a + m) + 0 <= g
OBVIOUS

\* What an attempt at the table has cost is paid by its failures, when it goes on
\* and when it ends.
LEMMA StepsArePaid ==
  ASSUME TypeOK, Afforded, Next, ~Rerun, ~settings.include_schema, exists = Tables
  PROVE  /\ faults \in Nat /\ faults' \in Nat /\ Underway' \in Nat
         /\ \/ outcome' = outcome /\ Underway' + faults <= Underway + faults'
            \/ /\ Underway' = 0 /\ Len(outcome) < Len(Plan) /\ faults <= faults'
               /\ \E o \in Outcomes :
                    Settle(o) /\ (o = "failed" => MaxRetries + 1 + faults <= Underway + faults')
<1>0. /\ MaxRetries \in Nat /\ faults \in Nat /\ retry_count \in Nat /\ attempt \in Nat
      /\ retry_count <= MaxRetries /\ attempt <= MaxRetries /\ Underway \in Nat
  BY Counters
<1>1. CASE SkipTable \/ SkipData \/ FetchNothing
  BY <1>0, <1>1 DEF SkipTable, SkipData, FetchNothing, Settle, Underway, Outcomes, TypeOK
<1>2. CASE BeginTable \/ Return \/ CreateTable
  BY <1>0, <1>2 DEF BeginTable, Return, CreateTable, Underway
<1>3. CASE TruncateTable \/ NothingToTruncate \/ Report
  BY <1>0, <1>3 DEF TruncateTable, NothingToTruncate, Report, Underway, Afforded, local
<1>4. CASE TruncateFails \/ CallbackRaises
  BY <1>0, <1>4, FaultType DEF TruncateFails, CallbackRaises, Underway, Afforded, local
<1>5. CASE FetchBatch \/ InsertBatch
  BY <1>0, <1>5 DEF FetchBatch, InsertBatch, Underway
<1>6. CASE FetchFails
  <2>1. faults' = faults + 1 /\ pc = "fetch" /\ Underway = retry_count
    BY <1>6, FaultType DEF FetchFails, Underway
  <2>2. CASE retry_count < MaxRetries
    <3>1. retry_count' = retry_count + 1 /\ pc' = "fetch" /\ outcome' = outcome
      BY <1>6, <2>1, <2>2 DEF FetchFails
    <3>2. Underway' = retry_count + 1
      BY <3>1 DEF Underway
    <3> QED
      BY <1>0, <2>1, <3>1, <3>2
  <2>3. CASE ~(retry_count < MaxRetries)
    <3>1. Settle("failed") /\ Len(outcome) < Len(Plan)
      BY <1>6, <2>1, <2>3 DEF FetchFails, TypeOK
    <3>2. Underway' = 0
      BY <3>1 DEF Settle, Underway
    <3> QED
      BY <1>0, <2>1, <2>3, <3>1, <3>2 DEF Outcomes
  <2> QED
    BY <2>2, <2>3
<1>7. CASE InsertFails
  <2>1. faults' = faults + 1 /\ pc = "insert" /\ Underway = attempt /\ outcome' = outcome
    BY <1>7, FaultType DEF InsertFails, Underway
  <2>2. Underway' = attempt + 1
    BY <1>0, <1>7, <2>1 DEF InsertFails, RetryInsert, Underway
  <2> QED
    BY <1>0, <2>1, <2>2
<1>8. CASE GiveUp
  <2>1. Settle("failed") /\ Len(outcome) < Len(Plan) /\ faults' = faults
        /\ Underway = MaxRetries + 1
    BY <1>8 DEF GiveUp, TypeOK, Underway
  <2>2. Underway' = 0
    BY <2>1 DEF Settle, Underway
  <2> QED
    BY <1>0, <2>1, <2>2 DEF Outcomes
<1>9. ~CreateFails /\ ~InsertNowhere
  BY CurrentType DEF CreateFails, InsertNowhere, TypeOK
<1> QED
  BY <1>1, <1>2, <1>3, <1>4, <1>5, <1>6, <1>7, <1>8, <1>9 DEF Next, Step, Failure

\* What an attempt does not make stays, also over the next attempt.
LEMMA SameTables ==
  ASSUME TypeOK, Afforded, [Next]_vars, ~settings.include_schema
  PROVE  UNCHANGED settings /\ exists' = exists /\ durable'.exists = exists
<1>1. CASE Rerun \/ UNCHANGED vars
  BY <1>1 DEF Rerun, vars, Afforded, given, destination
<1>2. CASE SkipTable \/ SkipData \/ FetchNothing \/ GiveUp \/ BeginTable \/ Return
  BY <1>2 DEF SkipTable, SkipData, FetchNothing, GiveUp, BeginTable, Return, Afforded, given, destination
<1>3. CASE CreateTable \/ NothingToTruncate \/ FetchBatch \/ InsertNowhere \/ Report
  BY <1>3 DEF CreateTable, NothingToTruncate, FetchBatch, InsertNowhere, Report, Afforded, given, destination
<1>4. CASE TruncateTable \/ InsertBatch
  BY <1>4 DEF TruncateTable, Emptied, InsertBatch, Inserts, Commit, Written, given
<1>5. CASE CreateFails \/ FetchFails \/ CallbackRaises
  BY <1>5 DEF CreateFails, FetchFails, CallbackRaises, Afforded, given, destination
<1>6. CASE TruncateFails
  BY <1>6 DEF TruncateFails, Emptied, Commit, Written, Afforded, given, destination
<1>7. CASE InsertFails
  BY <1>7 DEF InsertFails, Inserts, Commit, Written, Afforded, given, destination
<1> QED
  BY <1>1, <1>2, <1>3, <1>4, <1>5, <1>6, <1>7 DEF Next, Step, Failure

LEMMA RetriesStartAgain ==
  ASSUME TypeOK, Afforded, [Next]_vars, pc' \in {"create", "truncate", "report"}
  PROVE  retry_count' = 0
<1>1. CASE BeginTable \/ CreateTable \/ InsertBatch \/ UNCHANGED vars
  BY <1>1 DEF BeginTable, CreateTable, InsertBatch, vars, local, Afforded
<1>2. ~(SkipTable \/ SkipData \/ FetchNothing \/ GiveUp \/ CreateFails)
  BY DEF SkipTable, SkipData, FetchNothing, GiveUp, CreateFails, Settle
<1>3. ~(Return \/ TruncateTable \/ NothingToTruncate \/ FetchBatch \/ InsertNowhere \/ Report)
  BY DEF Return, TruncateTable, NothingToTruncate, FetchBatch, InsertNowhere, RetryInsert, Report
<1>4. ~(TruncateFails \/ FetchFails \/ InsertFails \/ CallbackRaises \/ Rerun)
  BY DEF TruncateFails, FetchFails, Settle, InsertFails, RetryInsert, CallbackRaises, Rerun
<1> QED
  BY <1>1, <1>2, <1>3, <1>4 DEF Next, Step, Failure

\* Where every table is there, each one given up has cost max_retries + 1 failures:
\* however they are spread over fetches, inserts and attempts, no retry is left out.
THEOREM EachTableGetsItsRetries == Spec => []GivesUpLate
<1>1. Init => Afforded
  <2> SUFFICES ASSUME Init
               PROVE  Afforded
    OBVIOUS
  <2>1. FailedTables = {} /\ Underway = 0 /\ durable.exists = exists /\ faults = 0
    BY DEF Init, FailedTables, Underway, Written
  <2>2. Cardinality(FailedTables) * (MaxRetries + 1) = 0
    BY <2>1, FS_EmptySet, SettingsOK
  <2> QED
    BY <2>1, <2>2 DEF Init, Afforded
<1>2. TypeOK /\ Afforded /\ [Next]_vars => Afforded'
  <2> SUFFICES ASSUME TypeOK, Afforded, [Next]_vars
               PROVE  Afforded'
    OBVIOUS
  <2>1. ~settings'.include_schema => /\ ~settings.include_schema
                                     /\ exists' = exists /\ durable'.exists = exists'
    <3>1. settings' = settings
      BY DEF Next, Step, Failure, vars, SkipTable, SkipData, FetchNothing, GiveUp, BeginTable, Return,
             CreateTable, TruncateTable, NothingToTruncate, FetchBatch, InsertBatch, InsertNowhere,
             Report, CreateFails, TruncateFails, FetchFails, InsertFails, CallbackRaises, Rerun, given
    <3> QED
      BY <3>1, SameTables
  <2>2. ASSUME ~settings.include_schema, exists = Tables
        PROVE  Cardinality(FailedTables') * (MaxRetries + 1) + Underway' <= faults'
    <3> DEFINE n == Cardinality(FailedTables)
               m == MaxRetries + 1
               price == n * m
               after == Cardinality(FailedTables') * m
    <3>0. /\ m \in Nat /\ price \in Nat /\ Underway \in Nat /\ faults \in Nat
          /\ price + Underway <= faults
      BY <2>2, FailedFinite, Counters, OneTableMore DEF Afforded
    <3>4. n \in Nat /\ (n + 1) * m = price + m
      BY FailedFinite, Counters, OneTableMore
    <3>1. CASE Rerun
      <4>1. FailedTables' = {} /\ Underway' = 0 /\ faults' = faults + 1
        BY <3>1, FaultType DEF Rerun, FailedTables, Underway
      <4>2. Cardinality(FailedTables') * m = 0
        BY <4>1, <3>0, FS_EmptySet
      <4> QED
        BY <3>0, <4>1, <4>2
    <3>2. CASE UNCHANGED vars
      BY <2>2, <3>2 DEF vars, Afforded, FailedTables, Underway, local
    <3>3. CASE Next /\ ~Rerun
      <4>1. CASE outcome' = outcome /\ Underway' + faults <= Underway + faults'
        <5>1. after = price
          BY <4>1 DEF FailedTables
        <5>2. faults' \in Nat /\ Underway' \in Nat
          BY <2>2, <3>3, StepsArePaid
        <5>3. after + Underway' <= faults'
          <6> HIDE DEF price, after
          <6> QED
            BY <3>0, <4>1, <5>1, <5>2, StillPaid
        <5> QED
          BY <5>3
      <4>2. ASSUME NEW o \in Outcomes, Settle(o), Underway' = 0, Len(outcome) < Len(Plan),
                   faults <= faults', faults' \in Nat,
                   o = "failed" => MaxRetries + 1 + faults <= Underway + faults'
            PROVE  after + Underway' <= faults'
        <5>1. CASE o = "failed"
          <6>1. Cardinality(FailedTables') = n + 1
            BY <4>2, <5>1, FailedGrow
          <6>2. after = price + m
            BY <3>4, <6>1
          <6>3. m + faults <= Underway + faults'
            BY <4>2, <5>1
          <6> HIDE DEF price, after, m
          <6> QED
            BY <3>0, <4>2, <6>2, <6>3, StillPaid
        <5>2. CASE o # "failed"
          <6>1. after = price
            BY <3>4, <4>2, <5>2, FailedGrow
          <6> HIDE DEF price, after
          <6> QED
            BY <3>0, <4>2, <6>1, StillPaid
        <5> QED
          BY <5>1, <5>2
      <4> QED
        BY <2>2, <3>3, <4>1, <4>2, StepsArePaid
    <3> QED
      BY <3>1, <3>2, <3>3
  <2> QED
    BY <2>1, <2>2, RetriesStartAgain DEF Afforded
<1>3. TypeOK /\ Afforded => GivesUpLate
  <2> SUFFICES ASSUME TypeOK, Afforded, ~settings.include_schema, exists = Tables
               PROVE  Cardinality(FailedTables) * (MaxRetries + 1) <= faults
    BY DEF GivesUpLate, FailedTables
  <2>1. Cardinality(FailedTables) * (MaxRetries + 1) \in Nat
    BY FailedFinite, Counters, OneTableMore
  <2>2. Cardinality(FailedTables) * (MaxRetries + 1) + Underway <= faults
    BY DEF Afforded
  <2> QED
    BY <2>1, <2>2, Counters
<1> QED
  BY <1>1, <1>2, <1>3, ExecutorTypeCorrect, PTL DEF Spec

-----------------------------------------------------------------------------
(* The executor implements TableCopy.                                      *)

\* The mapping's parts.
Seen == [t \in Tables |-> Present(t)]
Phase == IF pc \in {"returned", "raised"} THEN pc ELSE "running"

\* No skipped table is worked on.
NotSkipped == pc \in InTable => Current \notin Skipped

LEMMA NotSkippedInvariant == Spec => []NotSkipped
<1>1. Init => NotSkipped
  BY DEF Init, NotSkipped, InTable
<1>2. TypeOK /\ NotSkipped /\ [Next]_vars => NotSkipped'
  <2> SUFFICES ASSUME TypeOK, NotSkipped, [Next]_vars
               PROVE  NotSkipped'
    OBVIOUS
  <2> USE DEF NotSkipped, InTable, Current, Settle
  <2>1. CASE SkipTable \/ BeginTable \/ Return \/ SkipData \/ FetchNothing \/ GiveUp
    BY <2>1 DEF SkipTable, BeginTable, Return, SkipData, FetchNothing, GiveUp
  <2>2. CASE CreateTable \/ TruncateTable \/ NothingToTruncate \/ TruncateFails \/ FetchBatch
    BY <2>2 DEF CreateTable, TruncateTable, NothingToTruncate, TruncateFails, FetchBatch
  <2>3. CASE InsertBatch \/ InsertFails \/ InsertNowhere \/ Report
    BY <2>3 DEF InsertBatch, InsertFails, InsertNowhere, RetryInsert, Report
  <2>4. CASE CreateFails \/ FetchFails \/ CallbackRaises \/ Rerun
    BY <2>4 DEF CreateFails, FetchFails, CallbackRaises, Rerun
  <2>5. CASE UNCHANGED vars
    BY <2>5 DEF vars
  <2> QED
    BY <2>1, <2>2, <2>3, <2>4, <2>5 DEF Next, Step, Failure
<1> QED
  BY <1>1, <1>2, ExecutorTypeCorrect, PTL DEF Spec

LEMMA PresentUntouched ==
  ASSUME UNCHANGED <<taken, copies>>
  PROVE  Seen' = Seen
BY DEF Seen, Present, RowsOf

\* A step that changes rows of the current table alone.
LEMMA ChangeImplemented ==
  ASSUME TypeOK, NotSkipped, pc \in InTable, pc' \in InTable, UNCHANGED <<settings, outcome>>,
         \A t \in Tables \ {Current} : copies'[t] = copies[t] /\ taken'[t] = taken[t]
  PROVE  Promise!Change
<1>1. Current \in Tables /\ Len(outcome) < Len(Plan) /\ Current \notin Skipped
  BY CurrentType DEF TypeOK, InTable, NotSkipped
<1> DEFINE c == Current
           rows == {r \in RowsOf(c) : copies'[c][r] > 0 \/ r \in taken'[c]}
<1>2. Seen' = [Seen EXCEPT ![c] = rows]
  BY <1>1 DEF Seen, Present, RowsOf
<1>3. rows \in SUBSET RowsOf(c)
  OBVIOUS
<1>4. Phase = "running" /\ Phase' = "running"
  BY DEF Phase, InTable
<1> QED
  BY <1>1, <1>2, <1>3, <1>4
     DEF Promise!Change, Promise!Unsettled, Promise!Current, Promise!RowsOf, Current, RowsOf,
         Seen, Phase

LEMMA SettleImplemented ==
  ASSUME TypeOK, NEW o \in Outcomes, Settle(o), Len(outcome) < Len(Plan),
         pc \notin {"returned", "raised"},
         o = "skipped" <=> Current \in Skipped, UNCHANGED <<settings, taken, copies>>,
         settings.include_data /\ o = "completed" => RowsOf(Current) \subseteq Present(Current)
  PROVE  Promise!Settle(o)
<1>1. Seen' = Seen /\ Current \in Tables
  BY PresentUntouched, CurrentType
<1>2. Phase = "running" /\ Phase' = IF o = "failed" /\ ~settings.continue_on_error
                                   THEN "returned" ELSE Phase
  BY DEF Phase, Settle
<1> QED
  BY <1>1, <1>2
     DEF Settle, Promise!Settle, Promise!Unsettled, Promise!Current, Promise!RowsOf, Current,
         RowsOf, Seen, Phase

\* Steps of the loops that the promise does not see.
LEMMA Unseen ==
  ASSUME UNCHANGED <<settings, outcome, taken, copies>>,
         pc \notin {"returned", "raised"}, pc' \notin {"returned", "raised"}
  PROVE  UNCHANGED Promise!vars
<1>1. Seen' = Seen
  BY PresentUntouched
<1> QED
  BY <1>1 DEF Promise!vars, Seen, Phase

LEMMA InitImplemented == TypeOK /\ Init => Promise!Init
<1> SUFFICES ASSUME TypeOK, Init
             PROVE  Promise!Init
  OBVIOUS
<1>1. Seen \in [Tables -> SUBSET (UNION {RowsOf(t) : t \in Tables})]
  BY DEF Seen, Present
<1>2. Phase = "running" /\ outcome = <<>>
  BY DEF Init, Phase
<1>3. settings.include_data \in BOOLEAN /\ settings.continue_on_error \in BOOLEAN
  BY DEF Init, Settings
<1> QED
  BY <1>1, <1>2, <1>3 DEF Promise!Init, Promise!RowsOf, RowsOf, Seen, Phase

\* Another attempt finds the committed rows, all of them in the completed tables.
LEMMA RerunImplemented ==
  ASSUME TypeOK, Copied, Rerun
  PROVE  Promise!Rerun
<1>1. Seen' \in [Tables -> SUBSET (UNION {RowsOf(t) : t \in Tables})]
  BY DEF Seen, Present, RowsOf
<1>2. \A t \in Tables : Present(t)' = Durable(t)
  BY DEF Rerun, Present, Durable, RowsOf
<1>3. \A k \in DOMAIN outcome :
        settings.include_data /\ outcome[k] = "completed" =>
          RowsOf(Plan[k]) \subseteq Seen'[Plan[k]]
  <2> SUFFICES ASSUME NEW k \in DOMAIN outcome, settings.include_data,
                      outcome[k] = "completed"
               PROVE  RowsOf(Plan[k]) \subseteq Seen'[Plan[k]]
    OBVIOUS
  <2>1. Plan[k] \in Tables
    BY PlannedTables
  <2>2. RowsOf(Plan[k]) \subseteq Durable(Plan[k])
    BY DEF Copied, CompletedIsKept, Kept
  <2> QED
    BY <1>2, <2>1, <2>2 DEF Seen
<1>4. outcome' = <<>> /\ Phase' = "running" /\ settings' = settings
  BY DEF Rerun, Phase, given
<1> QED
  BY <1>1, <1>3, <1>4 DEF Promise!Rerun, Promise!RowsOf, RowsOf, Seen, Phase

LEMMA StepImplemented ==
  ASSUME DistinctPlan, NoCascade, StableScans, TypeOK, Copied, NotSkipped, [Next]_vars
  PROVE  [Promise!Next]_(Promise!vars)
<1> USE DEF given, destination
<1>0. pc \in InTable => Len(outcome) < Len(Plan) /\ Current \in Tables /\ Current \notin Skipped
  BY CurrentType DEF NotSkipped, TypeOK, InTable
<1>1. CASE SkipTable
  <2>1. Promise!Settle("skipped")
    BY <1>1, SettleImplemented DEF SkipTable, Outcomes
  <2> QED
    BY <2>1 DEF Promise!Next, Promise!Outcomes
<1>2. CASE GiveUp \/ CreateFails \/ (FetchFails /\ Settle("failed"))
  <2>1. Promise!Settle("failed")
    BY <1>0, <1>2, SettleImplemented
       DEF GiveUp, CreateFails, FetchFails, Creates, Outcomes, InTable
  <2> QED
    BY <2>1 DEF Promise!Next, Promise!Outcomes
<1>3. CASE SkipData
  <2>1. Promise!Settle("completed")
    BY <1>0, <1>3, SettleImplemented DEF SkipData, Outcomes, InTable
  <2> QED
    BY <2>1 DEF Promise!Next, Promise!Outcomes
<1>4. CASE FetchNothing
  <2>1. NumRows[Current] \in Nat /\ offset \in Nat /\ pc = "fetch"
    BY <1>0, <1>4, PlanOK DEF FetchNothing, InTable, TypeOK
  <2>2. RowsOf(Current) \subseteq Present(Current)
    BY <1>4, <2>1 DEF FetchNothing, Copied, Kept, RowsOf
  <2>3. Promise!Settle("completed")
    BY <1>0, <1>4, <2>2, SettleImplemented DEF FetchNothing, Outcomes, InTable
  <2> QED
    BY <2>3 DEF Promise!Next, Promise!Outcomes
<1>5. CASE TruncateTable \/ (TruncateFails /\ Emptied) \/ InsertBatch \/ InsertFails
  <2>1. pc \in InTable /\ pc' \in InTable /\ UNCHANGED <<settings, outcome>>
    BY <1>5 DEF TruncateTable, TruncateFails, InsertBatch, InsertFails, RetryInsert, InTable
  <2>2. Emptied \/ (\E rows : Inserts(rows)) \/ UNCHANGED <<copies, taken>>
    BY <1>5 DEF TruncateTable, InsertBatch, InsertFails
  <2>3. \A t \in Tables \ {Current} : copies'[t] = copies[t] /\ taken'[t] = taken[t]
    <3>1. CASE Emptied
      BY <1>0, <2>1, <3>1 DEF Emptied, NoCascade
    <3>2. CASE \E rows : Inserts(rows)
      BY <1>0, <2>1, <3>2, WrittenFacts DEF Inserts, Inserted
    <3>3. CASE UNCHANGED <<copies, taken>>
      BY <3>3
    <3> QED
      BY <2>2, <3>1, <3>2, <3>3
  <2>4. Promise!Change
    BY <2>1, <2>3, ChangeImplemented
  <2> QED
    BY <2>4 DEF Promise!Next
<1>6. CASE \/ BeginTable \/ CreateTable \/ NothingToTruncate \/ (TruncateFails /\ ~Emptied)
           \/ FetchBatch \/ InsertNowhere \/ Report \/ (FetchFails /\ ~Settle("failed"))
  <2>1. /\ UNCHANGED <<settings, outcome, taken, copies>>
        /\ pc \notin {"returned", "raised"} /\ pc' \notin {"returned", "raised"}
    BY <1>6 DEF BeginTable, CreateTable, Creates, NothingToTruncate, TruncateFails, FetchBatch,
                InsertNowhere, RetryInsert, Report, FetchFails, local
  <2> QED
    BY <2>1, Unseen
<1>7. CASE Return
  <2>1. Seen' = Seen /\ Phase = "running" /\ Phase' = "returned"
    BY <1>7, PresentUntouched DEF Return, Phase
  <2>2. Promise!Return
    BY <1>7, <2>1 DEF Return, Promise!Return, Seen, Phase
  <2> QED
    BY <2>2 DEF Promise!Next
<1>8. CASE CallbackRaises
  <2>1. Seen' = Seen /\ Phase = "running" /\ Phase' = "raised"
    BY <1>8, PresentUntouched DEF CallbackRaises, Phase
  <2>2. Promise!Raise
    BY <1>8, <2>1 DEF CallbackRaises, Promise!Raise, Seen, Phase
  <2> QED
    BY <2>2 DEF Promise!Next
<1>9. CASE Rerun
  BY <1>9, RerunImplemented DEF Promise!Next
<1>10. CASE UNCHANGED vars
  <2>1. Seen' = Seen /\ Phase' = Phase
    BY <1>10, PresentUntouched DEF vars, Phase
  <2> QED
    BY <1>10, <2>1 DEF vars, Promise!vars, Seen, Phase
<1> QED
  BY <1>1, <1>2, <1>3, <1>4, <1>5, <1>6, <1>7, <1>8, <1>9, <1>10 DEF Next, Step, Failure

\* Where no truncation cascades and scans keep their order, every behaviour of the
\* executor, with any faults, is one of TableCopy: only the table at hand changes,
\* none is called completed before its rows are there, and a repeated attempt
\* finds those rows again.
THEOREM ImplementsTableCopy ==
  ASSUME DistinctPlan, NoCascade, StableScans
  PROVE  Spec => KeepsPromise
<1>1. TypeOK /\ Init => Promise!Init
  BY InitImplemented
<1>2. TypeOK /\ Copied /\ NotSkipped /\ [Next]_vars => [Promise!Next]_(Promise!vars)
  BY StepImplemented
<1> QED
  BY <1>1, <1>2, ExecutorTypeCorrect, CopiedInvariant, NotSkippedInvariant, PTL
     DEF Spec, KeepsPromise, Promise!Spec

-----------------------------------------------------------------------------
(* The counters and the rows of the plan.                                  *)

\* The rows of the table at hand that have been counted; and what the attempt
\* has counted when it has copied all it visited.
Here == IF pc \in InTable THEN offset ELSE 0
Clean == settings.include_data /\ \A k \in DOMAIN outcome : outcome[k] # "failed"
Visited == RowsUpTo(IF Len(outcome) < Len(Plan) THEN Len(outcome) + 1 ELSE Len(outcome))

\* No batch goes beyond the end of its table, so the counter is within the rows
\* of the tables before and those of the current one; and without a failed table
\* none was missed.
Tallied ==
  /\ pc \in InTable => offset <= NumRows[Current]
  /\ pc = "insert" => offset + Cardinality(batch) <= NumRows[Current]
  /\ pc = "raised" => total_rows_processed <= Visited
  /\ pc # "raised" => /\ total_rows_processed <= RowsUpTo(Len(outcome)) + Here
                      /\ Clean => total_rows_processed = RowsUpTo(Len(outcome)) + Here
  /\ pc = "returned" /\ Clean => Len(outcome) = Len(Plan)

LEMMA RowsOfPlan ==
  ASSUME NEW n \in Nat, n <= Len(Plan)
  PROVE  /\ RowsUpTo(n) \in Nat /\ RowsUpTo(0) = 0
         /\ n < Len(Plan) =>
              RowsUpTo(n + 1) = RowsUpTo(n) + IF Plan[n + 1] \in Skipped THEN 0
                                              ELSE NumRows[Plan[n + 1]]
<1> DEFINE rows == [j \in DOMAIN Plan |-> IF Plan[j] \in Skipped THEN 0 ELSE NumRows[Plan[j]]]
<1>1. DOMAIN Plan = 1..Len(Plan) /\ Len(Plan) \in Nat
  BY PlanOK
<1>2. \A j \in 1..Len(Plan) : rows[j] \in Nat
  BY <1>1, PlanOK
<1>3. \A k : RowsUpTo(k) = SumUpTo(rows, k)
  BY DEF RowsUpTo
<1>4. n < Len(Plan) => rows[n + 1] = IF Plan[n + 1] \in Skipped THEN 0 ELSE NumRows[Plan[n + 1]]
  BY <1>1
<1> HIDE DEF rows
<1>5. RowsUpTo(n) \in Nat
  <2>1. \A j \in 1..n : rows[j] \in Nat
    BY <1>1, <1>2
  <2> QED
    BY <1>3, <2>1, SumType
<1>6. RowsUpTo(0) = 0
  <2>1. \A j \in 1..0 : rows[j] \in Nat
    OBVIOUS
  <2>2. 0 \in Nat
    OBVIOUS
  <2> QED
    BY <1>3, <2>1, <2>2, SumType
<1>7. ASSUME n < Len(Plan)
      PROVE  RowsUpTo(n + 1) = RowsUpTo(n) + rows[n + 1]
  <2>1. \A j \in 1..(n + 1) : rows[j] \in Nat
    BY <1>1, <1>2, <1>7
  <2> QED
    BY <1>3, <2>1, SumNext
<1> QED
  BY <1>4, <1>5, <1>6, <1>7

\* The rows of the tables visited are at most one table more than those settled.
LEMMA VisitedRows ==
  ASSUME TypeOK
  PROVE  /\ RowsUpTo(Len(outcome)) \in Nat /\ Visited \in Nat
         /\ RowsUpTo(Len(outcome)) <= Visited
         /\ Len(outcome) < Len(Plan) =>
              Visited = RowsUpTo(Len(outcome)) + IF Current \in Skipped THEN 0 ELSE NumRows[Current]
<1>1. /\ Len(outcome) \in Nat /\ Len(Plan) \in Nat /\ Len(outcome) <= Len(Plan)
  BY PlanOK DEF TypeOK
<1>2. CASE Len(outcome) < Len(Plan)
  <2>1. Visited = RowsUpTo(Len(outcome) + 1)
    BY <1>2 DEF Visited
  <2>2. /\ RowsUpTo(Len(outcome)) \in Nat
        /\ RowsUpTo(Len(outcome) + 1) = RowsUpTo(Len(outcome)) +
             IF Current \in Skipped THEN 0 ELSE NumRows[Current]
    BY <1>1, <1>2, RowsOfPlan DEF Current
  <2> QED
    BY <1>2, <2>1, <2>2, CurrentType
<1>3. CASE ~(Len(outcome) < Len(Plan))
  BY <1>1, <1>3, RowsOfPlan DEF Visited
<1> QED
  BY <1>2, <1>3

\* Within a table the counter is at most the rows visited, and never behind.
LEMMA TalliedIsBounded ==
  ASSUME TypeOK, NotSkipped, Tallied
  PROVE  total_rows_processed <= Visited
<1>1. /\ RowsUpTo(Len(outcome)) \in Nat /\ Visited \in Nat /\ total_rows_processed \in Nat
      /\ RowsUpTo(Len(outcome)) <= Visited /\ offset \in Nat
  BY VisitedRows DEF TypeOK
<1>2. CASE pc \in InTable
  <2>1. Len(outcome) < Len(Plan) /\ Current \notin Skipped
    BY <1>2 DEF TypeOK, NotSkipped, InTable
  <2>2. Visited = RowsUpTo(Len(outcome)) + NumRows[Current] /\ NumRows[Current] \in Nat
    BY <2>1, VisitedRows, CurrentType
  <2>3. pc # "raised" /\ Here = offset
    BY <1>2 DEF InTable, Here
  <2> QED
    BY <1>1, <1>2, <2>2, <2>3 DEF Tallied
<1>3. CASE pc \notin InTable
  BY <1>1, <1>3 DEF Tallied, Here
<1> QED
  BY <1>2, <1>3

\* A table ends: what is counted is what its rows add to the sum.
LEMMA SettleTallies ==
  ASSUME TypeOK, NEW o \in Outcomes, Settle(o), Len(outcome) < Len(Plan),
         UNCHANGED <<settings, total_rows_processed>>,
         total_rows_processed <= Visited,
         Clean /\ o # "failed" => total_rows_processed = Visited
  PROVE  Tallied'
<1>1. /\ Len(outcome) \in Nat /\ Len(outcome') = Len(outcome) + 1
      /\ \A k \in 1..Len(outcome) : outcome'[k] = outcome[k]
      /\ outcome'[Len(outcome) + 1] = o
      /\ pc' \in {"next", "returned"}
      /\ DOMAIN outcome' = 1..(Len(outcome) + 1) /\ DOMAIN outcome = 1..Len(outcome)
  BY SettleType DEF TypeOK
<1>2. Visited = RowsUpTo(Len(outcome')) /\ Visited \in Nat
  BY <1>1, VisitedRows DEF Visited
<1>3. Clean' => Clean /\ o # "failed"
  BY <1>1 DEF Clean
<1>4. pc' = "returned" => o = "failed"
  BY DEF Settle
<1>5. pc' \notin InTable /\ pc' # "raised" /\ pc' # "insert" /\ Here' = 0
  BY <1>1 DEF InTable, Here
<1>6. total_rows_processed \in Nat
  BY DEF TypeOK
<1> QED
  BY <1>2, <1>3, <1>4, <1>5, <1>6 DEF Tallied

\* A step that settles no table, counts n rows of the current one and does not
\* raise.
LEMMA CountedOn ==
  ASSUME TypeOK, Tallied, NEW n \in Nat, UNCHANGED <<settings, outcome>>,
         pc # "raised", pc' # "raised", pc' # "returned",
         total_rows_processed' = total_rows_processed + n, Here' = Here + n,
         pc' \in InTable => offset' <= NumRows[Current],
         pc' = "insert" => offset' + Cardinality(batch') <= NumRows[Current]
  PROVE  Tallied'
<1>1. RowsUpTo(Len(outcome)) \in Nat /\ total_rows_processed \in Nat /\ Here \in Nat
  BY VisitedRows DEF TypeOK, Here
<1>2. Clean' = Clean /\ Current' = Current
  BY DEF Clean, Current
<1>3. RowsUpTo(Len(outcome))' = RowsUpTo(Len(outcome))
  BY DEF RowsUpTo
<1> DEFINE done == RowsUpTo(Len(outcome))
<1>4. /\ total_rows_processed <= done + Here
      /\ Clean => total_rows_processed = done + Here
  BY DEF Tallied
<1>5. done' = done
  BY <1>3
<1> HIDE DEF done
<1>6. /\ total_rows_processed' <= done' + Here'
      /\ Clean' => total_rows_processed' = done' + Here'
  BY <1>1, <1>2, <1>4, <1>5 DEF done
<1> QED
  BY <1>2, <1>6 DEF Tallied, done

\* LIMIT and OFFSET return no more rows than there are left, in whatever order.
LEMMA BatchesWithin ==
  ASSUME NEW t \in Tables, NEW from \in Nat, from < NumRows[t], NEW rows \in Batches(t, from)
  PROVE  Cardinality(rows) \in Nat /\ from + Cardinality(rows) <= NumRows[t]
<1> DEFINE upto == IF from + BatchSize < NumRows[t] THEN from + BatchSize ELSE NumRows[t]
<1>1. NumRows[t] \in Nat /\ BatchSize \in Nat /\ upto \in Nat /\ from <= upto /\ upto <= NumRows[t]
  BY PlanOK, SettingsOK
<1> HIDE DEF upto
<1>2. Cardinality(rows) = upto - from
  <2>1. CASE StableScans
    <3>1. rows = (from + 1)..upto
      BY <2>1 DEF Batches, upto
    <3>2. from + 1 \in Int /\ upto \in Int
      BY <1>1
    <3>3. Cardinality((from + 1)..upto) = IF from + 1 > upto THEN 0 ELSE upto - (from + 1) + 1
      BY <3>2, FS_Interval
    <3> QED
      BY <1>1, <3>1, <3>3
  <2>2. CASE ~StableScans
    BY <2>2 DEF Batches, upto
  <2> QED
    BY <2>1, <2>2
<1> QED
  BY <1>1, <1>2

LEMMA StepsAreTallied ==
  ASSUME TypeOK, NotSkipped, Tallied, [Next]_vars
  PROVE  Tallied'
<1>1. total_rows_processed <= Visited
  BY TalliedIsBounded
<1>2. /\ total_rows_processed \in Nat /\ offset \in Nat /\ RowsUpTo(Len(outcome)) \in Nat
      /\ Len(outcome) < Len(Plan) => NumRows[Current] \in Nat
  BY VisitedRows, CurrentType DEF TypeOK
<1>3. CASE SkipTable
  <2>1. Settle("skipped") /\ Len(outcome) < Len(Plan) /\ Current \in Skipped
        /\ pc = "next" /\ UNCHANGED <<settings, total_rows_processed>>
    BY <1>3 DEF SkipTable, given
  <2>2. Visited = RowsUpTo(Len(outcome)) /\ Here = 0
    BY <1>2, <2>1, VisitedRows DEF Here, InTable
  <2>3. Clean => total_rows_processed = Visited
    BY <1>2, <2>1, <2>2 DEF Tallied
  <2> QED
    BY <1>1, <2>1, <2>3, SettleTallies DEF Outcomes
<1>4. CASE FetchNothing
  <2>1. Settle("completed") /\ pc = "fetch" /\ offset >= NumRows[Current]
        /\ UNCHANGED <<settings, total_rows_processed>>
    BY <1>4 DEF FetchNothing, given
  <2>2. Len(outcome) < Len(Plan) /\ Current \notin Skipped /\ Here = offset
    BY <2>1 DEF TypeOK, NotSkipped, InTable, Here
  <2>3. Visited = RowsUpTo(Len(outcome)) + NumRows[Current] /\ offset = NumRows[Current]
    BY <1>2, <2>1, <2>2, VisitedRows DEF Tallied, InTable
  <2>4. Clean => total_rows_processed = Visited
    BY <2>1, <2>2, <2>3 DEF Tallied
  <2> QED
    BY <1>1, <2>1, <2>2, <2>4, SettleTallies DEF Outcomes
<1>5. CASE SkipData
  <2>1. Settle("completed") /\ Len(outcome) < Len(Plan) /\ ~Clean
        /\ UNCHANGED <<settings, total_rows_processed>>
    BY <1>5 DEF SkipData, Clean, given, TypeOK
  <2> QED
    BY <1>1, <2>1, SettleTallies DEF Outcomes
<1>6. CASE GiveUp \/ CreateFails \/ (FetchFails /\ ~(retry_count < MaxRetries))
  <2>1. Settle("failed") /\ Len(outcome) < Len(Plan) /\ UNCHANGED <<settings, total_rows_processed>>
    BY <1>6 DEF GiveUp, CreateFails, FetchFails, given, TypeOK
  <2> QED
    BY <1>1, <2>1, SettleTallies DEF Outcomes
<1>7. CASE BeginTable
  <2>1. /\ Len(outcome) < Len(Plan) /\ pc = "next" /\ pc' = "create" /\ offset' = 0
        /\ UNCHANGED <<settings, outcome, total_rows_processed>>
    BY <1>7 DEF BeginTable, given
  <2>2. Here' = Here + 0 /\ total_rows_processed' = total_rows_processed + 0
    BY <1>2, <2>1 DEF Here, InTable
  <2> QED
    BY <1>2, <2>1, <2>2, CountedOn
<1>8. CASE Return
  <2>1. /\ pc = "next" /\ pc' = "returned" /\ Len(outcome) = Len(Plan)
        /\ UNCHANGED <<settings, outcome, total_rows_processed>>
    BY <1>8 DEF Return, given
  <2>2. Here = 0 /\ Here' = 0 /\ pc' \notin InTable
    BY <2>1 DEF Here, InTable
  <2> QED
    BY <2>1, <2>2 DEF Tallied, Clean, RowsUpTo
<1>9. CASE CreateTable \/ TruncateTable \/ NothingToTruncate \/ TruncateFails \/ Report
           \/ InsertNowhere \/ InsertFails \/ (FetchFails /\ retry_count < MaxRetries)
  <2>1. /\ pc \in InTable /\ pc' \in InTable
        /\ pc' = "insert" => pc = "insert"
        /\ UNCHANGED <<settings, outcome, total_rows_processed, offset, batch>>
    <3>1. CASE CreateTable \/ TruncateTable \/ NothingToTruncate
      BY <3>1 DEF CreateTable, TruncateTable, NothingToTruncate, given, local, InTable
    <3>2. CASE TruncateFails \/ Report \/ (FetchFails /\ retry_count < MaxRetries)
      BY <3>2 DEF TruncateFails, Report, FetchFails, given, local, InTable
    <3>3. CASE InsertNowhere \/ InsertFails
      BY <3>3 DEF InsertNowhere, InsertFails, RetryInsert, given, InTable
    <3> QED
      BY <1>9, <3>1, <3>2, <3>3
  <2>2. Here' = Here + 0 /\ total_rows_processed' = total_rows_processed + 0
    BY <1>2, <2>1 DEF Here
  <2>3. pc # "raised" /\ pc' # "raised" /\ pc' # "returned"
    BY <2>1 DEF InTable
  <2> QED
    BY <2>1, <2>2, <2>3, CountedOn DEF Tallied
<1>10. CASE FetchBatch
  <2>1. /\ pc = "fetch" /\ pc' = "insert" /\ offset < NumRows[Current]
        /\ batch' \in Batches(Current, offset) /\ Len(outcome) < Len(Plan)
        /\ UNCHANGED <<settings, outcome, total_rows_processed, offset>>
    BY <1>10 DEF FetchBatch, given, TypeOK
  <2>2. offset + Cardinality(batch') <= NumRows[Current]
    BY <1>2, <2>1, CurrentType, BatchesWithin
  <2>3. Here' = Here + 0 /\ total_rows_processed' = total_rows_processed + 0
    BY <1>2, <2>1 DEF Here, InTable
  <2>4. offset' <= NumRows[Current]
    BY <1>2, <2>1
  <2> QED
    BY <2>1, <2>2, <2>3, <2>4, CountedOn
<1>11. CASE InsertBatch
  <2>1. /\ pc = "insert" /\ pc' = "report" /\ Len(outcome) < Len(Plan)
        /\ offset' = offset + Cardinality(batch)
        /\ total_rows_processed' = total_rows_processed + Cardinality(batch)
        /\ UNCHANGED <<settings, outcome>>
    BY <1>11 DEF InsertBatch, given, TypeOK
  <2>2. Cardinality(batch) \in Nat
    BY <2>1, CurrentType, RowsFinite DEF TypeOK
  <2>3. Here' = Here + Cardinality(batch) /\ offset' <= NumRows[Current]
    BY <1>2, <2>1, <2>2 DEF Here, InTable, Tallied
  <2> QED
    BY <2>1, <2>2, <2>3, CountedOn
<1>12. CASE CallbackRaises
  <2>1. pc' = "raised" /\ UNCHANGED <<outcome, total_rows_processed>>
    BY <1>12 DEF CallbackRaises
  <2> QED
    BY <1>1, <2>1 DEF Tallied, Visited, InTable
<1>13. CASE Rerun
  <2>1. outcome' = <<>> /\ pc' = "next" /\ total_rows_processed' = 0
    BY <1>13 DEF Rerun
  <2>2. Len(outcome') = 0 /\ RowsUpTo(0) = 0
    BY <2>1, RowsOfPlan, PlanOK
  <2>3. RowsUpTo(Len(outcome))' = 0
    BY <2>2
  <2>4. Here' = 0
    BY <2>1 DEF Here, InTable
  <2> QED
    BY <2>1, <2>3, <2>4 DEF Tallied, InTable
<1>14. CASE UNCHANGED vars
  BY <1>14 DEF vars, given, local, Tallied, Clean, Visited, Here, RowsUpTo, Current
<1> QED
  BY <1>3, <1>4, <1>5, <1>6, <1>7, <1>8, <1>9, <1>10, <1>11, <1>12, <1>13, <1>14
     DEF Next, Step, Failure

(* total_rows_processed, which on_progress() writes and complete_migration()     *)
(* puts in the row: whatever fails and is tried again, and in whatever order      *)
(* the pages come, it never exceeds the rows of the tables visited so far, and    *)
(* it is all the rows of the plan when every table was completed or skipped.      *)
THEOREM CountedRowsAreTheRows == Spec => []CountsAreRight
<1>1. TypeOK /\ Init => Tallied
  <2> SUFFICES ASSUME TypeOK, Init
               PROVE  Tallied
    OBVIOUS
  <2>1. outcome = <<>> /\ pc = "next" /\ total_rows_processed = 0 /\ Len(outcome) = 0
    BY DEF Init
  <2>2. RowsUpTo(Len(outcome)) = 0
    BY <2>1, RowsOfPlan, PlanOK
  <2> QED
    BY <2>1, <2>2 DEF Tallied, InTable, Here
<1>2. TypeOK /\ NotSkipped /\ Tallied /\ [Next]_vars => Tallied'
  BY StepsAreTallied
<1>3. TypeOK /\ NotSkipped /\ Tallied => CountsAreRight
  <2> SUFFICES ASSUME TypeOK, NotSkipped, Tallied
               PROVE  CountsAreRight
    OBVIOUS
  <2>1. total_rows_processed <= Visited
    BY TalliedIsBounded
  <2>2. ASSUME pc = "returned", Clean
        PROVE  total_rows_processed = RowsUpTo(Len(Plan))
    <3>1. Len(outcome) = Len(Plan) /\ Here = 0
      BY <2>2 DEF Tallied, Here, InTable
    <3> QED
      BY <2>2, <3>1, VisitedRows DEF Tallied, TypeOK
  <2> QED
    BY <2>1, <2>2 DEF CountsAreRight, Visited, Clean
<1> QED
  BY <1>1, <1>2, <1>3, ExecutorTypeCorrect, NotSkippedInvariant, PTL DEF Spec

=============================================================================
