------------------------ MODULE MigrationPlannerProofs ------------------------
(***************************************************************************)
(* What holds of MigrationPlanner for any request, catalogs, kinds of       *)
(* databases and failing reads.                                             *)
(***************************************************************************)
EXTENDS MigrationPlanner, FiniteSetTheorems

-----------------------------------------------------------------------------
(* Helpers.                                                                *)

\* The table plans are a sequence, whatever they are.
IsSequence(q) == q \in Seq({q[k] : k \in DOMAIN q})

LEMMA AppendedSequence ==
  ASSUME NEW q, IsSequence(q), NEW e
  PROVE  /\ IsSequence(Append(q, e))
         /\ Len(q) \in Nat /\ Len(Append(q, e)) = Len(q) + 1
         /\ DOMAIN q = 1..Len(q) /\ DOMAIN Append(q, e) = 1..(Len(q) + 1)
         /\ \A k \in 1..Len(q) : Append(q, e)[k] = q[k]
         /\ Append(q, e)[Len(q) + 1] = e
<1> DEFINE old == {q[k] : k \in DOMAIN q}
           all == old \cup {e}
           longer == Append(q, e)
<1>1. q \in Seq(old)
  BY DEF IsSequence
<1> HIDE DEF old
<1>2. q \in Seq(all)
  BY <1>1
<1>3. /\ longer \in Seq(all) /\ Len(q) \in Nat /\ Len(longer) = Len(q) + 1
      /\ DOMAIN q = 1..Len(q) /\ DOMAIN longer = 1..(Len(q) + 1)
      /\ \A k \in 1..Len(q) : longer[k] = q[k]
      /\ longer[Len(q) + 1] = e
  BY <1>2
<1>4. IsSequence(longer)
  <2>1. \A k \in 1..Len(longer) : longer[k] \in {longer[j] : j \in DOMAIN longer}
    BY <1>3
  <2> HIDE DEF longer
  <2>2. longer \in Seq({longer[j] : j \in DOMAIN longer})
    BY <1>3, <2>1
  <2> QED
    BY <2>2 DEF IsSequence
<1> QED
  BY <1>3, <1>4

LEMMA KindsType ==
  ASSUME kinds \in Kinds
  PROVE  kinds[1] \in DatabaseTypes /\ kinds[2] \in DatabaseTypes
BY KindsOK

\* A count that is not what the table has is one of PostgreSQL's estimates.
Counted(schema, rows) ==
  \/ schema.row_count = rows
  \/ kinds[1] = "postgres" /\ schema.row_count > EstimateAbove

\* A schema that was read is that of one of the catalogs, with a number of rows.
LEMMA AnswersCount ==
  ASSUME NEW kind \in DatabaseTypes, NEW t \in Tables,
         NEW catalog \in SourceTables[kind][t], NEW schema \in Answers(kind, {catalog})
  PROVE  /\ schema \in Answers(kind, SourceTables[kind][t])
         /\ schema.row_count \in Nat /\ catalog.rows \in Nat
         /\ schema.row_count = catalog.rows \/ (kind = "postgres" /\ schema.row_count > EstimateAbove)
<1> DEFINE Schema(t1, n) ==
             [columns |-> [c \in DOMAIN t1.columns |-> Discovered(kind, t1.columns[c])],
              primary_keys |-> t1.primary_keys, row_count |-> n]
<1>1. PICK n \in RowCounts(kind, catalog.rows) : schema = Schema(catalog, n)
  BY DEF Answers
<1>2. catalog.rows \in Nat
  BY CatalogsOK
<1>3. n \in Nat /\ (n = catalog.rows \/ (kind = "postgres" /\ n > EstimateAbove))
  BY <1>1, <1>2, CatalogsOK DEF RowCounts
<1>4. schema.row_count = n
  BY <1>1
<1>5. schema \in Answers(kind, SourceTables[kind][t])
  <2> DEFINE OfCatalog(t1) == {Schema(t1, m) : m \in RowCounts(kind, t1.rows)}
  <2>1. schema \in OfCatalog(catalog)
    BY <1>1
  <2>2. Answers(kind, SourceTables[kind][t]) = UNION {OfCatalog(t1) : t1 \in SourceTables[kind][t]}
    BY DEF Answers
  <2> HIDE DEF OfCatalog
  <2> QED
    BY <2>1, <2>2
<1> QED
  BY <1>2, <1>3, <1>4, <1>5

\* Every judgement is about the table at hand, and says that it was read.
JudgementKinds == WarningKinds \ {"source_unreadable"}

LEMMA JudgementType ==
  ASSUME NEW dst
  PROVE  Judgement(dst) \subseteq JudgementKinds \X {index + 1}
<1>1. Concerns(index + 1, src_schema, dst) \subseteq JudgementKinds \X {index + 1}
  BY DEF Concerns, JudgementKinds, WarningKinds
<1> QED
  BY <1>1 DEF Judgement, JudgementKinds, WarningKinds

\* What the loop body does with the table once its schemas are known.
Planned(dst, concerns) ==
  /\ pc \in {"exists", "destination"}
  /\ Skip(dst) \/ Include(dst)
  /\ warnings' = warnings \cup concerns
  /\ NextTable
  /\ faults' \in 0..MaxFaults
  /\ UNCHANGED <<kinds, src_schema, rows_then>>

\* Every step is one of these.
LEMMA StepsAre ==
  ASSUME TypeOK, [Next]_vars
  PROVE  \/ \E dst, concerns : Planned(dst, concerns) /\ concerns \subseteq JudgementKinds \X {index + 1}
         \/ SourceUnreadable
         \/ /\ UNCHANGED <<kinds, index, rows_planned, table_plans, total_rows, warnings>>
            /\ ReadSource \/ Exists \/ ExistsRaises \/ Return \/ UNCHANGED vars
<1>1. CASE NotThere
  <2>1. Planned(Missing, Judgement(Missing))
    BY <1>1 DEF NotThere, Planned, TypeOK
  <2> QED
    BY <2>1, JudgementType
<1>2. CASE ReadDestination
  <2>1. PICK dst : (Skip(dst) \/ Include(dst)) /\ warnings' = warnings \cup Judgement(dst)
    BY <1>2 DEF ReadDestination
  <2>2. Planned(dst, Judgement(dst))
    BY <1>2, <2>1 DEF ReadDestination, Planned, TypeOK
  <2> QED
    BY <2>2, JudgementType
<1>3. CASE DestinationUnreadable
  <2> DEFINE concerns == {<<"destination_unreadable", index + 1>>} \cup Judgement(Missing)
  <2>1. faults' \in 0..MaxFaults
    BY <1>3, FaultsOK DEF DestinationUnreadable, Fault, TypeOK
  <2>2. Planned(Missing, concerns)
    BY <1>3, <2>1 DEF DestinationUnreadable, Planned
  <2>3. concerns \subseteq JudgementKinds \X {index + 1}
    BY JudgementType DEF JudgementKinds, WarningKinds
  <2> QED
    BY <2>2, <2>3
<1>4. CASE ReadSource \/ Exists \/ ExistsRaises \/ Return \/ UNCHANGED vars
  BY <1>4 DEF ReadSource, Exists, ExistsRaises, Return, vars
<1> QED
  BY <1>1, <1>2, <1>3, <1>4 DEF Next

-----------------------------------------------------------------------------
(* Type correctness.                                                       *)

\* Also the rows of what is planned are numbers, and the plans a sequence; and the
\* counts are right or estimated.
Shaped ==
  /\ TypeOK
  /\ IsSequence(table_plans) /\ rows_planned \in Seq(Nat)
  /\ pc \in {"exists", "destination"} => src_schema.row_count \in Nat /\ Counted(src_schema, rows_then)
  /\ \A k \in DOMAIN table_plans :
       /\ table_plans[k].source_schema.row_count \in Nat
       /\ Counted(table_plans[k].source_schema, rows_planned[k])

LEMMA PlannedIsOne ==
  ASSUME Shaped, NEW dst, NEW concerns, Planned(dst, concerns)
  PROVE  /\ index < Len(Requested) /\ index \in Nat /\ index' = index + 1
         /\ IsSequence(table_plans') /\ Len(table_plans) \in Nat
         /\ Len(table_plans') = Len(table_plans) + 1
         /\ DOMAIN table_plans = 1..Len(table_plans)
         /\ DOMAIN table_plans' = 1..(Len(table_plans) + 1)
         /\ \A k \in 1..Len(table_plans) : table_plans'[k] = table_plans[k]
         /\ \/ Skip(dst) /\ table_plans'[Len(table_plans) + 1] = TablePlan(dst, <<>>, "skipped")
            \/ /\ Include(dst)
               /\ table_plans'[Len(table_plans) + 1]
                    = TablePlan(dst, ColumnMappings(src_schema, dst), "pending")
         /\ src_schema.row_count \in Nat /\ TableName = Requested[index + 1]
         /\ Counted(src_schema, rows_then)
         /\ rows_planned' \in Seq(Nat) /\ Len(rows_planned') = Len(table_plans) + 1
         /\ \A k \in 1..Len(table_plans) : rows_planned'[k] = rows_planned[k] /\ rows_planned[k] \in Nat
         /\ rows_planned'[Len(table_plans) + 1] = rows_then /\ rows_then \in Nat
<1>1. index < Len(Requested) /\ index \in Nat /\ index' = index + 1
  BY RequestOK DEF Shaped, TypeOK, Planned, NextTable
<1>2. src_schema.row_count \in Nat /\ Counted(src_schema, rows_then)
  BY DEF Shaped, Planned
<1>3. PICK e : /\ table_plans' = Append(table_plans, e)
               /\ \/ Skip(dst) /\ e = TablePlan(dst, <<>>, "skipped")
                  \/ Include(dst) /\ e = TablePlan(dst, ColumnMappings(src_schema, dst), "pending")
  BY DEF Planned, Skip, Include, Planning
<1>4. IsSequence(table_plans)
  BY DEF Shaped
<1>5. /\ rows_planned' = Append(rows_planned, rows_then) /\ rows_planned \in Seq(Nat)
      /\ rows_then \in Nat /\ Len(rows_planned) = Len(table_plans)
  BY DEF Planned, Skip, Include, Planning, Shaped, TypeOK
<1>6. /\ rows_planned' \in Seq(Nat) /\ Len(rows_planned') = Len(table_plans) + 1
      /\ \A k \in 1..Len(table_plans) : rows_planned'[k] = rows_planned[k] /\ rows_planned[k] \in Nat
      /\ rows_planned'[Len(table_plans) + 1] = rows_then
  BY <1>5
<1> QED
  BY <1>1, <1>2, <1>3, <1>4, <1>5, <1>6, AppendedSequence DEF TableName

\* The loop visits each position once and in order; a schema it judges is one that
\* the source has answered for that very table, not for the one before.
LEMMA ShapedInvariant == Spec => []Shaped
<1>1. Init => Shaped
  <2> SUFFICES ASSUME Init
               PROVE  Shaped
    OBVIOUS
  <2>1. IsSequence(table_plans) /\ Len(table_plans) = 0 /\ DOMAIN table_plans = {}
    BY DEF Init, IsSequence
  <2>3. rows_planned \in Seq(Nat) /\ Len(rows_planned) = 0 /\ rows_then \in Nat
    BY DEF Init
  <2>2. 0 \in 0..Len(Requested) /\ 0 \in 0..MaxFaults
    BY RequestOK, FaultsOK
  <2> QED
    BY <2>1, <2>2, <2>3 DEF Init, Shaped, TypeOK
<1>2. Shaped /\ [Next]_vars => Shaped'
  <2> SUFFICES ASSUME Shaped, [Next]_vars
               PROVE  Shaped'
    OBVIOUS
  <2>0. TypeOK
    BY DEF Shaped
  <2>1. CASE \E dst, concerns : Planned(dst, concerns) /\ concerns \subseteq JudgementKinds \X {index + 1}
    <3>1. PICK dst, concerns : Planned(dst, concerns) /\ concerns \subseteq JudgementKinds \X {index + 1}
      BY <2>1
    <3> DEFINE n == Len(table_plans)
    <3>2. /\ index < Len(Requested) /\ index \in Nat /\ index' = index + 1 /\ n \in Nat
          /\ IsSequence(table_plans') /\ Len(table_plans') = n + 1
          /\ DOMAIN table_plans = 1..n /\ DOMAIN table_plans' = 1..(n + 1)
          /\ \A k \in 1..n : table_plans'[k] = table_plans[k]
          /\ src_schema.row_count \in Nat /\ Counted(src_schema, rows_then)
          /\ rows_planned' \in Seq(Nat) /\ Len(rows_planned') = n + 1
          /\ \A k \in 1..n : rows_planned'[k] = rows_planned[k]
          /\ rows_planned'[n + 1] = rows_then /\ rows_then \in Nat
      BY <3>1, PlannedIsOne
    <3>0. kinds' = kinds /\ rows_then' = rows_then
      BY <3>1 DEF Planned
    <3>3. table_plans'[n + 1].status \in {"pending", "skipped"}
          /\ table_plans'[n + 1].source_schema = src_schema
      <4>1. \/ table_plans'[n + 1] = TablePlan(dst, <<>>, "skipped")
            \/ table_plans'[n + 1] = TablePlan(dst, ColumnMappings(src_schema, dst), "pending")
        BY <3>1, PlannedIsOne
      <4> QED
        BY <4>1 DEF TablePlan
    <3>4. \A k \in DOMAIN table_plans' :
            /\ table_plans'[k].status \in {"pending", "skipped"}
            /\ table_plans'[k].source_schema.row_count \in Nat
            /\ Counted(table_plans[k].source_schema, rows_planned[k])'
      <4> TAKE k \in DOMAIN table_plans'
      <4>1. CASE k = n + 1
        BY <3>0, <3>2, <3>3, <4>1 DEF Counted
      <4>2. CASE k # n + 1
        <5>1. k \in DOMAIN table_plans /\ k \in 1..n
          BY <3>2, <4>2
        <5>2. /\ table_plans[k].status \in {"pending", "skipped"}
              /\ table_plans[k].source_schema.row_count \in Nat
              /\ Counted(table_plans[k].source_schema, rows_planned[k])
          BY <5>1 DEF Shaped, TypeOK
        <5>3. table_plans'[k] = table_plans[k] /\ rows_planned'[k] = rows_planned[k]
          BY <3>2, <5>1
        <5> QED
          BY <3>0, <5>2, <5>3 DEF Counted
      <4> QED
        BY <4>1, <4>2
    <3>5. total_rows' \in Nat
      BY <2>0, <3>1, <3>2 DEF Planned, Skip, Include, TypeOK
    <3>6. warnings' \subseteq WarningKinds \X Positions
      <4>1. index + 1 \in Positions
        BY <3>2, RequestOK DEF Positions
      <4> QED
        BY <2>0, <3>1, <4>1 DEF Planned, TypeOK, JudgementKinds
    <3>7. /\ index' \in 0..Len(Requested) /\ Len(table_plans') <= index'
      BY <2>0, <3>2, RequestOK DEF TypeOK
    <3>8. kinds' \in Kinds /\ faults' \in 0..MaxFaults /\ pc' = "source"
      BY <2>0, <3>1 DEF Planned, NextTable, TypeOK
    <3> QED
      BY <3>0, <3>2, <3>4, <3>5, <3>6, <3>7, <3>8 DEF Shaped, TypeOK, Positions
  <2>2. CASE SourceUnreadable
    <3>1. index' = index + 1 /\ index < Len(Requested) /\ index \in Nat /\ pc' = "source"
          /\ UNCHANGED <<kinds, rows_then, rows_planned, table_plans, total_rows>>
      BY <2>0, <2>2, RequestOK DEF SourceUnreadable, NextTable, TypeOK
    <3>2. warnings' \subseteq WarningKinds \X Positions
      <4>1. index + 1 \in Positions
        BY <3>1, RequestOK DEF Positions
      <4> QED
        BY <2>0, <2>2, <4>1 DEF SourceUnreadable, TypeOK, WarningKinds
    <3>3. faults' \in 0..MaxFaults
      BY <2>0, <2>2, FaultsOK DEF SourceUnreadable, Fault, TypeOK
    <3>4. index' \in 0..Len(Requested) /\ Len(table_plans') <= index'
      <4>1. Len(table_plans) \in Nat
        BY AppendedSequence DEF Shaped
      <4> QED
        BY <2>0, <3>1, <4>1, RequestOK DEF TypeOK
    <3> QED
      BY <2>0, <3>1, <3>2, <3>3, <3>4 DEF Shaped, TypeOK, Positions, Counted
  <2>3. CASE /\ UNCHANGED <<kinds, index, rows_planned, table_plans, total_rows, warnings>>
             /\ ReadSource \/ Exists \/ ExistsRaises \/ Return \/ UNCHANGED vars
    <3>1. /\ pc' \in {"source", "exists", "destination", "returned", "raised"}
          /\ pc' \in {"exists", "destination"} =>
               /\ index' < Len(Requested)
               /\ src_schema' \in Answers(kinds'[1], SourceTables[kinds'[1]][Requested[index' + 1]])
          /\ pc' \in {"exists", "destination"} =>
               src_schema'.row_count \in Nat /\ Counted(src_schema, rows_then)'
          /\ faults' \in 0..MaxFaults /\ rows_then' \in Nat
      <4>1. CASE ReadSource
        <5>1. PICK catalog \in SourceTables[kinds[1]][TableName] :
                src_schema' \in Answers(kinds[1], {catalog}) /\ rows_then' = catalog.rows
          BY <4>1 DEF ReadSource
        <5>2. kinds[1] \in DatabaseTypes /\ TableName \in Tables
          BY <2>0, <4>1, KindsType, RequestOK DEF ReadSource, TypeOK, TableName
        <5>3. /\ src_schema' \in Answers(kinds[1], SourceTables[kinds[1]][TableName])
              /\ src_schema'.row_count \in Nat /\ rows_then' \in Nat
              /\ Counted(src_schema, rows_then)'
          BY <2>3, <5>1, <5>2, AnswersCount DEF Counted
        <5> QED
          BY <2>0, <2>3, <4>1, <5>3 DEF ReadSource, TypeOK, TableName
      <4>2. CASE Exists \/ Return \/ UNCHANGED vars
        BY <2>0, <2>3, <4>2 DEF Exists, Return, vars, TypeOK, TableName, Shaped, Counted
      <4>3. CASE ExistsRaises
        BY <2>0, <4>3, FaultsOK DEF ExistsRaises, Fault, TypeOK
      <4> QED
        BY <2>3, <4>1, <4>2, <4>3
    <3> QED
      BY <2>0, <2>3, <3>1 DEF Shaped, TypeOK, TableName, Positions, Counted
  <2> QED
    BY <2>0, <2>1, <2>2, <2>3, StepsAre
<1> QED
  BY <1>1, <1>2, PTL DEF Spec

(* Whatever the databases answer and which reads fail: the loop ends at the last *)
(* requested table, and its body never sees the schema of another table.        *)
THEOREM PlannerTypeCorrect == Spec => []TypeOK
<1>1. Shaped => TypeOK
  BY DEF Shaped
<1> QED
  BY <1>1, ShapedInvariant, PTL

-----------------------------------------------------------------------------
(* The tables of the plan are those of the request.                        *)

\* No position is warned about before its turn.
Placed ==
  /\ PlansEveryTable
  /\ \A i : <<"source_unreadable", i>> \in warnings => i \in 1..index

LEMMA ReadableFinite ==
  ASSUME index \in Nat, NEW n
  PROVE  /\ IsFiniteSet(Readable) /\ Cardinality(Readable) \in Nat
         /\ IsFiniteSet({j \in Readable : j <= n})
         /\ Place(n) \in Nat /\ Place(n) <= Cardinality(Readable)
<1>1. IsFiniteSet(1..index)
  BY FS_Interval
<1>2. IsFiniteSet(Readable)
  BY <1>1, FS_Subset DEF Readable
<1>3. {j \in Readable : j <= n} \in SUBSET Readable
  OBVIOUS
<1> QED
  BY <1>2, <1>3, FS_Subset, FS_CardinalityType DEF Place

\* A readable position has a place, within the plan.
LEMMA PlaceType ==
  ASSUME index \in Nat, NEW i \in Readable
  PROVE  Place(i) \in 1..Cardinality(Readable)
<1>1. i \in {j \in Readable : j <= i}
  BY DEF Readable
<1>2. Place(i) # 0
  BY <1>1, ReadableFinite, FS_EmptySet DEF Place
<1>3. Place(i) \in Nat /\ Place(i) <= Cardinality(Readable) /\ Cardinality(Readable) \in Nat
  BY ReadableFinite
<1> QED
  BY <1>2, <1>3

\* The next position comes last, if its schema could be read.
LEMMA OneMoreReadable ==
  ASSUME index \in Nat, Placed, NEW next, next = index + 1, index' = next,
         NEW concerns, warnings' = warnings \cup concerns,
         concerns \subseteq JudgementKinds \X {index + 1}
  PROVE  /\ Readable' = Readable \cup {next} /\ next \notin Readable
         /\ Cardinality(Readable)' = Cardinality(Readable) + 1
         /\ \A i \in Readable : Place(i)' = Place(i)
         /\ Place(next)' = Cardinality(Readable) + 1
<1>1. \A i : <<"source_unreadable", i>> \in warnings' <=> <<"source_unreadable", i>> \in warnings
  BY DEF JudgementKinds
<1>2. Readable' = Readable \cup {next} /\ next \notin Readable
  BY <1>1 DEF Readable, Placed
<1>3. IsFiniteSet(Readable) /\ Cardinality(Readable) \in Nat
  BY ReadableFinite
<1>4. Cardinality(Readable') = Cardinality(Readable) + 1
  BY <1>2, <1>3, FS_AddElement
<1>5. ASSUME NEW i \in Readable
      PROVE  Place(i)' = Place(i)
  <2>1. {j \in Readable' : j <= i} = {j \in Readable : j <= i}
    BY <1>2 DEF Readable
  <2> QED
    BY <2>1 DEF Place
<1>6. Place(next)' = Cardinality(Readable) + 1
  <2>1. {j \in Readable' : j <= next} = Readable'
    BY <1>2 DEF Readable
  <2> QED
    BY <1>4, <2>1 DEF Place
<1> QED
  BY <1>2, <1>4, <1>5, <1>6

(* A table is only missing from the plan when a warning says that the source    *)
(* could not be read: none is lost, none planned twice, and none takes another's *)
(* place, also when the request names a table more than once.                   *)
THEOREM PlansAllTables == Spec => []PlansEveryTable
<1>1. Init => Placed
  <2> SUFFICES ASSUME Init
               PROVE  Placed
    OBVIOUS
  <2>1. Readable = {} /\ Len(table_plans) = 0
    BY DEF Init, Readable
  <2> QED
    BY <2>1, FS_EmptySet DEF Init, Placed, PlansEveryTable
<1>2. Shaped /\ Placed /\ [Next]_vars => Placed'
  <2> SUFFICES ASSUME Shaped, Placed, [Next]_vars
               PROVE  Placed'
    OBVIOUS
  <2>0. index \in Nat
    BY RequestOK DEF Shaped, TypeOK
  <2>1. CASE \E dst, concerns : Planned(dst, concerns) /\ concerns \subseteq JudgementKinds \X {index + 1}
    <3>1. PICK dst, concerns : Planned(dst, concerns) /\ concerns \subseteq JudgementKinds \X {index + 1}
      BY <2>1
    <3>2. warnings' = warnings \cup concerns
      BY <3>1 DEF Planned
    <3>3. /\ index' = index + 1 /\ Len(table_plans) \in Nat
          /\ Len(table_plans') = Len(table_plans) + 1
          /\ DOMAIN table_plans = 1..Len(table_plans)
          /\ \A k \in 1..Len(table_plans) : table_plans'[k] = table_plans[k]
      BY <3>1, PlannedIsOne
    <3>4. table_plans'[Len(table_plans) + 1].table_name = Requested[index + 1]
      <4>1. \/ table_plans'[Len(table_plans) + 1] = TablePlan(dst, <<>>, "skipped")
            \/ table_plans'[Len(table_plans) + 1]
                 = TablePlan(dst, ColumnMappings(src_schema, dst), "pending")
        BY <3>1, PlannedIsOne
      <4> QED
        BY <4>1 DEF TablePlan, TableName
    <3> PICK next : next = index + 1
      OBVIOUS
    <3>5. /\ Readable' = Readable \cup {next}
          /\ Cardinality(Readable)' = Cardinality(Readable) + 1
          /\ \A i \in Readable : Place(i)' = Place(i)
          /\ Place(next)' = Cardinality(Readable) + 1
      BY <2>0, <3>1, <3>2, <3>3, OneMoreReadable
    <3>6. Len(table_plans) = Cardinality(Readable)
      BY DEF Placed, PlansEveryTable
    <3>7. ASSUME NEW i \in Readable
          PROVE  table_plans'[Place(i)'].table_name = Requested[i]
      <4>1. Place(i) \in 1..Len(table_plans)
        BY <2>0, <3>6, PlaceType
      <4>2. table_plans'[Place(i)'] = table_plans[Place(i)]
        BY <3>3, <3>5, <4>1
      <4> QED
        BY <4>2 DEF Placed, PlansEveryTable
    <3>8. PlansEveryTable'
      <4>1. \A i \in Readable' : table_plans'[Place(i)'].table_name = Requested[i]
        BY <3>4, <3>5, <3>6, <3>7
      <4> QED
        BY <3>3, <3>5, <3>6, <4>1 DEF PlansEveryTable
    <3>9. \A i : <<"source_unreadable", i>> \in warnings' => i \in 1..index'
      BY <2>0, <3>1, <3>2, <3>3 DEF Placed, JudgementKinds
    <3> QED
      BY <3>8, <3>9 DEF Placed
  <2>2. CASE SourceUnreadable
    <3>1. /\ index' = index + 1 /\ table_plans' = table_plans
          /\ warnings' = warnings \cup {<<"source_unreadable", index + 1>>}
      BY <2>2 DEF SourceUnreadable, NextTable
    <3>2. Readable' = Readable
      BY <2>0, <3>1 DEF Readable, Placed
    <3>3. \A i : Place(i)' = Place(i)
      BY <3>2 DEF Place
    <3>4. \A i : <<"source_unreadable", i>> \in warnings' => i \in 1..index'
      BY <2>0, <3>1 DEF Placed
    <3> QED
      BY <3>1, <3>2, <3>3, <3>4 DEF Placed, PlansEveryTable
  <2>3. CASE UNCHANGED <<kinds, index, rows_planned, table_plans, total_rows, warnings>>
    <3>1. Readable' = Readable
      BY <2>3 DEF Readable
    <3>2. \A i : Place(i)' = Place(i)
      BY <3>1 DEF Place
    <3> QED
      BY <2>3, <3>1, <3>2 DEF Placed, PlansEveryTable
  <2> QED
    BY <2>1, <2>2, <2>3, StepsAre DEF Shaped
<1>3. Placed => PlansEveryTable
  BY DEF Placed
<1> QED
  BY <1>1, <1>2, <1>3, ShapedInvariant, PTL DEF Spec

-----------------------------------------------------------------------------
(* The total.                                                              *)

\* Another table adds its own rows, or an estimate of them, or none when it will
\* be skipped.
LEMMA TotalGrows ==
  ASSUME Shaped, NEW dst, NEW concerns, Planned(dst, concerns), TotalIsExact
  PROVE  TotalIsExact'
<1> DEFINE n == Len(table_plans)
<1>1. /\ n \in Nat /\ Len(table_plans') = n + 1
      /\ DOMAIN table_plans = 1..n /\ DOMAIN table_plans' = 1..(n + 1)
      /\ \A k \in 1..n : table_plans'[k] = table_plans[k]
      /\ src_schema.row_count \in Nat /\ kinds' = kinds
      /\ \A k \in 1..n : rows_planned'[k] = rows_planned[k] /\ rows_planned[k] \in Nat
      /\ rows_planned'[n + 1] = rows_then /\ rows_then \in Nat
      /\ Counted(src_schema, rows_then)
  BY PlannedIsOne DEF Planned
<1>2. CASE \E k \in DOMAIN table_plans : MayBeEstimated(table_plans[k])
  <2>1. PICK k \in 1..n : MayBeEstimated(table_plans[k])
    BY <1>1, <1>2
  <2>2. k \in DOMAIN table_plans' /\ MayBeEstimated(table_plans[k])'
    BY <1>1, <2>1 DEF MayBeEstimated
  <2> QED
    BY <2>2 DEF TotalIsExact
<1>3. CASE total_rows = SumUpTo(RowsToCopy, Len(table_plans))
  <2>1. n + 1 \in DOMAIN table_plans'
    BY <1>1
  <2>2. CASE \E k \in DOMAIN table_plans' : MayBeEstimated(table_plans[k])'
    BY <2>2 DEF TotalIsExact
  <2>3. CASE \A k \in DOMAIN table_plans' : ~MayBeEstimated(table_plans[k])'
    <3>1. \A k \in 1..n : RowsToCopy[k] \in Nat /\ RowsToCopy'[k] = RowsToCopy[k]
      BY <1>1 DEF RowsToCopy
    <3>2. total_rows' = total_rows + RowsToCopy'[n + 1] /\ RowsToCopy'[n + 1] \in Nat
      <4>1. total_rows \in Nat
        BY DEF Shaped, TypeOK
      <4>2. CASE Skip(dst) /\ table_plans'[n + 1] = TablePlan(dst, <<>>, "skipped")
        BY <2>1, <4>1, <4>2 DEF Skip, TablePlan, RowsToCopy
      <4>3. CASE /\ Include(dst)
                 /\ table_plans'[n + 1] = TablePlan(dst, ColumnMappings(src_schema, dst), "pending")
        <5>1. table_plans'[n + 1].status = "pending" /\ table_plans'[n + 1].source_schema = src_schema
          BY <4>3 DEF TablePlan
        <5>2. src_schema.row_count = rows_then
          BY <1>1, <2>1, <2>3, <5>1 DEF MayBeEstimated, Counted
        <5>3. RowsToCopy'[n + 1] = rows_then
          BY <1>1, <2>1, <5>1 DEF RowsToCopy
        <5> QED
          BY <1>1, <4>3, <5>2, <5>3 DEF Include
      <4> QED
        BY <4>2, <4>3, PlannedIsOne
    <3> HIDE DEF n
    <3>3. SumUpTo(RowsToCopy', n) = SumUpTo(RowsToCopy, n)
      BY <1>1, <3>1, SumSame
    <3>4. \A k \in 1..(n + 1) : RowsToCopy'[k] \in Nat
      <4> TAKE k \in 1..(n + 1)
      <4>1. CASE k = n + 1
        BY <3>2, <4>1
      <4>2. CASE k # n + 1
        BY <1>1, <3>1, <4>2
      <4> QED
        BY <4>1, <4>2
    <3>5. SumUpTo(RowsToCopy', n + 1) = SumUpTo(RowsToCopy', n) + RowsToCopy'[n + 1]
      BY <1>1, <3>4, SumNext
    <3>6. total_rows = SumUpTo(RowsToCopy, n)
      BY <1>3 DEF n
    <3>7. total_rows' = SumUpTo(RowsToCopy', n + 1)
      BY <3>2, <3>3, <3>5, <3>6
    <3> QED
      BY <1>1, <3>7 DEF TotalIsExact
  <2> QED
    BY <2>2, <2>3
<1> QED
  BY <1>2, <1>3 DEF TotalIsExact

(* However many tables are skipped or cannot be read: unless one of PostgreSQL's  *)
(* estimates went into it, total_rows is the number of rows that the tables to be *)
(* copied had when their schemas were read, the denominator of every percentage.  *)
THEOREM TotalCountsWhatIsCopied == Spec => []TotalIsExact
<1>1. Init => TotalIsExact
  <2> SUFFICES ASSUME Init
               PROVE  TotalIsExact
    OBVIOUS
  <2>1. 0 \in Nat /\ Len(table_plans) = 0 /\ total_rows = 0
    BY DEF Init
  <2>2. \A k \in 1..0 : RowsToCopy[k] \in Nat
    OBVIOUS
  <2>3. SumUpTo(RowsToCopy, 0) = 0
    BY <2>1, <2>2, SumType
  <2> QED
    BY <2>1, <2>3 DEF TotalIsExact
<1>2. Shaped /\ TotalIsExact /\ [Next]_vars => TotalIsExact'
  <2> SUFFICES ASSUME Shaped, TotalIsExact, [Next]_vars
               PROVE  TotalIsExact'
    OBVIOUS
  <2>1. CASE \/ SourceUnreadable
             \/ UNCHANGED <<kinds, index, rows_planned, table_plans, total_rows, warnings>>
    <3>1. UNCHANGED <<kinds, rows_planned, table_plans, total_rows>>
      BY <2>1 DEF SourceUnreadable
    <3>2. RowsToCopy' = RowsToCopy
      BY <3>1 DEF RowsToCopy
    <3> QED
      BY <3>1, <3>2 DEF TotalIsExact, MayBeEstimated
  <2> QED
    BY <2>1, StepsAre, TotalGrows DEF Shaped
<1> QED
  BY <1>1, <1>2, ShapedInvariant, PTL DEF Spec

-----------------------------------------------------------------------------
(* The rows of a planned table.                                            *)

\* Two types that both have a family and do not clash are in one of the six.
LEMMA OneFamily ==
  ASSUME NEW scol, NEW dcol, ~Clash(scol, dcol),
         Family(scol.data_type) # {}, Family(dcol.data_type) # {}
  PROVE  \E f \in TypeFamilies : scol.data_type \in f /\ dcol.data_type \in f
<1>1. Family(scol.data_type) = Family(dcol.data_type)
  BY DEF Clash
<1>2. \A t : Family(t) # {} => t \in Family(t)
  BY DEF Family
<1>3. scol.data_type \in Family(dcol.data_type)
  BY <1>1, <1>2
<1> QED
  BY <1>3 DEF Family

LEMMA DoubleHasNoFamily == \A f \in TypeFamilies : DoublePrecision \notin f
<1>1. UNION TypeFamilies =
        {"INTEGER", "SMALLINT", "BIGINT", "FLOAT", "DOUBLE", "DECIMAL", "NUMERIC"}
         \cup {"CHAR", "VARCHAR", "TEXT", "NCHAR", "NVARCHAR", "NTEXT"}
         \cup {"DATE", "TIME", "DATETIME", "TIMESTAMP", "TIMETZ", "TIMESTAMPTZ"}
         \cup {"BOOLEAN", "BOOL", "BIT"} \cup {"BLOB", "BYTEA", "BINARY", "VARBINARY"}
         \cup {"JSON", "JSONB"}
  BY SMT DEF TypeFamilies
<1>2. DoublePrecision \notin UNION TypeFamilies
  BY <1>1, Zenon DEF DoublePrecision
<1> QED
  BY <1>2, Zenon

\* A value of a type of one family, coerced, has a class that the driver of the
\* destination takes for every other type of it.
LEMMA ValueIsTaken ==
  ASSUME NEW from \in DatabaseTypes, NEW to \in DatabaseTypes, NEW scol, NEW dcol,
         NEW f \in TypeFamilies, scol.data_type \in f, dcol.data_type \in f,
         scol.data_type \notin OwnClasses, dcol.data_type \notin OwnClasses,
         NEW value, Gives(from, scol, value),
         value = "null" => dcol.is_nullable,
         value = "long" => dcol.max_length # 1,
         value = "decimal" => to # "sqlite"
  PROVE  Takes(to, dcol, Coerced(value, dcol.data_type))
<1> DEFINE given == Coerced(value, dcol.data_type)
<1>1. CASE value = "null"
  <2>1. given = "null"
    BY <1>1 DEF Coerced, Texts
  <2> QED
    BY <1>1, <2>1 DEF Takes
<1>2. CASE value # "null"
  <2>0. scol.data_type # DoublePrecision
    BY DoubleHasNoFamily
  <2>1. CASE f = {"INTEGER", "SMALLINT", "BIGINT", "FLOAT", "DOUBLE", "DECIMAL", "NUMERIC"}
    <3>1. value \in {"int", "float", "decimal"}
      BY <1>2, <2>1 DEF Gives, WholeNumbers, Floats, Decimals, Textual, Binary, Texts
    <3>2. given \in {"int", "float", "decimal"} /\ (given = "decimal" => value = "decimal")
      BY <2>1, <3>1 DEF Coerced
    <3> QED
      BY <2>1, <3>2 DEF Takes, DatabaseTypes, WholeNumbers, Floats, Decimals
  <2>2. CASE f = {"CHAR", "VARCHAR", "TEXT", "NCHAR", "NVARCHAR", "NTEXT"}
    <3>1. value \in Texts
      BY <1>2, <2>0, <2>2 DEF Gives, WholeNumbers, Floats, Decimals, Textual, Binary, Texts
    <3>2. given = value
      BY <2>2, <3>1 DEF Coerced, Texts
    <3> QED
      BY <2>2, <3>1, <3>2 DEF Takes, DatabaseTypes, Textual, Texts
  <2>3. CASE f = {"BOOLEAN", "BOOL", "BIT"}
    <3>1. scol.data_type = "BOOLEAN" /\ dcol.data_type = "BOOLEAN"
      BY <2>3 DEF OwnClasses
    <3>2. value \in {"int", "bool"}
      BY <1>2, <2>0, <3>1 DEF Gives, WholeNumbers, Floats, Decimals, Textual, Binary, Texts
    <3>3. given = "bool"
      BY <3>1, <3>2 DEF Coerced
    <3> QED
      BY <3>1, <3>3 DEF Takes, DatabaseTypes
  <2>4. CASE f = {"BLOB", "BYTEA", "BINARY", "VARBINARY"}
    <3>1. value = "bytes"
      BY <1>2, <2>0, <2>4 DEF Gives, WholeNumbers, Floats, Decimals, Textual, Binary, Texts
    <3>2. given = value
      BY <2>4, <3>1 DEF Coerced, Texts
    <3> QED
      BY <2>4, <3>1, <3>2 DEF Takes, DatabaseTypes, Binary
  <2>5. CASE f = {"JSON", "JSONB"}
    <3>1. value \in Texts
      BY <1>2, <2>0, <2>5 DEF Gives, WholeNumbers, Floats, Decimals, Textual, Binary, Texts
    <3>2. given = value
      BY <2>5, <3>1 DEF Coerced, Texts
    <3> QED
      BY <2>5, <3>1, <3>2 DEF Takes, DatabaseTypes, Textual, Texts
  <2>6. f # {"DATE", "TIME", "DATETIME", "TIMESTAMP", "TIMETZ", "TIMESTAMPTZ"}
    BY DEF OwnClasses
  <2> QED
    BY <2>1, <2>2, <2>3, <2>4, <2>5, <2>6 DEF TypeFamilies
<1> QED
  BY <1>1, <1>2

LEMMA MappingsType ==
  ASSUME NEW src, NEW dst
  PROVE  /\ DOMAIN ColumnMappings(src, dst) = DOMAIN src.columns
         /\ \A c \in DOMAIN src.columns :
              /\ ColumnMappings(src, dst)[c].include = (dst # Missing => c \in DOMAIN dst.columns)
              /\ dst # Missing /\ c \in DOMAIN dst.columns =>
                   ColumnMappings(src, dst)[c].dest_type = dst.columns[c].data_type
<1> DEFINE mapped(c) ==
             [dest_type |-> IF dst # Missing /\ c \in DOMAIN dst.columns
                            THEN dst.columns[c].data_type ELSE src.columns[c].data_type,
              include   |-> dst # Missing => c \in DOMAIN dst.columns]
<1>1. ColumnMappings(src, dst) = [c \in DOMAIN src.columns |-> mapped(c)]
  BY DEF ColumnMappings
<1>2. \A c : /\ mapped(c).include = (dst # Missing => c \in DOMAIN dst.columns)
             /\ dst # Missing /\ c \in DOMAIN dst.columns =>
                  mapped(c).dest_type = dst.columns[c].data_type
  OBVIOUS
<1> HIDE DEF mapped
<1> QED
  BY <1>1, <1>2

\* A plan that the validator has let pass, with the mapper's columns.
Passed(plan) ==
  plan.status = "pending" =>
    /\ ~Incompatible(plan.source_schema, plan.destination_schema)
    /\ plan.column_mappings = ColumnMappings(plan.source_schema, plan.destination_schema)

AllPassed == \A k \in DOMAIN table_plans : Passed(table_plans[k])

LEMMA PassedIsAccepted ==
  ASSUME kinds \in Kinds, NEW plan, Passed(plan), plan.status = "pending",
         plan.destination_schema # Missing,
         NEW row \in RowsOf(kinds[1], plan.source_schema), Ordinary(plan, row)
  PROVE  Accepts(kinds[2], plan.destination_schema, Transformed(plan, row))
<1> DEFINE src == plan.source_schema
           dst == plan.destination_schema
           shared == Shared(src, dst)
           sent == Transformed(plan, row)
<1>1. /\ ~Incompatible(src, dst) /\ dst # Missing
      /\ plan.column_mappings = ColumnMappings(src, dst)
  BY DEF Passed
<1>2. /\ DOMAIN plan.column_mappings = DOMAIN src.columns
      /\ \A c \in DOMAIN src.columns :
           /\ plan.column_mappings[c].include = (dst # Missing => c \in DOMAIN dst.columns)
           /\ dst # Missing /\ c \in DOMAIN dst.columns =>
                plan.column_mappings[c].dest_type = dst.columns[c].data_type
  BY <1>1, MappingsType
<1>3. {c \in DOMAIN plan.column_mappings : plan.column_mappings[c].include} = shared
  BY <1>2 DEF Shared
<1>4. shared # {}
  BY DEF Ordinary
<1>5. sent = [c \in shared |-> Coerced(row[c], plan.column_mappings[c].dest_type)]
  BY <1>3, <1>4 DEF Transformed
<1>6. ASSUME NEW c \in shared
      PROVE  Takes(kinds[2], dst.columns[c], sent[c])
  <2> DEFINE scol == src.columns[c]
             dcol == dst.columns[c]
  <2>1. c \in DOMAIN src.columns /\ c \in DOMAIN dst.columns
    BY DEF Shared
  <2>2. sent[c] = Coerced(row[c], dcol.data_type)
    BY <1>2, <1>5, <2>1
  <2>3. Gives(kinds[1], scol, row[c])
    BY <2>1 DEF RowsOf
  <2>4. ~Clash(scol, dcol)
    BY <1>1 DEF Incompatible
  <2>5. /\ Family(scol.data_type) # {} /\ scol.data_type \notin OwnClasses
        /\ Family(dcol.data_type) # {} /\ dcol.data_type \notin OwnClasses
        /\ row[c] = "null" => dcol.is_nullable
        /\ row[c] = "long" => dcol.max_length # 1
        /\ row[c] = "decimal" => kinds[2] # "sqlite"
    BY DEF Ordinary
  <2> HIDE DEF scol, dcol
  <2>6. PICK f \in TypeFamilies : scol.data_type \in f /\ dcol.data_type \in f
    BY <2>4, <2>5, OneFamily
  <2>7. Takes(kinds[2], dcol, Coerced(row[c], dcol.data_type))
    BY <2>3, <2>5, <2>6, KindsType, ValueIsTaken
  <2> QED
    BY <2>2, <2>7 DEF dcol
<1>7. DOMAIN sent = shared
  BY <1>5
<1>8. shared \subseteq DOMAIN dst.columns
  BY DEF Shared
<1>9. \A c \in DOMAIN dst.columns \ shared : ~Mandatory(dst.columns[c])
  BY <1>1 DEF Incompatible, Unmatched, Shared
<1> QED
  BY <1>6, <1>7, <1>8, <1>9 DEF Accepts

(* Validator, mapper and coercion agree for all schemas of all three databases:  *)
(* what passes is neither a column the destination lacks, nor a value of a class *)
(* its driver cannot take, nor a row without a mandatory column. Each hole that   *)
(* Ordinary names is one in which this is false.                                 *)
THEOREM PlannedTablesAreAccepted == Spec => []PlannedRowsAreAccepted
<1>1. Init => AllPassed
  <2> SUFFICES ASSUME Init
               PROVE  AllPassed
    OBVIOUS
  <2>1. DOMAIN table_plans = {}
    BY DEF Init
  <2> QED
    BY <2>1 DEF AllPassed
<1>2. Shaped /\ AllPassed /\ [Next]_vars => AllPassed'
  <2> SUFFICES ASSUME Shaped, AllPassed, [Next]_vars
               PROVE  AllPassed'
    OBVIOUS
  <2>1. CASE SourceUnreadable \/ UNCHANGED <<kinds, index, rows_planned, table_plans, total_rows, warnings>>
    <3>1. UNCHANGED table_plans
      BY <2>1 DEF SourceUnreadable
    <3> QED
      BY <3>1 DEF AllPassed
  <2>2. ASSUME NEW dst, NEW concerns, Planned(dst, concerns)
        PROVE  AllPassed'
    <3> DEFINE n == Len(table_plans)
    <3>1. /\ n \in Nat
          /\ DOMAIN table_plans = 1..n /\ DOMAIN table_plans' = 1..(n + 1)
          /\ \A k \in 1..n : table_plans'[k] = table_plans[k]
      BY <2>2, PlannedIsOne
    <3>2. Passed(TablePlan(dst, <<>>, "skipped"))
      BY DEF TablePlan, Passed
    <3>3. Include(dst) => Passed(TablePlan(dst, ColumnMappings(src_schema, dst), "pending"))
      BY DEF TablePlan, Include, Passed
    <3>4. Passed(table_plans'[n + 1])
      BY <2>2, <3>2, <3>3, PlannedIsOne
    <3>5. \A k \in 1..n : Passed(table_plans'[k])
      BY <3>1 DEF AllPassed
    <3> QED
      BY <3>1, <3>4, <3>5 DEF AllPassed
  <2> QED
    BY <2>1, <2>2, StepsAre DEF Shaped
<1>3. Shaped /\ AllPassed => PlannedRowsAreAccepted
  BY PassedIsAccepted DEF Shaped, TypeOK, AllPassed, PlannedRowsAreAccepted
<1> QED
  BY <1>1, <1>2, <1>3, ShapedInvariant, PTL DEF Spec

=============================================================================
