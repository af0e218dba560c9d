------------------------- MODULE DestinationProvider --------------------------
(***************************************************************************)
(* What the three providers do to a destination database: create_table(),   *)
(* insert_batch() and truncate_table(), with their transactions. PostgreSQL *)
(* inserts a batch in one transaction; MySQL, with autocommit, in several   *)
(* statements; SQLite in a transaction that each of the three calls commits, *)
(* and that stays open when the call raises.                                *)
(* The caller is any sequence of calls, one at a time. No table here refers *)
(* to another: where PostgreSQL's TRUNCATE ... CASCADE leads is a matter of *)
(* MigrationExecutor.                                                       *)
(***************************************************************************)
EXTENDS Naturals, FiniteSets

CONSTANTS
  Kinds,        \* the databases this environment has
  Tables,
  Rows,         \* rows of every table, named by their keys
  RowClass,     \* [Rows -> {"good", "orphan", "null"}]
  Keyed,        \* tables with a primary key
  FaultKinds,   \* the failures this environment produces, of AllFaults
  MaxFaults,
  MaxCalls

AllFaults == {"statement", "commit", "late", "disconnect"}

ASSUME SettingOK ==
  /\ Tables # {}
  /\ Kinds \subseteq {"postgres", "mysql", "sqlite"} /\ Keyed \subseteq Tables
  /\ RowClass \in [Rows -> {"good", "orphan", "null"}]
  /\ FaultKinds \subseteq AllFaults /\ MaxFaults \in Nat /\ MaxCalls \in Nat

VARIABLES
  kind,         \* of the destination
  committed,    \* [Tables -> [Rows -> how many copies are durable]]
  seen,         \* the copies the connection sees, in its open transaction on SQLite
  call,         \* the insert_batch() in progress, or the last one
  before,       \* the copies of its table when it was called
  acked,        \* [Tables -> good rows of returned batches, since the last truncate_table()]
  calls, faults

vars == <<kind, committed, seen, call, before, acked, calls, faults>>

Fault(f) ==
  /\ f \in FaultKinds
  /\ faults < MaxFaults
  /\ faults' = faults + 1

Called == calls < MaxCalls /\ calls' = calls + 1

Nothing == [t \in Tables |-> [r \in Rows |-> 0]]
Good == {r \in Rows : RowClass[r] = "good"}

\* What ON CONFLICT DO NOTHING, INSERT IGNORE and INSERT OR IGNORE make of a
\* row that refers to a missing one, and of a NULL in a NOT NULL column (MySQL
\* stores another value instead).
OnInsert(r) ==
  CASE RowClass[r] = "good"   -> "store"
    [] RowClass[r] = "orphan" -> IF kind = "mysql" THEN "ignore" ELSE "raise"
    [] RowClass[r] = "null"   -> CASE kind = "postgres" -> "raise"
                                   [] kind = "mysql"      -> "store"
                                   [] kind = "sqlite"     -> "ignore"

\* Wrong on purpose: a plain INSERT, and no key to refuse it.
WithDuplicates(t, rows) ==
  [seen EXCEPT ![t] = [r \in Rows |->
     IF r \in rows /\ OnInsert(r) = "store" THEN seen[t][r] + 1 ELSE seen[t][r]]]

\* What the connection sees once these rows are inserted: a key that can be
\* seen already, committed or not, makes a row be ignored.
With(t, rows) ==
  [seen EXCEPT ![t] = [r \in Rows |->
     IF r \in rows /\ OnInsert(r) = "store" /\ (t \in Keyed => seen[t][r] = 0)
     THEN seen[t][r] + 1 ELSE seen[t][r]]]

\* How a statement ends: outside of SQLite it commits itself. commit() makes
\* durable what any earlier call left open.
Autocommitted(copies) == seen' = copies /\ committed' = copies
Uncommitted(copies) == seen' = copies /\ committed' = committed
Commit == committed' = seen /\ seen' = seen
Unwritten == UNCHANGED <<committed, seen>>

Answer(a) == call' = [call EXCEPT !.state = a, !.todo = {}]
Raised == Answer("raised") /\ UNCHANGED acked
Returned == Answer("returned") /\ acked' = [acked EXCEPT ![call.table] = @ \cup (call.batch \cap Good)]

-----------------------------------------------------------------------------
(* insert_batch()                                                          *)

Insert(t, rows) ==
  /\ call.state # "inserting" /\ rows # {}
  /\ Called
  /\ call' = [state |-> "inserting", table |-> t, batch |-> rows, todo |-> rows]
  /\ before' = seen[t]
  /\ UNCHANGED <<kind, committed, seen, acked, faults>>

Inserting(k) == kind = k /\ call.state = "inserting"
Refused == {r \in call.todo : OnInsert(r) = "raise"}

\* The connection fails, or the server, with nothing done since the last step.
StatementFails ==
  /\ call.state = "inserting"
  /\ Fault("statement")
  /\ Raised
  /\ UNCHANGED <<kind, committed, seen, before, calls>>

\* PostgreSQL: all rows or none; and the answer may be lost after the commit.
PgInsert ==
  /\ Inserting("postgres") /\ Refused = {}
  /\ Autocommitted(With(call.table, call.batch))
  /\ \/ Returned /\ UNCHANGED faults
     \/ Fault("late") /\ Raised
  /\ UNCHANGED <<kind, before, calls>>

PgRefuses ==
  /\ Inserting("postgres") /\ Refused # {}
  /\ Raised
  /\ UNCHANGED <<kind, committed, seen, before, calls, faults>>

\* MySQL: executemany() joins some rows to one statement, which commits itself.
MySQLInsert ==
  /\ Inserting("mysql") /\ call.todo # {}
  /\ \E rows \in SUBSET call.todo :
       /\ rows # {}
       /\ Autocommitted(With(call.table, rows))
       /\ \/ call' = [call EXCEPT !.todo = @ \ rows] /\ UNCHANGED <<acked, faults>>
          \/ Fault("late") /\ Raised
  /\ UNCHANGED <<kind, before, calls>>

MySQLReturns ==
  /\ Inserting("mysql") /\ call.todo = {}
  /\ Returned
  /\ UNCHANGED <<kind, committed, seen, before, calls, faults>>

\* SQLite: row by row, in the transaction that is open or is begun here.
SQLiteInsert ==
  /\ Inserting("sqlite")
  /\ \E r \in call.todo \ Refused :
       /\ Uncommitted(With(call.table, {r}))
       /\ call' = [call EXCEPT !.todo = @ \ {r}]
  /\ UNCHANGED <<kind, before, acked, calls, faults>>

\* Wrong on purpose: the batch is not dropped.
SQLiteRefusesOnly ==
  /\ Inserting("sqlite") /\ Refused # {}
  /\ call' = [call EXCEPT !.state = "raised"] /\ UNCHANGED acked
  /\ UNCHANGED <<kind, committed, seen, before, calls, faults>>

\* The rows inserted before the refused one stay in the open transaction.
SQLiteRefuses ==
  /\ Inserting("sqlite") /\ Refused # {}
  /\ Raised
  /\ UNCHANGED <<kind, committed, seen, before, calls, faults>>

\* Wrong on purpose: leaves the commit to the next call.
SQLiteReturnsEarly ==
  /\ Inserting("sqlite") /\ call.todo = {}
  /\ Returned
  /\ UNCHANGED <<kind, committed, seen, before, calls, faults>>

SQLiteReturns ==
  /\ Inserting("sqlite") /\ call.todo = {}
  /\ Commit
  /\ Returned
  /\ UNCHANGED <<kind, before, calls, faults>>

\* The database is locked: the transaction stays open.
SQLiteCommitFails ==
  /\ Inserting("sqlite") /\ call.todo = {}
  /\ Fault("commit")
  /\ Raised
  /\ UNCHANGED <<kind, committed, seen, before, calls>>

-----------------------------------------------------------------------------
(* The other calls, between two insert_batch().                            *)

NoCall == [state |-> "idle", table |-> CHOOSE t \in Tables : TRUE, batch |-> {}, todo |-> {}]

BetweenInserts ==
  /\ call.state # "inserting"
  /\ Called
  /\ call' = NoCall /\ before' = Nothing[NoCall.table]

\* create_table() of a table that exists: on SQLite only the commit matters.
CreateTable ==
  /\ kind = "sqlite"
  /\ BetweenInserts
  /\ \/ Commit /\ UNCHANGED faults
     \/ Unwritten /\ Fault("commit")
  /\ UNCHANGED <<kind, acked>>

Emptied(t) == [seen EXCEPT ![t] = Nothing[t]]

\* PostgreSQL and MySQL empty a table at once, and the answer may be lost.
\* SQLite deletes and then commits: if that fails, the deletions stay in the
\* open transaction, with whatever else is there. acked forgets the table
\* however the call ends: its caller knows that the rows may be gone.
TruncateTable(t) ==
  /\ BetweenInserts
  /\ \/ Autocommitted(Emptied(t)) /\ UNCHANGED faults
     \/ Autocommitted(Emptied(t)) /\ kind # "sqlite" /\ Fault("late")
     \/ Unwritten /\ Fault("statement")
     \/ kind = "sqlite" /\ Uncommitted(Emptied(t)) /\ Fault("commit")
  /\ acked' = [acked EXCEPT ![t] = {}]
  /\ UNCHANGED kind

\* disconnect(), or the process dies: what was not committed is rolled back.
Disconnect ==
  /\ Fault("disconnect")
  /\ seen' = committed
  /\ call' = NoCall /\ before' = Nothing[NoCall.table]
  /\ UNCHANGED <<kind, committed, acked, calls>>

-----------------------------------------------------------------------------
Init ==
  /\ kind \in Kinds
  /\ committed = Nothing /\ seen = Nothing
  /\ call = NoCall /\ before = Nothing[NoCall.table]
  /\ acked = [t \in Tables |-> {}]
  /\ calls = 0 /\ faults = 0

Next ==
  \/ \E t \in Tables : TruncateTable(t) \/ \E rows \in SUBSET Rows : Insert(t, rows)
  \/ CreateTable   \/ Disconnect     \/ StatementFails
  \/ PgInsert      \/ PgRefuses
  \/ MySQLInsert   \/ MySQLReturns
  \/ SQLiteInsert  \/ SQLiteRefuses  \/ SQLiteReturns  \/ SQLiteCommitFails

Spec == Init /\ [][Next]_vars

-----------------------------------------------------------------------------
(* Properties.                                                             *)

Call == [state : {"idle", "inserting", "raised", "returned"}, table : Tables,
         batch : SUBSET Rows, todo : SUBSET Rows]

\* The shape of every variable; only SQLite leaves transactions open.
TypeOK ==
  /\ kind \in Kinds
  /\ committed \in [Tables -> [Rows -> Nat]] /\ seen \in [Tables -> [Rows -> Nat]]
  /\ kind # "sqlite" => seen = committed
  /\ call \in Call /\ call.todo \subseteq call.batch
  /\ call.state # "inserting" => call.todo = {}
  /\ before \in [Rows -> Nat]
  /\ acked \in [Tables -> SUBSET Rows]
  /\ calls \in 0..MaxCalls /\ faults \in 0..MaxFaults

\* What MigrationExecutor takes insert_batch() to do: once it has returned, the
\* good rows are in the table, each inserted once unless its key was there;
\* once it has raised, some of them are; no other row changes.
InsertedFrom(copies, t, r) ==
  IF t \in Keyed /\ copies[r] > 0 THEN copies[r] ELSE copies[r] + 1

InsertContract ==
  \A r \in Good :
    LET now == seen[call.table][r]
        new == InsertedFrom(before, call.table, r)
    IN  /\ call.state = "returned" => now = IF r \in call.batch THEN new ELSE before[r]
        /\ call.state = "raised" => now \in IF r \in call.batch THEN {before[r], new}
                                                                ELSE {before[r]}

\* A good row of a batch that returned outlives every later failure: it is
\* durable, and no commit of what another call left open takes it away, until
\* truncate_table() is called for its table. (A truncate_table() that raises
\* promises nothing: on SQLite the next call may commit its deletions.)
AckedIsDurable == \A t \in Tables : \A r \in acked[t] : committed[t][r] > 0

=============================================================================
