---------------------- MODULE DestinationProviderProofs ----------------------
(***************************************************************************)
(* What holds of the providers' writes for any tables, rows, calls and     *)
(* failures.                                                               *)
(***************************************************************************)
EXTENDS DestinationProvider, TLAPS

Copies == [Tables -> [Rows -> Nat]]

LEMMA FaultCounted ==
  ASSUME TypeOK, NEW f, Fault(f)
  PROVE  faults' \in 0..MaxFaults
BY SettingOK DEF TypeOK, Fault

LEMMA CallCounted ==
  ASSUME TypeOK, Called
  PROVE  calls' \in 0..MaxCalls
BY SettingOK DEF TypeOK, Called

LEMMA CopiesType ==
  ASSUME TypeOK
  PROVE  committed \in Copies /\ seen \in Copies /\ Nothing \in Copies
BY DEF TypeOK, Nothing, Copies

LEMMA NoCallType == NoCall \in Call /\ NoCall.state = "idle" /\ NoCall.todo = {} /\ NoCall.batch = {}
BY SettingOK DEF NoCall, Call

LEMMA AnswerFacts ==
  ASSUME TypeOK, NEW a \in {"raised", "returned"}, Answer(a)
  PROVE  /\ call' \in Call /\ call'.state = a /\ call'.todo = {}
         /\ call'.table = call.table /\ call'.batch = call.batch
BY DEF TypeOK, Answer, Call

\* A row that is taken off the list of a call.
LEMMA RowsDone ==
  ASSUME TypeOK, NEW rows, call' = [call EXCEPT !.todo = @ \ rows]
  PROVE  /\ call' \in Call /\ call'.state = call.state /\ call'.todo = call.todo \ rows
         /\ call'.table = call.table /\ call'.batch = call.batch
BY DEF TypeOK, Call

LEMMA GoodStored == \A r \in Good : r \in Rows /\ OnInsert(r) = "store"
BY DEF Good, OnInsert

\* What an insert makes of the copies its connection sees.
LEMMA WithFacts ==
  ASSUME TypeOK, NEW t \in Tables, NEW rows
  PROVE  /\ With(t, rows) \in Copies
         /\ \A u \in Tables, r \in Rows : With(t, rows)[u][r] >= seen[u][r]
         /\ \A r \in Good :
              With(t, rows)[t][r] = IF r \in rows THEN InsertedFrom(seen[t], t, r) ELSE seen[t][r]
<1> DEFINE w == With(t, rows)
<1>1. /\ w = [seen EXCEPT ![t] = w[t]]
      /\ w[t] = [r \in Rows |-> IF r \in rows /\ OnInsert(r) = "store" /\ (t \in Keyed => seen[t][r] = 0)
                                THEN seen[t][r] + 1 ELSE seen[t][r]]
  BY DEF With, TypeOK
<1>2. \A u \in Tables, r \in Rows : seen[u][r] \in Nat
  BY DEF TypeOK
<1>3. w \in Copies
  BY <1>1, <1>2 DEF Copies, TypeOK
<1>4. \A u \in Tables : u # t => w[u] = seen[u]
  BY <1>1 DEF TypeOK
<1>5. \A r \in Rows : w[t][r] = seen[t][r] \/ w[t][r] = seen[t][r] + 1
  BY <1>1
<1>6. \A u \in Tables, r \in Rows : w[u][r] >= seen[u][r]
  BY <1>2, <1>4, <1>5
<1>7. ASSUME NEW r \in Good
      PROVE  w[t][r] = IF r \in rows THEN InsertedFrom(seen[t], t, r) ELSE seen[t][r]
  <2>1. r \in Rows /\ OnInsert(r) = "store" /\ seen[t][r] \in Nat
    BY <1>2, GoodStored
  <2> QED
    BY <1>1, <2>1 DEF InsertedFrom
<1> HIDE DEF w
<1> QED
  BY <1>3, <1>6, <1>7 DEF w

\* The calls that are not a step of an insert.
LEMMA OtherCallFacts ==
  ASSUME TypeOK, call' = NoCall, before' = Nothing[NoCall.table]
  PROVE  /\ call' \in Call /\ call'.todo = {} /\ call'.state = "idle" /\ call'.batch = {}
         /\ before' \in [Rows -> Nat]
<1>1. NoCall.table \in Tables
  BY NoCallType DEF Call
<1> QED
  BY <1>1, NoCallType DEF Nothing

-----------------------------------------------------------------------------
(* Type correctness.                                                       *)

LEMMA InitType == Init => TypeOK
<1> SUFFICES ASSUME Init PROVE TypeOK
  OBVIOUS
<1>1. NoCall.table \in Tables
  BY NoCallType DEF Call
<1> QED
  BY <1>1, NoCallType, SettingOK DEF Init, TypeOK, Nothing

LEMMA NextType ==
  ASSUME TypeOK, [Next]_vars
  PROVE  TypeOK'
<1> USE DEF TypeOK
<1>1. ASSUME NEW t \in Tables, TruncateTable(t)
      PROVE  TypeOK'
  <2>1. Emptied(t) \in Copies
    BY CopiesType DEF Emptied, Copies
  <2>2. committed' \in Copies /\ seen' \in Copies /\ kind' = kind
    BY <1>1, <2>1, CopiesType DEF TruncateTable, Autocommitted, Uncommitted, Unwritten
  <2>3. kind # "sqlite" => seen' = committed'
    BY <1>1 DEF TruncateTable, Autocommitted, Unwritten
  <2>4. calls' \in 0..MaxCalls /\ faults' \in 0..MaxFaults
    BY <1>1, CallCounted, FaultCounted DEF TruncateTable, BetweenInserts
  <2>5. acked' \in [Tables -> SUBSET Rows]
    BY <1>1 DEF TruncateTable
  <2> QED
    BY <1>1, <2>2, <2>3, <2>4, <2>5, OtherCallFacts DEF TruncateTable, BetweenInserts, Copies
<1>2. ASSUME NEW t \in Tables, NEW rows \in SUBSET Rows, Insert(t, rows)
      PROVE  TypeOK'
  <2>1. calls' \in 0..MaxCalls /\ before' \in [Rows -> Nat]
    BY <1>2, CallCounted DEF Insert
  <2> QED
    BY <1>2, <2>1 DEF Insert, Call
<1>3. ASSUME CreateTable
      PROVE  TypeOK'
  <2>1. committed' \in Copies /\ seen' \in Copies /\ kind' = "sqlite" /\ kind' = kind
    BY <1>3, CopiesType DEF CreateTable, Commit, Unwritten
  <2>2. calls' \in 0..MaxCalls /\ faults' \in 0..MaxFaults
    BY <1>3, CallCounted, FaultCounted DEF CreateTable, BetweenInserts
  <2> QED
    BY <1>3, <2>1, <2>2, OtherCallFacts DEF CreateTable, BetweenInserts, Copies
<1>4. ASSUME Disconnect
      PROVE  TypeOK'
  <2>1. faults' \in 0..MaxFaults
    BY <1>4, FaultCounted DEF Disconnect
  <2> QED
    BY <1>4, <2>1, OtherCallFacts DEF Disconnect
<1>5. ASSUME StatementFails
      PROVE  TypeOK'
  <2>1. faults' \in 0..MaxFaults
    BY <1>5, FaultCounted DEF StatementFails
  <2> QED
    BY <1>5, <2>1, AnswerFacts DEF StatementFails, Raised
<1>6. ASSUME PgInsert
      PROVE  TypeOK'
  <2>1. committed' \in Copies /\ seen' = committed'
    BY <1>6, WithFacts DEF PgInsert, Autocommitted, Call
  <2>2. faults' \in 0..MaxFaults
    BY <1>6, FaultCounted DEF PgInsert
  <2>3. /\ call' \in Call /\ call'.state # "inserting" /\ call'.todo = {}
        /\ acked' \in [Tables -> SUBSET Rows]
    BY <1>6, AnswerFacts DEF PgInsert, Raised, Returned, Call
  <2> QED
    BY <1>6, <2>1, <2>2, <2>3 DEF PgInsert, Copies
<1>7. ASSUME PgRefuses \/ SQLiteRefuses
      PROVE  TypeOK'
  BY <1>7, AnswerFacts DEF PgRefuses, SQLiteRefuses, Raised
<1>8. ASSUME MySQLInsert
      PROVE  TypeOK'
  <2>1. PICK rows \in SUBSET call.todo :
          /\ Autocommitted(With(call.table, rows))
          /\ \/ call' = [call EXCEPT !.todo = @ \ rows] /\ UNCHANGED <<acked, faults>>
             \/ Fault("late") /\ Raised
    BY <1>8 DEF MySQLInsert
  <2>2. committed' \in Copies /\ seen' = committed'
    BY <2>1, WithFacts DEF Autocommitted, Call
  <2>3. faults' \in 0..MaxFaults
    BY <2>1, FaultCounted
  <2>4. call' \in Call /\ call'.todo \subseteq call'.batch /\ (call'.state # "inserting" => call'.todo = {})
    BY <1>8, <2>1, RowsDone, AnswerFacts DEF MySQLInsert, Inserting, Raised
  <2> QED
    BY <1>8, <2>1, <2>2, <2>3, <2>4 DEF MySQLInsert, Inserting, Raised, Copies
<1>9. ASSUME MySQLReturns
      PROVE  TypeOK'
  <2>1. call' \in Call /\ call'.todo = {} /\ acked' \in [Tables -> SUBSET Rows]
    BY <1>9, AnswerFacts DEF MySQLReturns, Returned, Call
  <2> QED
    BY <1>9, <2>1 DEF MySQLReturns
<1>10. ASSUME SQLiteInsert
       PROVE  TypeOK'
  <2>1. PICK r \in call.todo \ Refused :
          /\ Uncommitted(With(call.table, {r}))
          /\ call' = [call EXCEPT !.todo = @ \ {r}]
    BY <1>10 DEF SQLiteInsert
  <2>2. seen' \in Copies /\ committed' = committed
    BY <2>1, WithFacts DEF Uncommitted, Call
  <2>3. call' \in Call /\ call'.todo \subseteq call'.batch /\ call'.state = "inserting"
    BY <1>10, <2>1, RowsDone DEF SQLiteInsert, Inserting
  <2> QED
    BY <1>10, <2>2, <2>3 DEF SQLiteInsert, Inserting, Copies
<1>11. ASSUME SQLiteReturns
       PROVE  TypeOK'
  <2>1. committed' = seen /\ seen' = seen
    BY <1>11 DEF SQLiteReturns, Commit
  <2>2. call' \in Call /\ call'.todo = {} /\ acked' \in [Tables -> SUBSET Rows]
    BY <1>11, AnswerFacts DEF SQLiteReturns, Returned, Call
  <2> QED
    BY <1>11, <2>1, <2>2 DEF SQLiteReturns
<1>12. ASSUME SQLiteCommitFails
       PROVE  TypeOK'
  <2>1. faults' \in 0..MaxFaults
    BY <1>12, FaultCounted DEF SQLiteCommitFails
  <2> QED
    BY <1>12, <2>1, AnswerFacts DEF SQLiteCommitFails, Raised, Inserting
<1>13. CASE UNCHANGED vars
  BY <1>13 DEF vars
<1> QED
  BY <1>1, <1>2, <1>3, <1>4, <1>5, <1>6, <1>7, <1>8, <1>9, <1>10, <1>11, <1>12, <1>13 DEF Next

\* In every reachable state the copies are counted, and only SQLite has an open
\* transaction.
THEOREM WritesTypeCorrect == Spec => []TypeOK
<1>1. TypeOK /\ [Next]_vars => TypeOK'
  BY NextType
<1> QED
  BY InitType, <1>1, PTL DEF Spec

-----------------------------------------------------------------------------
(* insert_batch() keeps its promise.                                       *)

\* What an insert has done when only the rows of todo are left.
Underway ==
  call.state = "inserting" =>
    /\ kind = "postgres" => call.todo = call.batch
    /\ \A r \in Good :
         seen[call.table][r] = IF r \in call.batch \ call.todo
                               THEN InsertedFrom(before, call.table, r) ELSE before[r]

Sound == InsertContract /\ Underway

\* A step that leaves the rows as they are, and the call not returned.
LEMMA FailedSound ==
  ASSUME TypeOK, Sound, call.state = "inserting", Answer("raised"),
         seen' = seen, before' = before
  PROVE  Sound'
<1>1. /\ call'.state = "raised" /\ call'.table = call.table /\ call'.batch = call.batch
  BY AnswerFacts
<1>2. \A r \in Good : InsertedFrom(before, call.table, r)' = InsertedFrom(before, call.table, r)
  BY <1>1 DEF InsertedFrom
<1>3. Underway'
  BY <1>1 DEF Underway
<1>4. ASSUME NEW r \in Good
      PROVE  seen[call.table][r] \in IF r \in call.batch
               THEN {before[r], InsertedFrom(before, call.table, r)} ELSE {before[r]}
  BY <1>4 DEF Sound, Underway
<1> QED
  BY <1>1, <1>2, <1>3, <1>4 DEF Sound, InsertContract

\* A call that is not a step of an insert promises nothing.
LEMMA IdleSound ==
  ASSUME call' = NoCall
  PROVE  Sound'
BY NoCallType DEF Sound, InsertContract, Underway

\* A statement that inserts some of the rows that are left.
LEMMA StatementSound ==
  ASSUME TypeOK, Sound, call.state = "inserting", NEW rows \in SUBSET call.todo,
         seen' = With(call.table, rows)
  PROVE  \A r \in Good :
           seen'[call.table][r] = IF r \in call.batch \ (call.todo \ rows)
                                  THEN InsertedFrom(before, call.table, r) ELSE before[r]
<1> DEFINE t == call.table
<1>1. t \in Tables
  BY DEF TypeOK, Call
<1>2. \A r \in Good :
        seen'[t][r] = IF r \in rows THEN InsertedFrom(seen[t], t, r) ELSE seen[t][r]
  BY <1>1, WithFacts
<1>3. ASSUME NEW r \in Good
      PROVE  seen'[t][r] = IF r \in call.batch \ (call.todo \ rows)
                           THEN InsertedFrom(before, t, r) ELSE before[r]
  <2>1. CASE r \in rows
    <3>1. seen[t][r] = before[r]
      BY <2>1 DEF Sound, Underway
    <3>2. r \in call.batch
      BY <2>1 DEF TypeOK
    <3> QED
      BY <1>2, <2>1, <3>1, <3>2 DEF InsertedFrom
  <2>2. CASE r \notin rows
    BY <1>2, <2>2 DEF Sound, Underway
  <2> QED
    BY <2>1, <2>2
<1> QED
  BY <1>3

LEMMA InitSound == Init => Sound
BY NoCallType DEF Init, Sound, InsertContract, Underway

LEMMA NextSound ==
  ASSUME TypeOK, Sound, [Next]_vars
  PROVE  Sound'
<1>1. ASSUME NEW t \in Tables, NEW rows \in SUBSET Rows, Insert(t, rows)
      PROVE  Sound'
  <2>1. call' = [state |-> "inserting", table |-> t, batch |-> rows, todo |-> rows]
        /\ before' = seen[t] /\ seen' = seen
    BY <1>1 DEF Insert
  <2> QED
    BY <2>1 DEF Sound, InsertContract, Underway
<1>2. CASE CreateTable \/ Disconnect \/ \E t \in Tables : TruncateTable(t)
  BY <1>2, IdleSound DEF CreateTable, Disconnect, TruncateTable, BetweenInserts
<1>3. CASE StatementFails \/ PgRefuses \/ SQLiteRefuses \/ SQLiteCommitFails
  BY <1>3, FailedSound DEF StatementFails, PgRefuses, SQLiteRefuses, SQLiteCommitFails, Raised, Inserting
<1>4. CASE PgInsert
  <2>1. /\ call.state = "inserting" /\ call.todo = call.batch
    BY <1>4 DEF PgInsert, Inserting, Sound, Underway
  <2>2. \A r \in Good :
          seen'[call.table][r] = IF r \in call.batch
                                 THEN InsertedFrom(before, call.table, r) ELSE before[r]
    BY <1>4, <2>1, StatementSound DEF PgInsert, Autocommitted
  <2>3. /\ call'.state \in {"returned", "raised"}
        /\ call'.table = call.table /\ call'.batch = call.batch /\ before' = before
    BY <1>4, AnswerFacts DEF PgInsert, Raised, Returned
  <2>4. \A r \in Good : InsertedFrom(before, call.table, r)' = InsertedFrom(before, call.table, r)
    BY <2>3 DEF InsertedFrom
  <2>5. InsertContract'
    BY <2>2, <2>3, <2>4 DEF InsertContract
  <2> QED
    BY <2>3, <2>5 DEF Sound, Underway
<1>5. CASE MySQLInsert
  <2>1. PICK rows \in SUBSET call.todo :
          /\ seen' = With(call.table, rows)
          /\ \/ call' = [call EXCEPT !.todo = @ \ rows] /\ UNCHANGED <<acked, faults>>
             \/ Fault("late") /\ Raised
    BY <1>5 DEF MySQLInsert, Autocommitted
  <2>2. call.state = "inserting" /\ kind' = "mysql" /\ before' = before
    BY <1>5 DEF MySQLInsert, Inserting
  <2>3. \A r \in Good :
          seen'[call.table][r] = IF r \in call.batch \ (call.todo \ rows)
                                 THEN InsertedFrom(before, call.table, r) ELSE before[r]
    BY <2>1, <2>2, StatementSound
  <2>4. /\ call'.table = call.table /\ call'.batch = call.batch
        /\ \/ call'.state = "inserting" /\ call'.todo = call.todo \ rows
           \/ call'.state = "raised"
    BY <2>1, <2>2, RowsDone, AnswerFacts DEF Raised
  <2>5. \A r \in Good : InsertedFrom(before, call.table, r)' = InsertedFrom(before, call.table, r)
    BY <2>2, <2>4 DEF InsertedFrom
  <2> QED
    BY <2>2, <2>3, <2>4, <2>5 DEF Sound, InsertContract, Underway
<1>6. CASE SQLiteInsert
  <2>1. PICK r \in call.todo \ Refused :
          /\ seen' = With(call.table, {r})
          /\ call' = [call EXCEPT !.todo = @ \ {r}]
    BY <1>6 DEF SQLiteInsert, Uncommitted
  <2>2. call.state = "inserting" /\ kind' = "sqlite" /\ before' = before
    BY <1>6 DEF SQLiteInsert, Inserting
  <2>3. \A s \in Good :
          seen'[call.table][s] = IF s \in call.batch \ (call.todo \ {r})
                                 THEN InsertedFrom(before, call.table, s) ELSE before[s]
    BY <2>1, <2>2, StatementSound
  <2>4. /\ call'.table = call.table /\ call'.batch = call.batch
        /\ call'.state = "inserting" /\ call'.todo = call.todo \ {r}
    BY <2>1, <2>2, RowsDone
  <2>5. \A s \in Good : InsertedFrom(before, call.table, s)' = InsertedFrom(before, call.table, s)
    BY <2>2, <2>4 DEF InsertedFrom
  <2> QED
    BY <2>2, <2>3, <2>4, <2>5 DEF Sound, InsertContract, Underway
<1>7. CASE MySQLReturns \/ SQLiteReturns
  <2>1. /\ call.state = "inserting" /\ call.todo = {} /\ Answer("returned")
        /\ before' = before /\ seen' = seen
    BY <1>7 DEF MySQLReturns, SQLiteReturns, Inserting, Returned, Commit
  <2>2. call'.state = "returned" /\ call'.table = call.table /\ call'.batch = call.batch
    BY <2>1, AnswerFacts
  <2>3. \A r \in Good : InsertedFrom(before, call.table, r)' = InsertedFrom(before, call.table, r)
    BY <2>1, <2>2 DEF InsertedFrom
  <2> QED
    BY <2>1, <2>2, <2>3 DEF Sound, InsertContract, Underway
<1>8. CASE UNCHANGED vars
  <2>1. seen' = seen /\ call' = call /\ before' = before /\ kind' = kind
    BY <1>8 DEF vars
  <2>2. \A r \in Good : InsertedFrom(before, call.table, r)' = InsertedFrom(before, call.table, r)
    BY <2>1 DEF InsertedFrom
  <2> QED
    BY <2>1, <2>2 DEF Sound, InsertContract, Underway
<1> QED
  BY <1>1, <1>2, <1>3, <1>4, <1>5, <1>6, <1>7, <1>8 DEF Next

\* Whatever was in the table, whatever an earlier call left open and however
\* the calls before it failed: insert_batch() that returns has inserted the good
\* rows of its batch, each once, and one that raises has inserted no row twice.
THEOREM InsertsKeepTheirPromise == Spec => []InsertContract
<1>1. TypeOK /\ Sound /\ [Next]_vars => Sound'
  BY NextSound
<1>2. Sound => InsertContract
  BY DEF Sound
<1> QED
  BY InitSound, <1>1, <1>2, WritesTypeCorrect, PTL DEF Spec

-----------------------------------------------------------------------------
(* What a batch that returned has written stays.                           *)

\* An acknowledged row is durable, and the open transaction has not deleted it:
\* otherwise the next commit would.
AckedStays ==
  \A t \in Tables : \A r \in acked[t] : committed[t][r] > 0 /\ seen[t][r] > 0

LEMMA InitAcked == Init => AckedStays
BY DEF Init, AckedStays

\* A step that acknowledges nothing, and after which every row that was durable
\* and not deleted still is.
LEMMA KeptAcked ==
  ASSUME TypeOK, AckedStays, acked' = acked,
         \A u \in Tables, r \in Rows :
           committed[u][r] > 0 /\ seen[u][r] > 0 => committed'[u][r] > 0 /\ seen'[u][r] > 0
  PROVE  AckedStays'
<1>1. ASSUME NEW t \in Tables, NEW r \in acked'[t]
      PROVE  committed'[t][r] > 0 /\ seen'[t][r] > 0
  <2>1. r \in Rows /\ committed[t][r] > 0 /\ seen[t][r] > 0
    BY <1>1 DEF TypeOK, AckedStays
  <2> QED
    BY <2>1
<1> QED
  BY <1>1 DEF AckedStays

\* A call returns when every good row of its batch is durable and seen.
LEMMA ReturnedAcked ==
  ASSUME TypeOK, AckedStays, Returned,
         \A u \in Tables, r \in Rows :
           committed[u][r] > 0 /\ seen[u][r] > 0 => committed'[u][r] > 0 /\ seen'[u][r] > 0,
         \A r \in call.batch \cap Good :
           committed'[call.table][r] > 0 /\ seen'[call.table][r] > 0
  PROVE  AckedStays'
<1>1. ASSUME NEW t \in Tables, NEW r \in acked'[t]
      PROVE  committed'[t][r] > 0 /\ seen'[t][r] > 0
  <2>1. \/ r \in acked[t]
        \/ t = call.table /\ r \in call.batch \cap Good
    BY <1>1 DEF Returned, TypeOK
  <2>2. CASE r \in acked[t]
    <3>1. r \in Rows /\ committed[t][r] > 0 /\ seen[t][r] > 0
      BY <2>2 DEF TypeOK, AckedStays
    <3> QED
      BY <3>1
  <2> QED
    BY <2>1, <2>2
<1> QED
  BY <1>1 DEF AckedStays

\* A row that was inserted is there.
LEMMA InsertedIsThere ==
  ASSUME TypeOK, NEW t \in Tables, NEW r \in Good
  PROVE  InsertedFrom(before, t, r) > 0
<1>1. before[r] \in Nat
  BY GoodStored DEF TypeOK
<1> QED
  BY <1>1 DEF InsertedFrom

\* Inserting takes no copy away, whether the statement commits itself or not.
LEMMA WithKeeps ==
  ASSUME TypeOK, NEW t \in Tables, NEW rows,
         Autocommitted(With(t, rows)) \/ Uncommitted(With(t, rows))
  PROVE  \A u \in Tables, r \in Rows :
           committed[u][r] > 0 /\ seen[u][r] > 0 => committed'[u][r] > 0 /\ seen'[u][r] > 0
<1>1. ASSUME NEW u \in Tables, NEW r \in Rows
      PROVE  /\ seen[u][r] \in Nat /\ With(t, rows)[u][r] \in Nat
             /\ With(t, rows)[u][r] >= seen[u][r]
  BY WithFacts DEF TypeOK, Copies
<1> QED
  BY <1>1 DEF Autocommitted, Uncommitted

LEMMA NextAcked ==
  ASSUME TypeOK, Sound, AckedStays, [Next]_vars
  PROVE  AckedStays'
<1>0. call.table \in Tables
  BY DEF TypeOK, Call
<1>1. ASSUME NEW t \in Tables, TruncateTable(t)
      PROVE  AckedStays'
  <2>1. \A u \in Tables \ {t} : Emptied(t)[u] = seen[u]
    BY DEF Emptied, TypeOK
  <2>2. \A u \in Tables \ {t}, r \in Rows :
          committed[u][r] > 0 /\ seen[u][r] > 0 => committed'[u][r] > 0 /\ seen'[u][r] > 0
    BY <1>1, <2>1 DEF TruncateTable, Autocommitted, Uncommitted, Unwritten
  <2>3. ASSUME NEW u \in Tables, NEW r \in acked'[u]
        PROVE  committed'[u][r] > 0 /\ seen'[u][r] > 0
    <3>1. u # t /\ r \in acked[u]
      BY <1>1, <2>3 DEF TruncateTable, TypeOK
    <3>2. r \in Rows /\ committed[u][r] > 0 /\ seen[u][r] > 0
      BY <3>1 DEF TypeOK, AckedStays
    <3> QED
      BY <2>2, <3>1, <3>2
  <2> QED
    BY <2>3 DEF AckedStays
<1>2. CASE CreateTable
  <2>1. \A u \in Tables, r \in Rows :
          committed[u][r] > 0 /\ seen[u][r] > 0 => committed'[u][r] > 0 /\ seen'[u][r] > 0
    BY <1>2 DEF CreateTable, Commit, Unwritten
  <2> QED
    BY <1>2, <2>1, KeptAcked DEF CreateTable
<1>3. CASE \/ \E t \in Tables, rows \in SUBSET Rows : Insert(t, rows)
           \/ StatementFails \/ PgRefuses \/ SQLiteRefuses \/ SQLiteCommitFails \/ UNCHANGED vars
  <2>1. committed' = committed /\ seen' = seen /\ acked' = acked
    BY <1>3 DEF Insert, StatementFails, PgRefuses, SQLiteRefuses, SQLiteCommitFails, Raised, vars
  <2> QED
    BY <2>1, KeptAcked
<1>4. CASE Disconnect
  <2>1. committed' = committed /\ seen' = committed /\ acked' = acked
    BY <1>4 DEF Disconnect
  <2> QED
    BY <2>1, KeptAcked
<1>5. CASE PgInsert
  <2>1. /\ call.state = "inserting" /\ call.todo = call.batch
        /\ Autocommitted(With(call.table, call.batch))
    BY <1>5 DEF PgInsert, Inserting, Sound, Underway
  <2>2. \A u \in Tables, r \in Rows :
          committed[u][r] > 0 /\ seen[u][r] > 0 => committed'[u][r] > 0 /\ seen'[u][r] > 0
    BY <1>0, <2>1, WithKeeps
  <2>3. CASE Raised
    BY <2>2, <2>3, KeptAcked DEF Raised
  <2>4. CASE Returned
    <3>1. ASSUME NEW r \in call.batch \cap Good
          PROVE  committed'[call.table][r] > 0 /\ seen'[call.table][r] > 0
      <4>1. seen' = With(call.table, call.batch) /\ committed' = seen'
        BY <2>1 DEF Autocommitted
      <4>2. seen'[call.table][r] = InsertedFrom(before, call.table, r)
        BY <2>1, <4>1, StatementSound
      <4> QED
        BY <1>0, <4>1, <4>2, InsertedIsThere
    <3> QED
      BY <2>2, <2>4, <3>1, ReturnedAcked
  <2> QED
    BY <1>5, <2>3, <2>4 DEF PgInsert
<1>6. CASE MySQLInsert \/ SQLiteInsert
  <2>1. PICK rows : Autocommitted(With(call.table, rows)) \/ Uncommitted(With(call.table, rows))
    BY <1>6 DEF MySQLInsert, SQLiteInsert
  <2>2. acked' = acked
    BY <1>6 DEF MySQLInsert, SQLiteInsert, Raised
  <2> QED
    BY <1>0, <2>1, <2>2, WithKeeps, KeptAcked
<1>7. CASE MySQLReturns \/ SQLiteReturns
  <2>1. call.state = "inserting" /\ call.todo = {} /\ Returned
    BY <1>7 DEF MySQLReturns, SQLiteReturns, Inserting
  <2>2. committed' = seen /\ seen' = seen
    BY <1>7 DEF MySQLReturns, SQLiteReturns, Commit, Inserting, TypeOK
  <2>3. ASSUME NEW r \in call.batch \cap Good
        PROVE  seen[call.table][r] > 0
    <3>1. seen[call.table][r] = InsertedFrom(before, call.table, r)
      BY <2>1 DEF Sound, Underway
    <3> QED
      BY <1>0, <3>1, InsertedIsThere
  <2> QED
    BY <2>1, <2>2, <2>3, ReturnedAcked
<1> QED
  BY <1>1, <1>2, <1>3, <1>4, <1>5, <1>6, <1>7 DEF Next

\* A good row of a batch that returned is durable until truncate_table() is
\* called for its table, whatever fails or is rolled back later, and whatever
\* deletions of other tables a failed truncate_table() has left to commit.
THEOREM ReturnedRowsAreDurable == Spec => []AckedIsDurable
<1>1. TypeOK /\ Sound /\ [Next]_vars => Sound'
  BY NextSound
<1>2. TypeOK /\ Sound /\ AckedStays /\ [Next]_vars => AckedStays'
  BY NextAcked
<1>3. AckedStays => AckedIsDurable
  BY DEF AckedStays, AckedIsDurable
<1> QED
  BY InitSound, InitAcked, <1>1, <1>2, <1>3, WritesTypeCorrect, PTL DEF Spec

=============================================================================
