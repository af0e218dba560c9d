---------------------------- MODULE ProgressReport ----------------------------
(***************************************************************************)
(* What get_status() and on_progress() tell of a migration: the helpers     *)
(* calculate_progress(), calculate_speed() and estimate_time_remaining(),   *)
(* and the response made of them. Quotients are exact here; the code's are  *)
(* floats, which differ from them only where a percentage is a hair from a  *)
(* half. Times are whole seconds.                                           *)
(***************************************************************************)
EXTENDS Integers, WellFoundedInduction, TLAPS

CONSTANT None   \* the NULL of a column

ASSUME NoneIsNoTime == None \notin Nat

\* round(n / d): to the nearest integer, a half to the even one.
Rounded(n, d) ==
  LET q == n \div d
      r == n % d
  IN  IF 2 * r < d \/ (2 * r = d /\ q % 2 = 0) THEN q ELSE q + 1

\* math.ceil(n / d)
Ceiling(n, d) == IF n % d = 0 THEN n \div d ELSE (n \div d) + 1

calculate_progress(processed, total) ==
  IF total <= 0 THEN 0
  ELSE LET percent == Rounded(100 * processed, total)
       IN  IF percent < 100 THEN percent ELSE 100

calculate_speed(processed, elapsed) == IF elapsed <= 0 THEN 0 ELSE Rounded(processed, elapsed)

\* ceil(remaining_rows / (processed / elapsed))
estimate_time_remaining(processed, total, elapsed) ==
  IF processed <= 0 \/ total <= 0 \/ elapsed <= 0 THEN 0
  ELSE LET remaining_rows == IF total > processed THEN total - processed ELSE 0
       IN  Ceiling(remaining_rows * elapsed, processed)

\* The columns of the migrations table that get_status() reads.
Row == [processed_rows : Nat, total_rows : Nat, started_at : Nat \cup {None},
        completed_at : Nat \cup {None}]

Elapsed(row, now) ==
  IF row.started_at = None THEN 0
  ELSE (IF row.completed_at = None THEN now ELSE row.completed_at) - row.started_at

Status(row, now) ==
  [progress |-> calculate_progress(row.processed_rows, row.total_rows),
   speed    |-> calculate_speed(row.processed_rows, Elapsed(row, now)),
   estimated_time_remaining |->
     estimate_time_remaining(row.processed_rows, row.total_rows, Elapsed(row, now))]

\* The rows of the first n tables of a plan, where table k has rows[k].
SumUpTo(rows, n) ==
  LET sum[k \in 0..n] == IF k = 0 THEN 0 ELSE sum[k - 1] + rows[k]
  IN  sum[n]

-----------------------------------------------------------------------------
(* Sums. The library has induction over the naturals for operators; here it   *)
(* is for sets, by their least elements.                                      *)

LEMMA LeastNumber ==
  ASSUME NEW S \in SUBSET Nat, S # {}
  PROVE  \E n \in S : \A m \in S : n <= m
<1> DEFINE Below == OpToRel(<, Nat)
<1>1. IsWellFoundedOn(Below, Nat)
  BY NatLessThanWellFounded
<1>2. \A m, n \in Nat : m < n => <<m, n>> \in Below
  BY DEF OpToRel
<1> HIDE DEF Below
<1>3. PICK n \in S : \A m \in S : <<m, n>> \notin Below
  BY <1>1, WFMin
<1>4. ASSUME NEW m \in S PROVE n <= m
  <2>1. ~(m < n)
    BY <1>2, <1>3
  <2> QED
    BY <2>1
<1> QED
  BY <1>4

\* A set with 0 and every successor has all numbers.
LEMMA Induction ==
  ASSUME NEW S \in SUBSET Nat, 0 \in S, \A n \in S : n + 1 \in S
  PROVE  S = Nat
<1>1. ASSUME Nat \ S # {} PROVE FALSE
  <2>1. PICK n \in Nat \ S : \A m \in Nat \ S : n <= m
    BY <1>1, LeastNumber
  <2>2. n - 1 \in S
    BY <2>1
  <2> QED
    BY <2>1, <2>2
<1> QED
  BY <1>1

IsSum(f, rows, n) ==
  /\ f \in [0..n -> Nat] /\ f[0] = 0
  /\ \A k \in 1..n : f[k] = f[k - 1] + rows[k]

LEMMA SumExists ==
  ASSUME NEW n \in Nat, NEW rows, \A k \in 1..n : rows[k] \in Nat
  PROVE  \E f : IsSum(f, rows, n)
<1> DEFINE S == {m \in Nat : m <= n => \E f : IsSum(f, rows, m)}
<1>1. 0 \in S
  <2>1. IsSum([k \in 0..0 |-> 0], rows, 0)
    BY DEF IsSum
  <2> QED
    BY <2>1
<1>2. ASSUME NEW m \in S PROVE m + 1 \in S
  <2>1. SUFFICES ASSUME m + 1 <= n PROVE \E f : IsSum(f, rows, m + 1)
    OBVIOUS
  <2>2. PICK f : IsSum(f, rows, m)
    BY <2>1
  <2>3. rows[m + 1] \in Nat
    BY <2>1
  <2> DEFINE g == [k \in 0..(m + 1) |-> IF k <= m THEN f[k] ELSE f[m] + rows[m + 1]]
  <2>4. g \in [0..(m + 1) -> Nat] /\ g[0] = 0
    BY <2>2, <2>3 DEF IsSum
  <2>5. ASSUME NEW k \in 1..(m + 1) PROVE g[k] = g[k - 1] + rows[k]
    BY <2>2, <2>3 DEF IsSum
  <2>6. IsSum(g, rows, m + 1)
    BY <2>4, <2>5 DEF IsSum
  <2> QED
    BY <2>6
<1>3. S = Nat
  <2> HIDE DEF S
  <2>1. S \in SUBSET Nat
    BY DEF S
  <2> QED
    BY <1>1, <1>2, <2>1, Induction
<1> QED
  BY <1>3

LEMMA SumUnique ==
  ASSUME NEW m \in Nat, NEW n \in Nat, NEW f, NEW g, NEW rows, NEW others,
         IsSum(f, rows, m), IsSum(g, others, n), m <= n,
         \A k \in 1..m : rows[k] = others[k]
  PROVE  f[m] = g[m]
<1> DEFINE S == {k \in Nat : k <= m => f[k] = g[k]}
<1>1. 0 \in S
  BY DEF IsSum
<1>2. ASSUME NEW k \in S PROVE k + 1 \in S
  <2>1. SUFFICES ASSUME k + 1 <= m PROVE f[k + 1] = g[k + 1]
    OBVIOUS
  <2>2. f[k] = g[k] /\ k + 1 \in 1..m /\ k + 1 \in 1..n /\ (k + 1) - 1 = k
    BY <2>1
  <2>3. f[k + 1] = f[k] + rows[k + 1] /\ g[k + 1] = g[k] + others[k + 1]
    BY <2>2 DEF IsSum
  <2> QED
    BY <2>2, <2>3
<1>3. S = Nat
  <2> HIDE DEF S
  <2>1. S \in SUBSET Nat
    BY DEF S
  <2> QED
    BY <1>1, <1>2, <2>1, Induction
<1> QED
  BY <1>3

LEMMA SumDefined ==
  ASSUME NEW n \in Nat, NEW rows, \A k \in 1..n : rows[k] \in Nat
  PROVE  \E f : IsSum(f, rows, n) /\ SumUpTo(rows, n) = f[n]
<1> DEFINE Step(f) == [k \in 0..n |-> IF k = 0 THEN 0 ELSE f[k - 1] + rows[k]]
           sum == CHOOSE f : f = Step(f)
<1>1. PICK h : IsSum(h, rows, n)
  BY SumExists
<1>2. h = Step(h)
  BY <1>1 DEF IsSum
<1>3. sum = Step(sum)
  <2> HIDE DEF Step
  <2> QED
    BY <1>2
<1>4. SumUpTo(rows, n) = sum[n]
  BY DEF SumUpTo
<1>5. sum[0] = 0 /\ \A k \in 1..n : sum[k] = sum[k - 1] + rows[k]
  <2> HIDE DEF sum
  <2> QED
    BY <1>3
<1> HIDE DEF sum
<1>6. \A k \in 0..n : sum[k] \in Nat
  <2> DEFINE S == {k \in Nat : k <= n => sum[k] \in Nat}
  <2>1. 0 \in S
    BY <1>5
  <2>2. ASSUME NEW k \in S PROVE k + 1 \in S
    <3>1. SUFFICES ASSUME k + 1 <= n PROVE sum[k + 1] \in Nat
      OBVIOUS
    <3>2. k + 1 \in 1..n /\ (k + 1) - 1 = k /\ sum[k] \in Nat
      BY <3>1
    <3> QED
      BY <3>2, <1>5
  <2>3. S = Nat
    <3> HIDE DEF S
    <3>1. S \in SUBSET Nat
      BY DEF S
    <3> QED
      BY <2>1, <2>2, <3>1, Induction
  <2> QED
    BY <2>3
<1>7. sum \in [0..n -> Nat]
  BY <1>3, <1>6
<1> QED
  BY <1>4, <1>5, <1>7 DEF IsSum

\* What a sum is, without its recursion.
LEMMA SumNext ==
  ASSUME NEW n \in Nat, NEW rows, \A k \in 1..(n + 1) : rows[k] \in Nat
  PROVE  SumUpTo(rows, n + 1) = SumUpTo(rows, n) + rows[n + 1]
<1>1. PICK f : IsSum(f, rows, n) /\ SumUpTo(rows, n) = f[n]
  BY SumDefined
<1>2. PICK g : IsSum(g, rows, n + 1) /\ SumUpTo(rows, n + 1) = g[n + 1]
  BY SumDefined
<1>3. f[n] = g[n]
  BY <1>1, <1>2, SumUnique
<1>4. g[n + 1] = g[n] + rows[n + 1]
  <2>1. n + 1 \in 1..(n + 1) /\ (n + 1) - 1 = n
    OBVIOUS
  <2> QED
    BY <1>2, <2>1 DEF IsSum
<1> QED
  BY <1>1, <1>2, <1>3, <1>4

LEMMA SumType ==
  ASSUME NEW n \in Nat, NEW rows, \A k \in 1..n : rows[k] \in Nat
  PROVE  SumUpTo(rows, n) \in Nat /\ (n = 0 => SumUpTo(rows, n) = 0)
BY SumDefined DEF IsSum

LEMMA SumSame ==
  ASSUME NEW n \in Nat, NEW rows, NEW others, \A k \in 1..n : rows[k] \in Nat,
         \A k \in 1..n : rows[k] = others[k]
  PROVE  SumUpTo(rows, n) = SumUpTo(others, n)
<1>1. \A k \in 1..n : others[k] \in Nat
  OBVIOUS
<1>2. PICK f : IsSum(f, rows, n) /\ SumUpTo(rows, n) = f[n]
  BY SumDefined
<1>3. PICK g : IsSum(g, others, n) /\ SumUpTo(others, n) = g[n]
  BY <1>1, SumDefined
<1> QED
  BY <1>2, <1>3, SumUnique

-----------------------------------------------------------------------------
\* Rounding a quotient of natural numbers: within one of the integer quotient,
\* and exact when there is no remainder.
LEMMA RoundedRange ==
  ASSUME NEW n \in Nat, NEW d \in Nat \ {0}
  PROVE  /\ Rounded(n, d) \in Nat
         /\ n \div d <= Rounded(n, d)
         /\ Rounded(n, d) <= (n \div d) + 1
<1>1. n \div d \in Nat
  BY SMT
<1>2. n % d \in Nat
  BY SMT
<1>3. QED
  BY <1>1, <1>2, SMT DEF Rounded

\* The integer quotient does not decrease with the dividend.
LEMMA QuotientMonotone ==
  ASSUME NEW n1 \in Nat, NEW n2 \in Nat, NEW d \in Nat \ {0}, n1 <= n2
  PROVE  n1 \div d <= n2 \div d
  BY SMT

\* Dividends with the same quotient have remainders in the same order.
LEMMA RemainderMonotone ==
  ASSUME NEW n1 \in Nat, NEW n2 \in Nat, NEW d \in Nat \ {0}, n1 <= n2,
         n1 \div d = n2 \div d
  PROVE  n1 % d <= n2 % d
  BY SMT

\* Rounding half to even is monotone: two rows at the same quotient compare by
\* their remainders, the others by their quotients.
LEMMA RoundedMonotone ==
  ASSUME NEW n1 \in Nat, NEW n2 \in Nat, NEW d \in Nat \ {0}, n1 <= n2
  PROVE  Rounded(n1, d) <= Rounded(n2, d)
<1>1. /\ n1 \div d \in Nat /\ n2 \div d \in Nat
      /\ n1 % d \in Nat /\ n2 % d \in Nat
  BY SMT
<1>2. CASE n1 \div d = n2 \div d
  <2>1. n1 % d <= n2 % d
    BY <1>2, RemainderMonotone
  <2>2. QED
    BY <1>1, <1>2, <2>1, SMT DEF Rounded
<1>3. CASE n1 \div d # n2 \div d
  <2>1. (n1 \div d) + 1 <= n2 \div d
    BY <1>1, <1>3, QuotientMonotone, SMT
  <2>2. Rounded(n1, d) <= (n1 \div d) + 1 /\ n2 \div d <= Rounded(n2, d)
    BY RoundedRange
  <2>3. Rounded(n1, d) \in Nat /\ Rounded(n2, d) \in Nat
    BY RoundedRange
  <2>4. QED
    BY <1>1, <2>1, <2>2, <2>3, SMT
<1>4. QED
  BY <1>2, <1>3

-----------------------------------------------------------------------------
(* Whatever an executor counts and a plan promises (a stale total, a repeated *)
(* batch, an estimate of the row count), the percentage shown is one: the     *)
(* helpers' "Return 0-100 integer percentage."                                *)
THEOREM ProgressIsAPercentage ==
  ASSUME NEW processed \in Nat, NEW total \in Int
  PROVE  calculate_progress(processed, total) \in 0..100
<1>1. CASE total <= 0
  BY <1>1, SMT DEF calculate_progress
<1>2. CASE total > 0
  <2>1. Rounded(100 * processed, total) \in Nat
    BY <1>2, RoundedRange, SMT
  <2>2. QED
    BY <1>2, <2>1, SMT DEF calculate_progress
<1>3. QED
  BY <1>1, <1>2, SMT

(* A bar that follows one attempt never moves back: on_progress() adds to     *)
(* total_processed, and the percentage grows with it in spite of the rounding *)
(* to even and the cap.                                                       *)
THEOREM ProgressNeverMovesBack ==
  ASSUME NEW p1 \in Nat, NEW p2 \in Nat, NEW total \in Int, p1 <= p2
  PROVE  calculate_progress(p1, total) <= calculate_progress(p2, total)
<1>1. CASE total <= 0
  BY <1>1, SMT DEF calculate_progress
<1>2. CASE total > 0
  <2>1. 100 * p1 \in Nat /\ 100 * p2 \in Nat /\ 100 * p1 <= 100 * p2
    BY SMT
  <2>2. total \in Nat \ {0}
    BY <1>2, SMT
  <2>3. Rounded(100 * p1, total) <= Rounded(100 * p2, total)
    BY <2>1, <2>2, RoundedMonotone
  <2>4. Rounded(100 * p1, total) \in Nat /\ Rounded(100 * p2, total) \in Nat
    BY <2>1, <2>2, RoundedRange
  <2>5. QED
    BY <1>2, <2>3, <2>4, SMT DEF calculate_progress
<1>3. QED
  BY <1>1, <1>2, SMT

\* Ceiling(n, d) is the least number of d's that reach n.
LEMMA CeilingIsLeast ==
  ASSUME NEW n \in Nat, NEW d \in Nat \ {0}
  PROVE  /\ Ceiling(n, d) \in Nat
         /\ n <= d * Ceiling(n, d)
         /\ d * Ceiling(n, d) < n + d
<1>1. /\ n \div d \in Nat /\ n % d \in Nat /\ n % d < d
      /\ n = d * (n \div d) + (n % d)
  BY SMT
<1>2. PICK q \in Nat, r \in Nat : q = n \div d /\ r = n % d
  BY <1>1
<1>3. d * (q + 1) = d * q + d
  BY <1>2, SMT
<1>4. CASE r = 0
  BY <1>1, <1>2, <1>4, SMT DEF Ceiling
<1>5. CASE r # 0
  <2>1. Ceiling(n, d) = q + 1
    BY <1>2, <1>5 DEF Ceiling
  <2>2. QED
    BY <1>1, <1>2, <1>3, <1>5, <2>1, SMT
<1>6. QED
  BY <1>4, <1>5

(* The estimate is the least number of whole seconds in which the remaining   *)
(* rows are done at the rate so far, processed rows per elapsed second.       *)
THEOREM EstimateIsTight ==
  ASSUME NEW processed \in Nat \ {0}, NEW total \in Nat, NEW elapsed \in Nat \ {0},
         processed < total
  PROVE  LET eta == estimate_time_remaining(processed, total, elapsed)
         IN  /\ eta \in Nat
             /\ (total - processed) * elapsed <= processed * eta
             /\ processed * eta < (total - processed) * elapsed + processed
<1> DEFINE work == (total - processed) * elapsed
<1>1. work \in Nat
  BY SMT
<1>2. estimate_time_remaining(processed, total, elapsed) = Ceiling(work, processed)
  BY SMT DEF estimate_time_remaining
<1> HIDE DEF work
<1>3. /\ Ceiling(work, processed) \in Nat
      /\ work <= processed * Ceiling(work, processed)
      /\ processed * Ceiling(work, processed) < work + processed
  BY <1>1, CeilingIsLeast
<1>4. QED
  BY <1>2, <1>3 DEF work

(* start_migration() leaves the completed_at of the attempt that failed in    *)
(* the row (migration_service.py:171-174), so until the new attempt ends the   *)
(* status of a restarted migration shows neither a speed nor an estimate.      *)
THEOREM RestartedShowsNoSpeed ==
  ASSUME NEW row \in Row, NEW now \in Nat,
         row.started_at \in Nat, row.completed_at \in Nat,
         row.completed_at <= row.started_at
  PROVE  Status(row, now).speed = 0 /\ Status(row, now).estimated_time_remaining = 0
<1>1. row.started_at # None /\ row.completed_at # None
  BY NoneIsNoTime
<1>2. Elapsed(row, now) = row.completed_at - row.started_at
  BY <1>1 DEF Elapsed
<1>3. Elapsed(row, now) <= 0
  BY <1>2, SMT
<1>4. QED
  BY <1>3, SMT DEF Status, calculate_speed, estimate_time_remaining

=============================================================================
