------------------------------- MODULE Metrics -------------------------------
(***************************************************************************)
(* The numbers: how a proxy condenses the executions of one report         *)
(* (handle_metrics and AveragedCollection), how the admin stores them      *)
(* (register), and what /metric/list_sql computes from them.               *)
(*                                                                         *)
(* A statement pattern is a number, so that sorted_by_key has an order.    *)
(* Time is counted in seconds since a midnight, on one clock.  Reports     *)
(* are stored in any interleaving: the lock that orders them (VtNodes)     *)
(* changes only the order of the rows, which nothing here depends on.      *)
(***************************************************************************)
EXTENDS Integers, SequencesExt

CONSTANTS
  Samples,     \* executions: [p |-> pattern, d |-> milliseconds, hit |-> BOOLEAN]
  Fold,        \* what utf8mb4_unicode_ci takes for the same pattern has one Fold
  MaxExecs,    \* bound: executions in all reports
  MaxReports,  \* bound: reports
  MaxClock,    \* bound: seconds
  Half,        \* 2^31: an i32 is in -Half .. Half - 1
  Minute,      \* 60 seconds
  Day,         \* 1440 minutes
  Window       \* 30 minutes

Patterns == {x.p : x \in Samples}

ASSUME MetricsAssumption ==
  /\ \A x \in Samples : x.p \in Nat /\ x.d \in Nat /\ x.hit \in BOOLEAN
  /\ Fold \in [Patterns -> Nat]
  /\ {Half, Minute, Window} \subseteq Nat \ {0}
  /\ Day \in Nat /\ Day >= Window
  /\ {MaxExecs, MaxReports, MaxClock} \subseteq Nat

VARIABLES
  clock,    \* now
  reports,  \* the reports made: the executions, the seconds their rows are
            \*   stamped with, how many rows are stored, and whether the
            \*   admin will go on storing them
  table     \* metric_history

vars == <<clock, reports, table>>
-----------------------------------------------------------------------------
\* The elements of S in the order of Op, which is total on S.
InOrder(S, Op(_, _)) ==
  CHOOSE seq \in [1 .. Cardinality(S) -> S] :
    \A i, j \in DOMAIN seq : i < j => Op(seq[i], seq[j])

Ascending(S) == InOrder(S, LAMBDA i, j : i < j)

\* Mutant of Sorted: the executions stay in the order they came.
Unsorted(batch) == batch

(***************************************************************************)
(* The proxy.                                                              *)
(***************************************************************************)
\* sorted_by_key(sql_str): a stable sort.
SortOrder(batch) ==
  InOrder(DOMAIN batch, LAMBDA i, j : \/ batch[i].p < batch[j].p
                                      \/ batch[i].p = batch[j].p /\ i < j)

Sorted(batch) ==
  LET order == SortOrder(batch) IN [i \in DOMAIN batch |-> batch[order[i]]]

\* group_by(sql_str): runs of equal keys, each from where the key changes.
Starts(s) == Ascending({i \in DOMAIN s : i = 1 \/ s[i - 1].p # s[i].p})

Groups(s) ==
  LET starts == Starts(s)
      End(k) == IF k < Len(starts) THEN starts[k + 1] - 1 ELSE Len(s)
  IN [k \in DOMAIN starts |-> SubSeq(s, starts[k], End(k))]

SumOf(s) ==
  LET sum[i \in 0 .. Len(s)] == IF i = 0 THEN 0 ELSE sum[i - 1] + s[i] IN sum[Len(s)]

Durations(group) == [i \in DOMAIN group |-> group[i].d]

\* Mutant of Average: the average is updated before the value is added.
AverageLate(ds) ==
  IF Len(ds) = 1 THEN 0 ELSE SumOf(Front(ds)) \div (Len(ds) - 1)

\* AveragedCollection::average() as i32: the cast truncates and saturates.
Average(ds) ==
  LET mean == SumOf(ds) \div Len(ds) IN IF mean < Half THEN mean ELSE Half - 1

\* min_duration starts from i64::MAX and max_duration from -1, outside all durations.
MetricHistory(group) ==
  LET ds == Durations(group) IN
  [p |-> Head(group).p, avg |-> Average(ds), max |-> Max(ToSet(ds)), min |-> Min(ToSet(ds)),
   count |-> Len(group), hits |-> Cardinality({i \in DOMAIN group : group[i].hit})]

Condensed(batch) ==
  LET groups == Groups(Sorted(batch)) IN [i \in DOMAIN groups |-> MetricHistory(groups[i])]
-----------------------------------------------------------------------------
(***************************************************************************)
(* The proxy makes a report, and the admin stores its rows.                *)
(***************************************************************************)
\* Mutant of Wrapped: the value is stored as it is.
Unwrapped(v) == v

\* `as i32` of an i64 keeps the low 32 bits.
Wrapped(v) == ((v + Half) % (2 * Half)) - Half

Stored(row, at) ==
  [p |-> row.p, avg |-> row.avg, max |-> Wrapped(row.max), min |-> Wrapped(row.min),
   count |-> row.count, hits |-> row.hits, at |-> at]

Rows(report) == Condensed(report.batch)

Init == clock = 0 /\ reports = <<>> /\ table = <<>>

\* Each row is stamped when it is made; a second may begin between two rows.
Stamps(n) ==
  {at \in [1 .. n -> {clock - 1, clock} \cap Nat] : \A i, j \in 1 .. n : i < j => at[i] <= at[j]}

Report(batch) ==
  /\ Len(reports) < MaxReports
  /\ Len(batch) + SumOf([i \in DOMAIN reports |-> Len(reports[i].batch)]) <= MaxExecs
  /\ \E at \in Stamps(Len(Condensed(batch))) :
       reports' = Append(reports, [batch |-> batch, at |-> at, stored |-> 0, open |-> TRUE])
  /\ UNCHANGED <<clock, table>>

\* One insert.
Insert(r) ==
  /\ reports[r].open
  /\ LET k == reports[r].stored + 1
     IN /\ table' = Append(table, Stored(Rows(reports[r])[k], reports[r].at[k]))
        /\ reports' = [reports EXCEPT ![r] =
                        [@ EXCEPT !.stored = k, !.open = k < Len(Rows(reports[r]))]]
  /\ UNCHANGED clock

\* The report does not come, an insert fails (a pattern of more than 500 characters),
\* or the admin restarts: the rows that are not stored are lost.
Fail(r) ==
  /\ reports[r].open
  /\ reports' = [reports EXCEPT ![r].open = FALSE]
  /\ UNCHANGED <<clock, table>>

Tick == clock < MaxClock /\ clock' = clock + 1 /\ UNCHANGED <<reports, table>>

Done == clock = MaxClock /\ (\A r \in DOMAIN reports : ~reports[r].open) /\ UNCHANGED vars

Batches == UNION {[1 .. n -> Samples] : n \in 1 .. MaxExecs}

Next ==
  \/ \E batch \in Batches : Report(batch)
  \/ \E r \in DOMAIN reports : Insert(r) \/ Fail(r)
  \/ Tick \/ Done

Spec == Init /\ [][Next]_vars
-----------------------------------------------------------------------------
(***************************************************************************)
(* /metric/list_sql, evaluated in the current state.                       *)
(***************************************************************************)
MinuteOf(t) == t \div Minute

\* t1: the minute of now_str and the ones before it.
ChartMinutes == {MinuteOf(clock) - i : i \in 0 .. Window - 1}

\* Mutant of Recent: only rows that are older than now_str.
RecentFull(row) == row.at <= MinuteOf(clock) * Minute

\* created_at > DATE_SUB(now_str, INTERVAL 30 MINUTE)
Recent(row) == row.at > (MinuteOf(clock) - Window) * Minute

\* The rows joined to minute m for a pattern with fold f, by their index: sql_str = "..."
\* compares as the collation does.
RowsIn(f, m) ==
  {i \in DOMAIN table :
     Fold[table[i].p] = f /\ Recent(table[i]) /\ MinuteOf(table[i].at) = m}

Total(I, f) == SumOf([i \in DOMAIN table |-> IF i \in I THEN table[i][f] ELSE 0])

\* A line of the chart: the aggregates of one minute, zeros without rows.  The
\* average of the averages is kept as a fraction, avgSum / n.
Line(f, m) ==
  LET I == RowsIn(f, m) IN
  IF I = {}
  THEN [minute |-> m, n |-> 1, avgSum |-> 0, max |-> 0, min |-> 0, count |-> 0, hits |-> 0]
  ELSE [minute |-> m, n |-> Cardinality(I), avgSum |-> Total(I, "avg"),
        max |-> Max({table[i].max : i \in I}), min |-> Min({table[i].min : i \in I}),
        count |-> Total(I, "count"), hits |-> Total(I, "hits")]

\* Mutant of Label: ordered from the latest minute to the earliest.
LabelDesc(m) == -m

\* order by date: the alias of the formatted "%H:%i:00", the minute of the day.
Label(m) == m % Day

ByLabel(S) == InOrder(S, LAMBDA a, b : Label(a) < Label(b))

Chart(f) ==
  LET order == ByLabel(ChartMinutes) IN [i \in DOMAIN order |-> Line(f, order[i])]

\* The patterns that are in the table, one for each fold (group by sql_str), in any
\* order: the query has no ORDER BY.  With a filter (like ..) only some patterns count.
Listed(filter) ==
  SetToSeqs({Fold[p] : p \in filter \cap {table[i].p : i \in DOMAIN table}})

\* Mutant of PageNo: the caller's number is used as it is.
PageNoRaw(n) == n

\* get_page_no: pages count from 1 for the caller, from 0 for the paginator.
PageNo(n) == IF n > 0 THEN n - 1 ELSE n

\* A page of the list L: LIMIT and OFFSET.
Page(L, n, limit) ==
  LET from == PageNo(n) * limit
      kept == IF Len(L) < from + limit THEN Len(L) ELSE from + limit
  IN SubSeq(L, from + 1, kept)
=============================================================================
