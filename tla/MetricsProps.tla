---------------------------- MODULE MetricsProps ----------------------------
(***************************************************************************)
(* What the stored metrics and the chart promise, against the executions   *)
(* that were reported.                                                     *)
(***************************************************************************)
EXTENDS Metrics

\* The executions reported: <<r, k>> is the k-th of the r-th report.
Executions ==
  {e \in (DOMAIN reports) \X (1 .. MaxExecs) : e[2] \in DOMAIN reports[e[1]].batch}

Exec(e) == reports[e[1]].batch[e[2]]

\* The rows stored: <<r, k>> is the k-th of the r-th report.
RowsStored == UNION {{r} \X (1 .. reports[r].stored) : r \in DOMAIN reports}

\* The executions of patterns with fold f that a row stands for that is stored and
\* stamped in minute m.
Counted(f, m) ==
  {e \in Executions :
     /\ Fold[Exec(e).p] = f
     /\ \E x \in RowsStored :
          /\ x[1] = e[1] /\ Rows(reports[x[1]])[x[2]].p = Exec(e).p
          /\ MinuteOf(reports[x[1]].at[x[2]]) = m}

\* Rows have their types: what was an i64 or a usize fits an i32 column.
TypeOK ==
  /\ clock \in 0 .. MaxClock
  /\ \A r \in DOMAIN reports :
       LET report == reports[r]
           rows == DOMAIN Rows(report)
       IN report.stored \in Nat /\ 1 .. report.stored \subseteq rows
            /\ report.at \in [rows -> 0 .. clock]
            /\ (report.open => report.stored + 1 \in rows)
  /\ \A i \in DOMAIN table :
       /\ table[i].p \in Patterns /\ table[i].at \in 0 .. clock
       /\ {table[i].max, table[i].min} \subseteq (-Half) .. (Half - 1)
       /\ table[i].avg \in 0 .. Half - 1
       /\ table[i].hits <= table[i].count

\* A report has one row per statement, however its executions were interleaved:
\* the runs group_by makes are whole groups (sys_assistant_client.rs:78-80).
OneRowPerStatement ==
  \A i \in DOMAIN reports :
    LET rows == Condensed(reports[i].batch) IN
    \A j, k \in DOMAIN rows : rows[j].p = rows[k].p => j = k

Folds == {Fold[p] : p \in Patterns}

\* The chart counts every execution of the window whose row was stored, once, in the
\* minute of its row's stamp, and no other but those of the same fold; the same for the
\* hits: the strict bound on created_at and the join on the minute lose nothing at either
\* end (metric_history_controller.rs:80-122), rows stamped before and after the start of
\* a minute go to theirs, and of a report that fails half way the rows before are counted
\* in full (vt_node_controller.rs:45-62).
ChartCountsStored ==
  \A f \in Folds : LET chart == Chart(f) IN
    /\ {chart[i].minute : i \in DOMAIN chart} = ChartMinutes
    /\ \A i \in DOMAIN chart :
         LET xs == Counted(f, chart[i].minute) IN
         /\ chart[i].count = Cardinality(xs)
         /\ chart[i].hits = Cardinality({e \in xs : Exec(e).hit})

\* In every line min <= avg <= max, and min and max are those of the executions it
\* counts, as long as no duration of these overflows an i32; the average of the truncated
\* averages of several rows cannot leave the interval
\* (avg.rs:14-45, metric_history_controller.rs:96-99).
DurationsInOrder ==
  \A f \in Folds : LET chart == Chart(f) IN
    \A i \in DOMAIN chart :
      LET line == chart[i]
          ds == {Exec(e).d : e \in Counted(f, line.minute)}
      IN ds # {} /\ (\A d \in ds : d < Half) =>
           /\ line.min * line.n <= line.avgSum /\ line.avgSum <= line.max * line.n
           /\ line.min \in ds /\ line.max \in ds
           /\ \A d \in ds : line.min <= d /\ d <= line.max

\* The lines are in the order of time, except that over midnight the minutes of
\* the new day come first (metric_history_controller.rs:73, 123).
ChartInOrder ==
  \A f \in Folds : LET chart == Chart(f) IN
    \A i, j \in DOMAIN chart :
      i < j /\ chart[i].minute >= chart[j].minute =>
        chart[i].minute \div Day > chart[j].minute \div Day

PagedBy(L, limit) ==
  LET last == (Len(L) + limit - 1) \div limit
  IN /\ FlattenSeq([n \in 1 .. last |-> Page(L, n, limit)]) = L
     /\ Page(L, 0, limit) = Page(L, 1, limit)
     /\ Page(L, last + 1, limit) = <<>>

\* Paging through the statements shows each of them once, whatever the filter and the
\* limit, in whatever order MySQL lists them, as long as it is the same order for every
\* page, which the query does not ask for; page 0 is page 1
\* (model/mod.rs:97-114, metric_history_controller.rs:23-43).
PagesPartition ==
  \A filter \in SUBSET Patterns : \A L \in Listed(filter) : \A limit \in 1 .. 3 :
    PagedBy(L, limit)
=============================================================================
