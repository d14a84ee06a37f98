------------------------------- MODULE VtNodes -------------------------------
(***************************************************************************)
(* The registry of proxies kept by the admin process, and the reports that *)
(* feed it: handle_messages of each proxy (sys_assistant_client.rs), POST  *)
(* /vt_node/register (vt_node_controller.rs) and the job that drops nodes  *)
(* (vt_node_job.rs).                                                       *)
(*                                                                         *)
(* Handlers and the job share one tokio mutex, which is FIFO: queue is who *)
(* holds it, followed by who waits for it.  A handler keeps it while it    *)
(* inserts its rows, the job while it sleeps.                              *)
(*                                                                         *)
(* Instants are written as the time left until them, in ticks of one clock *)
(* (Time), so that no bound on time is needed: 0 is "in the past".         *)
(***************************************************************************)
EXTENDS Integers, SequencesExt

CONSTANTS
  Servers,    \* the proxies, that is, the keys ip:port
  Handlers,   \* bound: register requests in progress at a time
  Patterns,   \* Patterns[s]: those of the statements sent to proxy s, as numbers
              \*   in the order of sorted_by_key
  Lease,      \* 2 minutes, in ticks
  Nap,        \* 1 second, in ticks
  MaxExecs,   \* bound: executions per proxy
  Flaky,      \* proxies that may restart or lose the answer to a report
  NodeFaults  \* "db": an insert fails; "crash": the admin process restarts

ASSUME NodesAssumption ==
  /\ Patterns \in [Servers -> SUBSET Nat]
  /\ {Lease, Nap} \subseteq Nat \ {0}
  /\ MaxExecs \in Nat
  /\ Flaky \subseteq Servers
  /\ NodeFaults \subseteq {"db", "crash"}
  /\ "job" \notin Handlers

VARIABLES
  made,     \* executions a proxy has logged so far
  logs,     \* its exec-log channel
  posting,  \* the batch of the POST it awaits, <<>> if none
  req,      \* the register requests
  nodes,    \* vt_nodes: time left until expire_at, NotListed without entry
  table,    \* metric_history: in how many rows an execution is counted
  queue,    \* vt_nodes_lock
  job,      \* program counter of the alive check
  nap       \* time left of its sleep

proxyVars == <<made, logs, posting>>
jobState  == <<job, nap>>
vars == <<proxyVars, req, nodes, table, queue, jobState>>

NotListed == -1
Execs == Servers \X (1 .. MaxExecs)
NoReq == [pc |-> "idle"]

\* The next row of a report, of which the executions in todo are left: there is one
\* per pattern, in the order of the patterns.
Row(todo) == {l \in todo : \A m \in todo : l.p <= m.p}

Init ==
  /\ made = [s \in Servers |-> 0]
  /\ logs = [s \in Servers |-> <<>>]
  /\ posting = [s \in Servers |-> <<>>]
  /\ req = [h \in Handlers |-> NoReq]
  /\ nodes = [s \in Servers |-> NotListed]
  /\ table = [e \in Execs |-> 0]
  /\ queue = <<>>
  /\ job = "tick"
  /\ nap = 0
-----------------------------------------------------------------------------
(***************************************************************************)
(* A proxy.                                                                *)
(***************************************************************************)
\* A session logs an execution.
Execute(s, p) ==
  /\ made[s] < MaxExecs
  /\ made' = [made EXCEPT ![s] = @ + 1]
  /\ logs' = [logs EXCEPT ![s] = Append(@, [n |-> made[s] + 1, p |-> p])]
  /\ UNCHANGED <<posting, req, nodes, table, queue, jobState>>

\* The channel is drained into a POST; the admin receives it, or cannot be
\* reached.
Post(s) ==
  /\ posting' = [posting EXCEPT ![s] = logs[s]]
  /\ \/ \E h \in Handlers :
          /\ req[h] = NoReq
          /\ req' = [req EXCEPT ![h] = [pc |-> "received", server |-> s, left |-> 0,
                                        todo |-> ToSet(logs[s]), awaited |-> TRUE]]
     \/ UNCHANGED req

\* Mutants of MetricsTick: the job does not wait for its POST to end; the
\* messages are copied, not received.
TickUnawaited(s) ==
  /\ logs[s] # <<>>
  /\ Post(s)
  /\ logs' = [logs EXCEPT ![s] = <<>>]
  /\ UNCHANGED <<made, nodes, table, queue, jobState>>

TickKeeps(s) ==
  /\ posting[s] = <<>> /\ logs[s] # <<>>
  /\ Post(s)
  /\ UNCHANGED <<made, logs, nodes, table, queue, jobState>>

\* A tick of handle_messages, which awaits handle_metrics.
MetricsTick(s) ==
  /\ posting[s] = <<>>
  /\ logs[s] # <<>>
  /\ Post(s)
  /\ logs' = [logs EXCEPT ![s] = <<>>]
  /\ UNCHANGED <<made, nodes, table, queue, jobState>>

AwaitedBy(h, s) == req[h] # NoReq /\ req[h].server = s /\ req[h].awaited

\* The answer, or an error: either is only logged.
PostDone(s) ==
  /\ posting[s] # <<>>
  /\ ~\E h \in Handlers : AwaitedBy(h, s)
  /\ posting' = [posting EXCEPT ![s] = <<>>]
  /\ UNCHANGED <<made, logs, req, nodes, table, queue, jobState>>

\* The connection breaks: the proxy sees an error, the handler goes on.
AnswerLost(h) ==
  /\ req[h] # NoReq /\ req[h].awaited
  /\ req[h].server \in Flaky
  /\ req' = [req EXCEPT ![h].awaited = FALSE]
  /\ UNCHANGED <<proxyVars, nodes, table, queue, jobState>>
\* The proxy restarts: its channel and the batch it awaits are gone, while the
\* admin goes on with what it has received.
ProxyRestart(s) ==
  /\ s \in Flaky
  /\ logs' = [logs EXCEPT ![s] = <<>>]
  /\ posting' = [posting EXCEPT ![s] = <<>>]
  /\ req' = [h \in Handlers |-> IF AwaitedBy(h, s) THEN [req[h] EXCEPT !.awaited = FALSE]
                                ELSE req[h]]
  /\ UNCHANGED <<made, nodes, table, queue, jobState>>
-----------------------------------------------------------------------------
(***************************************************************************)
(* register                                                                *)
(***************************************************************************)
At(h, label) == req[h].pc = label

\* Mutant of Holds: who waits goes in as well.
HoldsOrWaits(who) == \E i \in DOMAIN queue : queue[i] = who

Holds(who) == queue # <<>> /\ Head(queue) = who

\* expire_at is computed before the lock is asked for.
Stamp(h) ==
  /\ At(h, "received")
  /\ req' = [req EXCEPT ![h].pc = "stamped", ![h].left = Lease]
  /\ UNCHANGED <<proxyVars, nodes, table, queue, jobState>>

Joined(who) == Append(queue, who)

Enqueue(h) ==
  /\ At(h, "stamped")
  /\ req' = [req EXCEPT ![h].pc = "queued"]
  /\ queue' = Joined(h)
  /\ UNCHANGED <<proxyVars, nodes, table, jobState>>

NodeInsert(h) ==
  /\ At(h, "queued") /\ Holds(h)
  /\ nodes' = [nodes EXCEPT ![req[h].server] = req[h].left]
  /\ req' = [req EXCEPT ![h].pc = "rows"]
  /\ UNCHANGED <<proxyVars, table, queue, jobState>>

\* The request is answered: its guard drops.
Answer(h) ==
  /\ req' = [req EXCEPT ![h] = NoReq]
  /\ queue' = Tail(queue)

\* One insert into metric_history; when it fails the earlier ones stay.
RowInsert(h) ==
  /\ At(h, "rows") /\ req[h].todo # {}
  /\ table' = [e \in Execs |->
                 IF e[1] = req[h].server /\ \E l \in Row(req[h].todo) : l.n = e[2]
                 THEN table[e] + 1 ELSE table[e]]
  /\ req' = [req EXCEPT ![h].todo = @ \ Row(@)]
  /\ UNCHANGED <<proxyVars, nodes, queue, jobState>>

RowFails(h) ==
  /\ "db" \in NodeFaults
  /\ At(h, "rows") /\ req[h].todo # {}
  /\ Answer(h)
  /\ UNCHANGED <<proxyVars, nodes, table, jobState>>

Registered(h) ==
  /\ At(h, "rows") /\ req[h].todo = {}
  /\ Answer(h)
  /\ UNCHANGED <<proxyVars, nodes, table, jobState>>
-----------------------------------------------------------------------------
(***************************************************************************)
(* enable_vt_node_alive_check.  The interval of 1 ms is always due after   *)
(* the sleep, so the job asks for the lock again as soon as it drops it.   *)
(***************************************************************************)
JobQueues ==
  /\ job = "tick"
  /\ job' = "queued"
  /\ queue' = Joined("job")
  /\ UNCHANGED <<proxyVars, req, nodes, table, nap>>

\* Mutant of Retained: now <= expire_at in place of now < expire_at.
RetainedToo(s) == nodes[s] >= 0

Retained(s) == nodes[s] > 0

JobChecks ==
  /\ job = "queued" /\ Holds("job")
  /\ nodes' = [s \in Servers |-> IF Retained(s) THEN nodes[s] ELSE NotListed]
  /\ job' = "sleeps"
  /\ nap' = Nap
  /\ UNCHANGED <<proxyVars, req, table, queue>>

\* Mutants of JobWakes: the guard is not dropped; it outlives the iteration, so
\* that the job goes on under it.
JobKeepsGuard ==
  /\ job = "sleeps" /\ nap = 0
  /\ job' = "tick"
  /\ UNCHANGED <<proxyVars, req, nodes, table, queue, nap>>

JobStays ==
  /\ job = "sleeps" /\ nap = 0
  /\ job' = "queued"
  /\ UNCHANGED <<proxyVars, req, nodes, table, queue, nap>>

JobWakes ==
  /\ job = "sleeps" /\ nap = 0
  /\ job' = "tick"
  /\ queue' = Tail(queue)
  /\ UNCHANGED <<proxyVars, req, nodes, table, nap>>
-----------------------------------------------------------------------------
Less(t) == IF t > 0 THEN t - 1 ELSE t

\* One tick of the clock (external).
Time ==
  /\ nodes' = [s \in Servers |-> Less(nodes[s])]
  /\ req' = [h \in Handlers |-> IF req[h] = NoReq THEN NoReq
                                ELSE [req[h] EXCEPT !.left = Less(@)]]
  /\ nap' = Less(nap)
  /\ UNCHANGED <<proxyVars, table, queue, job>>

\* The admin process restarts: what is in memory is gone.
Restart ==
  /\ "crash" \in NodeFaults
  /\ req' = [h \in Handlers |-> NoReq]
  /\ nodes' = [s \in Servers |-> NotListed]
  /\ queue' = <<>>
  /\ job' = "tick"
  /\ nap' = 0
  /\ UNCHANGED <<proxyVars, table>>

Proxy(s) ==
  (\E p \in Patterns[s] : Execute(s, p)) \/ MetricsTick(s) \/ PostDone(s) \/ ProxyRestart(s)

Register(h) == Stamp(h) \/ Enqueue(h) \/ NodeInsert(h) \/ RowInsert(h) \/ Registered(h)

Job == JobQueues \/ JobChecks \/ JobWakes

Next ==
  \/ \E s \in Servers : Proxy(s)
  \/ \E h \in Handlers : Register(h) \/ RowFails(h) \/ AnswerLost(h)
  \/ Job
  \/ Time
  \/ Restart

Spec == Init /\ [][Next]_vars
=============================================================================
