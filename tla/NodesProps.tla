----------------------------- MODULE NodesProps -----------------------------
(***************************************************************************)
(* What the registry of proxies and the reports promise.                   *)
(***************************************************************************)
EXTENDS VtNodes

Records == [n : 1 .. MaxExecs, p : UNION Range(Patterns)]

Requests == [pc : {"received", "stamped", "queued", "rows"}, server : Servers,
             left : 0 .. Lease, todo : SUBSET Records, awaited : BOOLEAN]

\* Every variable has its type; nobody is twice in the queue of the lock.
TypeOK ==
  /\ made \in [Servers -> 0 .. MaxExecs]
  /\ logs \in [Servers -> Seq(Records)]
  /\ posting \in [Servers -> Seq(Records)]
  /\ req \in [Handlers -> Requests \cup {NoReq}]
  /\ nodes \in [Servers -> {NotListed} \cup 0 .. Lease]
  /\ table \in [Execs -> Nat]
  /\ queue \in Seq(Handlers \cup {"job"}) /\ IsInjective(queue)
  /\ job \in {"tick", "queued", "sleeps"}
  /\ nap \in 0 .. Nap

\* Where execution e is: still in the channel, or in a row to be inserted.
InChannel(e) == \E i \in DOMAIN logs[e[1]] : logs[e[1]][i].n = e[2]

InRequest(e, h) ==
  /\ req[h] # NoReq /\ req[h].server = e[1]
  /\ \E l \in req[h].todo : l.n = e[2]

\* An execution is counted in one row at most, and while it is still on its
\* way it is in none: a failed, lost or interrupted report is never repeated,
\* only lost (sys_assistant_client.rs:65-73, vt_node_controller.rs:45-63).
CountedOnce ==
  \A e \in Execs :
    /\ table[e] <= 1
    /\ table[e] = 1 => ~InChannel(e) /\ \A h \in Handlers : ~InRequest(e, h)

\* Only the passing of time brings the end of a lease nearer: a report never
\* replaces the expire_at of a later one, although expire_at is computed before
\* the lock is taken (vt_node_controller.rs:39-43).  This is owed to the proxy,
\* which has one POST at a time, and holds whatever the others do; a proxy that
\* restarts or loses an answer has two reports on the way, in any order.
LeaseOnlyRenewed ==
  [][\A s \in Servers \ Flaky :
       nodes'[s] < nodes[s] => Time \/ nodes'[s] = NotListed]_vars

\* While a report is being stored, its node has the lease the report brought,
\* less the time that has passed: neither the alive check nor another report of
\* the same node comes between (vt_node_controller.rs:41-63, vt_node_job.rs:20).
LeaseUnderLock ==
  \A h \in Handlers : At(h, "rows") => nodes[req[h].server] = req[h].left

\* The proxy's own view of its reports.
Queues(s) == INSTANCE Assistant WITH
  Keys <- {}, TaskCap <- 1, LogCap <- MaxExecs + 1, Faults <- {},
  tasks <- <<>>, logs <- logs[s], batch <- posting[s], redis <- <<>>

QueueStep(s) ==
  \/ \E n \in 1 .. MaxExecs, p \in Patterns[s] : Queues(s)!SendLog([n |-> n, p |-> p])
  \/ Queues(s)!MetricsTick
  \/ Queues(s)!RegisterDone
  \/ s \in Flaky /\ logs'[s] = <<>> /\ posting'[s] = <<>>

\* Each proxy's queue, with the admin behind it, is the queue that module
\* Assistant describes, which starts anew with the proxy: what the admin does, its
\* restarts included, never touches the channel, or the batch until its POST ends
\* (sys_assistant_client.rs:59-146).
ImplementsQueue ==
  [][\A s \in Servers :
       UNCHANGED <<logs[s], posting[s]>> \/ QueueStep(s)]_vars
-----------------------------------------------------------------------------
(***************************************************************************)
(* Liveness: handlers, the job and the clock go on.                        *)
(***************************************************************************)
FairSpec ==
  /\ Spec
  /\ \A h \in Handlers : WF_vars(Register(h))
  /\ WF_vars(Job) /\ WF_vars(Time)

\* A report that waits for the lock gets it, although the job asks for it again
\* as soon as it drops it and sleeps with it (vt_node_job.rs:18-29).
ReportServed ==
  \A h \in Handlers : []<>~At(h, "queued")

\* An expired node does not stay listed (vt_node_job.rs:21-23).
ExpiredForgotten ==
  \A s \in Servers : []<>(nodes[s] # 0)

\* "vt-server nodes, the living nodes are kept in memory" (admin/src/main.rs:96):
\* a living proxy with nothing left to report stays listed.
AliveNodesKept ==
  [][\A s \in Servers :
       nodes[s] # NotListed /\ logs[s] = <<>> /\ posting[s] = <<>>
         => nodes'[s] # NotListed]_vars
=============================================================================
