---------------------------- MODULE NodesProofs ----------------------------
(***************************************************************************)
(* Proofs about the registry of proxies and their reports, for any proxies,*)
(* handlers, leases and faults.                                            *)
(***************************************************************************)
EXTENDS NodesProps, SequenceTheorems, TLAPS

-----------------------------------------------------------------------------
(***************************************************************************)
(* The lock: who is in the queue, and who is at its head.                  *)
(***************************************************************************)
InQueue(who) == \E i \in DOMAIN queue : queue[i] = who

InLock(h) == At(h, "queued") \/ At(h, "rows")

\* The queue holds exactly those who asked for the lock and have not let it go;
\* who is past it is at the head.
QueueOK ==
  /\ \A h \in Handlers : InLock(h) <=> InQueue(h)
  /\ job \in {"queued", "sleeps"} <=> InQueue("job")
  /\ \A h \in Handlers : At(h, "rows") => Holds(h)
  /\ job = "sleeps" => Holds("job")

LockInv == TypeOK /\ QueueOK

\* Who joins the queue is behind the others.
LEMMA JoinQueue ==
  ASSUME TypeOK, NEW who \in Handlers \cup {"job"}, ~InQueue(who), queue' = Joined(who)
  PROVE  /\ queue' \in Seq(Handlers \cup {"job"}) /\ IsInjective(queue')
         /\ \A x : InQueue(x)' <=> InQueue(x) \/ x = who
         /\ \A x : Holds(x) => Holds(x)'
<1>1. queue \in Seq(Handlers \cup {"job"}) /\ IsInjective(queue)
  BY DEF TypeOK
<1>2. PICK n \in Nat : n = Len(queue) /\ DOMAIN queue = 1 .. n
  BY <1>1
<1>3. /\ queue' \in Seq(Handlers \cup {"job"})
      /\ DOMAIN queue' = 1 .. n + 1
      /\ \A i \in 1 .. n : queue'[i] = queue[i]
      /\ queue'[n + 1] = who
  BY <1>1, <1>2 DEF Joined
<1>4. IsInjective(queue')
  BY <1>1, <1>2, <1>3 DEF IsInjective, InQueue
<1>5. \A x : InQueue(x)' <=> InQueue(x) \/ x = who
  BY <1>2, <1>3 DEF InQueue
<1>6. \A x : Holds(x) => Holds(x)'
  BY <1>1, <1>2, <1>3 DEF Holds
<1> QED BY <1>3, <1>4, <1>5, <1>6

\* Who lets go leaves the queue, and nobody else does.
LEMMA LeaveQueue ==
  ASSUME TypeOK, NEW who, Holds(who), queue' = Tail(queue)
  PROVE  /\ queue' \in Seq(Handlers \cup {"job"}) /\ IsInjective(queue')
         /\ \A x : InQueue(x)' <=> InQueue(x) /\ x # who
<1>1. queue \in Seq(Handlers \cup {"job"}) /\ IsInjective(queue) /\ queue # <<>>
  BY DEF TypeOK, Holds
<1>2. PICK n \in Nat : n + 1 = Len(queue) /\ DOMAIN queue = 1 .. n + 1
  <2> DEFINE m == Len(queue) - 1
  <2>1. Len(queue) \in Nat \ {0} /\ DOMAIN queue = 1 .. Len(queue)
    BY <1>1, EmptySeq, LenProperties
  <2>2. m \in Nat /\ m + 1 = Len(queue)
    BY <2>1
  <2>3. DOMAIN queue = 1 .. m + 1
    BY <2>1, <2>2
  <2> QED BY <2>2, <2>3
<1>3. /\ queue' \in Seq(Handlers \cup {"job"})
      /\ DOMAIN queue' = 1 .. n
      /\ \A i \in 1 .. n : queue'[i] = queue[i + 1]
      /\ queue[1] = who
  BY <1>1, <1>2 DEF Holds
<1>4. IsInjective(queue')
  BY <1>1, <1>2, <1>3 DEF IsInjective
<1>5. ASSUME NEW x PROVE InQueue(x)' <=> InQueue(x) /\ x # who
  <2>1. ASSUME NEW i \in 1 .. n, queue'[i] = x PROVE InQueue(x) /\ x # who
    <3>1. i + 1 \in DOMAIN queue /\ queue[i + 1] = x /\ 1 \in DOMAIN queue /\ i + 1 # 1
      BY <1>2, <1>3, <2>1
    <3> QED BY <1>1, <1>3, <3>1 DEF InQueue, IsInjective
  <2>2. ASSUME NEW i \in 1 .. n + 1, queue[i] = x, x # who PROVE InQueue(x)'
    <3>1. i - 1 \in 1 .. n /\ queue'[i - 1] = x
      BY <1>3, <2>2
    <3> QED BY <1>3, <3>1 DEF InQueue
  <2> QED BY <1>2, <1>3, <2>1, <2>2 DEF InQueue
<1> QED BY <1>3, <1>4, <1>5

\* There is one at the head.
LEMMA OneHolder ==
  ASSUME NEW x, NEW y, Holds(x), Holds(y)
  PROVE  x = y
BY DEF Holds

\* A request that a handler has in hand.
LEMMA InHand ==
  ASSUME TypeOK, NEW h \in Handlers, req[h] # NoReq
  PROVE  req[h] \in Requests
BY DEF TypeOK

\* ... and it has none otherwise.
LEMMA Idle ==
  ASSUME TypeOK, NEW h \in Handlers
  PROVE  req[h] = NoReq <=> At(h, "idle")
<1>1. req[h] = NoReq => At(h, "idle")
  BY DEF At, NoReq
<1>2. req[h] # NoReq => ~At(h, "idle")
  BY InHand DEF At, Requests
<1> QED BY <1>1, <1>2
-----------------------------------------------------------------------------
(***************************************************************************)
(* LockInv holds in every step: the parts the step leaves alone, then what *)
(* it does to them.                                                        *)
(***************************************************************************)
\* A step that changes where no handler and not the job stands to the lock.
LEMMA LockStays ==
  ASSUME LockInv, TypeOK', UNCHANGED <<queue, job>>,
         \A h \in Handlers : /\ InLock(h)' <=> InLock(h)
                             /\ At(h, "rows")' => At(h, "rows")
  PROVE  LockInv'
BY DEF LockInv, QueueOK, InQueue, Holds

LEMMA ExecuteLock ==
  ASSUME LockInv, NEW s \in Servers, NEW p \in Patterns[s], Execute(s, p)
  PROVE  LockInv'
<1>1. /\ made[s] < MaxExecs
      /\ made' = [made EXCEPT ![s] = made[s] + 1]
      /\ logs' = [logs EXCEPT ![s] = Append(logs[s], [n |-> made[s] + 1, p |-> p])]
      /\ UNCHANGED <<posting, req, nodes, table, queue, job, nap>>
  BY DEF Execute, jobState
<1>2. made \in [Servers -> 0 .. MaxExecs] /\ logs \in [Servers -> Seq(Records)]
  BY DEF LockInv, TypeOK
<1>3. [n |-> made[s] + 1, p |-> p] \in Records
  BY <1>1, <1>2, NodesAssumption DEF Records, Range, NodesAssumption
<1>4. made' \in [Servers -> 0 .. MaxExecs]
  BY <1>1, <1>2, NodesAssumption DEF NodesAssumption
<1>5. logs' \in [Servers -> Seq(Records)]
  BY <1>1, <1>2, <1>3
<1>6. TypeOK'
  BY <1>1, <1>4, <1>5 DEF LockInv, TypeOK
<1> QED BY <1>1, <1>6, LockStays DEF InLock, At

LEMMA MetricsTickLock ==
  ASSUME LockInv, NEW s \in Servers, MetricsTick(s)
  PROVE  LockInv'
<1>1. /\ posting' = [posting EXCEPT ![s] = logs[s]]
      /\ logs' = [logs EXCEPT ![s] = <<>>]
      /\ UNCHANGED <<made, nodes, table, queue, job, nap>>
  BY DEF MetricsTick, Post, jobState
<1>2. logs \in [Servers -> Seq(Records)] /\ posting \in [Servers -> Seq(Records)]
  BY DEF LockInv, TypeOK
<1>3. posting' \in [Servers -> Seq(Records)] /\ logs' \in [Servers -> Seq(Records)]
  <2>1. <<>> \in Seq(Records)
    OBVIOUS
  <2> QED BY <1>1, <1>2, <2>1
<1>4. CASE UNCHANGED req
  <2>1. TypeOK'
    BY <1>1, <1>3, <1>4 DEF LockInv, TypeOK
  <2> QED BY <1>1, <1>4, <2>1, LockStays DEF InLock, At
<1>5. ASSUME NEW h \in Handlers, req[h] = NoReq,
             req' = [req EXCEPT ![h] = [pc |-> "received", server |-> s, left |-> 0,
                                        todo |-> ToSet(logs[s]), awaited |-> TRUE]]
      PROVE  LockInv'
  <2>1. ToSet(logs[s]) \subseteq Records
    <3>1. logs[s] \in Seq(Records)
      BY <1>2
    <3> QED BY <3>1 DEF ToSet
  <2>2. [pc |-> "received", server |-> s, left |-> 0, todo |-> ToSet(logs[s]),
         awaited |-> TRUE] \in Requests
    BY <2>1, NodesAssumption DEF Requests, NodesAssumption
  <2>3. req' \in [Handlers -> Requests \cup {NoReq}]
    BY <1>5, <2>2 DEF LockInv, TypeOK
  <2>4. TypeOK'
    BY <1>1, <1>3, <2>3 DEF LockInv, TypeOK
  <2>5. \A l \in Handlers : (InLock(l)' <=> InLock(l)) /\ (At(l, "rows")' => At(l, "rows"))
    BY <1>5 DEF LockInv, TypeOK, InLock, At, NoReq
  <2> QED BY <1>1, <2>4, <2>5, LockStays
<1> QED BY <1>4, <1>5 DEF MetricsTick, Post

LEMMA PostDoneLock ==
  ASSUME LockInv, NEW s \in Servers, PostDone(s)
  PROVE  LockInv'
<1>1. posting' = [posting EXCEPT ![s] = <<>>]
      /\ UNCHANGED <<made, logs, req, nodes, table, queue, job, nap>>
  BY DEF PostDone, jobState
<1>2. posting' \in [Servers -> Seq(Records)]
  BY <1>1 DEF LockInv, TypeOK
<1>3. TypeOK'
  BY <1>1, <1>2 DEF LockInv, TypeOK
<1> QED BY <1>1, <1>3, LockStays DEF InLock, At

LEMMA AnswerLostLock ==
  ASSUME LockInv, NEW h \in Handlers, AnswerLost(h)
  PROVE  LockInv'
<1>1. /\ req[h] # NoReq /\ req' = [req EXCEPT ![h].awaited = FALSE]
      /\ UNCHANGED <<made, logs, posting, nodes, table, queue, job, nap>>
  BY DEF AnswerLost, proxyVars, jobState
<1>2. req[h] \in Requests
  BY <1>1, InHand DEF LockInv
<1>3. req' \in [Handlers -> Requests \cup {NoReq}]
  BY <1>1, <1>2 DEF LockInv, TypeOK, Requests
<1>4. TypeOK'
  BY <1>1, <1>3 DEF LockInv, TypeOK
<1>5. \A l \in Handlers : req'[l].pc = req[l].pc
  BY <1>1, <1>2 DEF LockInv, TypeOK, Requests
<1> QED BY <1>1, <1>4, <1>5, LockStays DEF InLock, At

LEMMA ProxyRestartLock ==
  ASSUME LockInv, NEW s \in Servers, ProxyRestart(s)
  PROVE  LockInv'
<1>1. /\ logs' = [logs EXCEPT ![s] = <<>>] /\ posting' = [posting EXCEPT ![s] = <<>>]
      /\ req' = [h \in Handlers |->
                   IF AwaitedBy(h, s) THEN [req[h] EXCEPT !.awaited = FALSE] ELSE req[h]]
      /\ UNCHANGED <<made, nodes, table, queue, job, nap>>
  BY DEF ProxyRestart, jobState
<1>2. posting' \in [Servers -> Seq(Records)] /\ logs' \in [Servers -> Seq(Records)]
  BY <1>1 DEF LockInv, TypeOK
<1>3. ASSUME NEW h \in Handlers
      PROVE  req'[h] \in Requests \cup {NoReq} /\ req'[h].pc = req[h].pc
  <2>1. CASE AwaitedBy(h, s)
    <3>1. req[h] \in Requests
      BY <2>1, InHand DEF AwaitedBy, LockInv
    <3> QED BY <1>1, <2>1, <3>1 DEF Requests
  <2>2. CASE ~AwaitedBy(h, s)
    BY <1>1, <2>2 DEF LockInv, TypeOK
  <2> QED BY <2>1, <2>2
<1>4. TypeOK'
  BY <1>1, <1>2, <1>3 DEF LockInv, TypeOK
<1> QED BY <1>1, <1>3, <1>4, LockStays DEF InLock, At

LEMMA StampLock ==
  ASSUME LockInv, NEW h \in Handlers, Stamp(h)
  PROVE  LockInv'
<1>1. /\ At(h, "received")
      /\ req' = [req EXCEPT ![h].pc = "stamped", ![h].left = Lease]
      /\ UNCHANGED <<made, logs, posting, nodes, table, queue, job, nap>>
  BY DEF Stamp, proxyVars, jobState
<1>2. req[h] \in Requests
  BY <1>1, InHand DEF LockInv, At, NoReq
<1>3. req'[h] = [req[h] EXCEPT !.pc = "stamped", !.left = Lease]
      /\ \A l \in Handlers \ {h} : req'[l] = req[l]
  BY <1>1 DEF LockInv, TypeOK
<1>4. req'[h] \in Requests
  <2>1. Lease \in 0 .. Lease
    BY NodesAssumption DEF NodesAssumption
  <2> QED BY <1>2, <1>3, <2>1 DEF Requests
<1>5. req' \in [Handlers -> Requests \cup {NoReq}]
  BY <1>1, <1>4 DEF LockInv, TypeOK
<1>6. TypeOK'
  BY <1>1, <1>5 DEF LockInv, TypeOK
<1>7. req'[h].pc = "stamped"
  BY <1>2, <1>3 DEF Requests
<1> QED BY <1>1, <1>3, <1>6, <1>7, LockStays DEF InLock, At

LEMMA EnqueueLock ==
  ASSUME LockInv, NEW h \in Handlers, Enqueue(h)
  PROVE  LockInv'
<1>1. /\ At(h, "stamped")
      /\ req' = [req EXCEPT ![h].pc = "queued"]
      /\ queue' = Joined(h)
      /\ UNCHANGED <<made, logs, posting, nodes, table, job, nap>>
  BY DEF Enqueue, proxyVars, jobState
<1>2. req[h] \in Requests
  BY <1>1, InHand DEF LockInv, At, NoReq
<1>3. req'[h] = [req[h] EXCEPT !.pc = "queued"]
      /\ \A l \in Handlers \ {h} : req'[l] = req[l]
  BY <1>1 DEF LockInv, TypeOK
<1>4. req'[h] \in Requests /\ req'[h].pc = "queued"
  BY <1>2, <1>3 DEF Requests
<1>5. req' \in [Handlers -> Requests \cup {NoReq}]
  BY <1>1, <1>4 DEF LockInv, TypeOK
<1>6. ~InQueue(h)
  BY <1>1 DEF LockInv, QueueOK, InLock, At
<1>7. /\ queue' \in Seq(Handlers \cup {"job"}) /\ IsInjective(queue')
      /\ \A x : InQueue(x)' <=> InQueue(x) \/ x = h
      /\ \A x : Holds(x) => Holds(x)'
  BY <1>1, <1>6, JoinQueue DEF LockInv
<1>8. TypeOK'
  BY <1>1, <1>5, <1>7 DEF LockInv, TypeOK
<1>9. h # "job"
  BY NodesAssumption DEF NodesAssumption
<1>10. QueueOK'
  BY <1>1, <1>3, <1>4, <1>7, <1>9 DEF LockInv, QueueOK, InLock, At
<1> QED BY <1>8, <1>10 DEF LockInv

LEMMA NodeInsertLock ==
  ASSUME LockInv, NEW h \in Handlers, NodeInsert(h)
  PROVE  LockInv'
<1>1. /\ At(h, "queued") /\ Holds(h)
      /\ nodes' = [nodes EXCEPT ![req[h].server] = req[h].left]
      /\ req' = [req EXCEPT ![h].pc = "rows"]
      /\ UNCHANGED <<made, logs, posting, table, queue, job, nap>>
  BY DEF NodeInsert, proxyVars, jobState
<1>2. req[h] \in Requests
  BY <1>1, InHand DEF LockInv, At, NoReq
<1>3. req'[h] = [req[h] EXCEPT !.pc = "rows"]
      /\ \A l \in Handlers \ {h} : req'[l] = req[l]
  BY <1>1 DEF LockInv, TypeOK
<1>4. req'[h] \in Requests /\ req'[h].pc = "rows"
  BY <1>2, <1>3 DEF Requests
<1>5. req' \in [Handlers -> Requests \cup {NoReq}]
  BY <1>1, <1>4 DEF LockInv, TypeOK
<1>6. nodes' \in [Servers -> {NotListed} \cup 0 .. Lease]
  BY <1>1, <1>2 DEF LockInv, TypeOK, Requests
<1>7. TypeOK'
  BY <1>1, <1>5, <1>6 DEF LockInv, TypeOK
<1>8. QueueOK'
  BY <1>1, <1>3, <1>4 DEF LockInv, QueueOK, InLock, InQueue, Holds, At
<1> QED BY <1>7, <1>8 DEF LockInv

LEMMA RowInsertLock ==
  ASSUME LockInv, NEW h \in Handlers, RowInsert(h)
  PROVE  LockInv'
<1> DEFINE Counted(e) == e[1] = req[h].server /\ \E l \in Row(req[h].todo) : l.n = e[2]
<1>1. /\ At(h, "rows")
      /\ table' = [e \in Execs |-> IF Counted(e) THEN table[e] + 1 ELSE table[e]]
      /\ req' = [req EXCEPT ![h].todo = req[h].todo \ Row(req[h].todo)]
      /\ UNCHANGED <<made, logs, posting, nodes, queue, job, nap>>
  BY DEF RowInsert, proxyVars, jobState
<1> HIDE DEF Counted
<1>2. req[h] \in Requests
  BY <1>1, InHand DEF LockInv, At, NoReq
<1>3. req'[h] = [req[h] EXCEPT !.todo = req[h].todo \ Row(req[h].todo)]
      /\ \A l \in Handlers \ {h} : req'[l] = req[l]
  BY <1>1 DEF LockInv, TypeOK
<1>4. req'[h] \in Requests /\ req'[h].pc = req[h].pc
  BY <1>2, <1>3 DEF Requests
<1>5. req' \in [Handlers -> Requests \cup {NoReq}]
  BY <1>1, <1>4 DEF LockInv, TypeOK
<1>6. table' \in [Execs -> Nat]
  BY <1>1 DEF LockInv, TypeOK
<1>7. TypeOK'
  BY <1>1, <1>5, <1>6 DEF LockInv, TypeOK
<1>8. \A l \in Handlers : req'[l].pc = req[l].pc
  BY <1>3, <1>4
<1> QED BY <1>1, <1>7, <1>8, LockStays DEF InLock, At

\* A request is answered, whether its rows were inserted or not.
LEMMA AnswerLock ==
  ASSUME LockInv, NEW h \in Handlers, At(h, "rows"), Answer(h),
         UNCHANGED <<proxyVars, nodes, table, jobState>>
  PROVE  LockInv'
<1>1. /\ req' = [req EXCEPT ![h] = NoReq]
      /\ queue' = Tail(queue)
      /\ UNCHANGED <<made, logs, posting, nodes, table, job, nap>>
  BY DEF Answer, proxyVars, jobState
<1>2. Holds(h)
  BY DEF LockInv, QueueOK
<1>3. /\ queue' \in Seq(Handlers \cup {"job"}) /\ IsInjective(queue')
      /\ \A x : InQueue(x)' <=> InQueue(x) /\ x # h
  BY <1>1, <1>2, LeaveQueue DEF LockInv
<1>4. req' \in [Handlers -> Requests \cup {NoReq}]
      /\ req'[h] = NoReq /\ \A l \in Handlers \ {h} : req'[l] = req[l]
  BY <1>1 DEF LockInv, TypeOK
<1>5. TypeOK'
  BY <1>1, <1>3, <1>4 DEF LockInv, TypeOK
<1>6. h # "job"
  BY NodesAssumption DEF NodesAssumption
<1>7. /\ \A l \in Handlers : At(l, "rows") => l = h
      /\ job # "sleeps"
  BY <1>2, <1>6, OneHolder DEF LockInv, QueueOK
<1>8. ~InLock(h)' /\ ~At(h, "rows")'
  BY <1>4 DEF InLock, At, NoReq
<1>9. QueueOK'
  BY <1>1, <1>3, <1>4, <1>6, <1>7, <1>8 DEF LockInv, QueueOK, InLock, At
<1> QED BY <1>5, <1>9 DEF LockInv

LEMMA JobLock ==
  ASSUME LockInv, Job
  PROVE  LockInv'
<1>0. \A h \in Handlers : h # "job"
  BY NodesAssumption DEF NodesAssumption
<1>1. CASE JobQueues
  <2>1. /\ job = "tick" /\ job' = "queued" /\ queue' = Joined("job")
        /\ UNCHANGED <<made, logs, posting, req, nodes, table, nap>>
    BY <1>1 DEF JobQueues, proxyVars
  <2>2. ~InQueue("job")
    BY <2>1 DEF LockInv, QueueOK
  <2>3. /\ queue' \in Seq(Handlers \cup {"job"}) /\ IsInjective(queue')
        /\ \A x : InQueue(x)' <=> InQueue(x) \/ x = "job"
        /\ \A x : Holds(x) => Holds(x)'
    BY <2>1, <2>2, JoinQueue DEF LockInv
  <2>4. TypeOK'
    BY <2>1, <2>3 DEF LockInv, TypeOK
  <2>5. QueueOK'
    BY <1>0, <2>1, <2>3 DEF LockInv, QueueOK, InLock, At
  <2> QED BY <2>4, <2>5 DEF LockInv
<1>2. CASE JobChecks
  <2>1. /\ job = "queued" /\ Holds("job") /\ job' = "sleeps" /\ nap' = Nap
        /\ nodes' = [s \in Servers |-> IF Retained(s) THEN nodes[s] ELSE NotListed]
        /\ UNCHANGED <<made, logs, posting, req, table, queue>>
    BY <1>2 DEF JobChecks, proxyVars
  <2>2. nodes' \in [Servers -> {NotListed} \cup 0 .. Lease]
    BY <2>1 DEF LockInv, TypeOK
  <2>3. nap' \in 0 .. Nap
    BY <2>1, NodesAssumption DEF NodesAssumption
  <2>4. TypeOK'
    BY <2>1, <2>2, <2>3 DEF LockInv, TypeOK
  <2>5. QueueOK'
    BY <2>1 DEF LockInv, QueueOK, InLock, InQueue, Holds, At
  <2> QED BY <2>4, <2>5 DEF LockInv
<1>3. CASE JobWakes
  <2>1. /\ job = "sleeps" /\ job' = "tick" /\ queue' = Tail(queue)
        /\ UNCHANGED <<made, logs, posting, req, nodes, table, nap>>
    BY <1>3 DEF JobWakes, proxyVars
  <2>2. Holds("job")
    BY <2>1 DEF LockInv, QueueOK
  <2>3. /\ queue' \in Seq(Handlers \cup {"job"}) /\ IsInjective(queue')
        /\ \A x : InQueue(x)' <=> InQueue(x) /\ x # "job"
    BY <2>1, <2>2, LeaveQueue DEF LockInv
  <2>4. TypeOK'
    BY <2>1, <2>3 DEF LockInv, TypeOK
  <2>5. \A h \in Handlers : ~At(h, "rows")
    BY <1>0, <2>2, OneHolder DEF LockInv, QueueOK
  <2>6. QueueOK'
    BY <1>0, <2>1, <2>3, <2>5 DEF LockInv, QueueOK, InLock, At
  <2> QED BY <2>4, <2>6 DEF LockInv
<1> QED BY <1>1, <1>2, <1>3 DEF Job

\* A time left is one less, or over.
LEMMA LessTyped ==
  ASSUME NEW n \in Nat, NEW t \in {NotListed} \cup 0 .. n
  PROVE  /\ Less(t) \in {NotListed} \cup 0 .. n
         /\ t \in 0 .. n => Less(t) \in 0 .. n
         /\ t = NotListed <=> Less(t) = NotListed
BY DEF Less, NotListed

LEMMA TimeLock ==
  ASSUME LockInv, Time
  PROVE  LockInv'
<1>1. /\ nodes' = [s \in Servers |-> Less(nodes[s])]
      /\ req' = [h \in Handlers |-> IF req[h] = NoReq THEN NoReq
                                    ELSE [req[h] EXCEPT !.left = Less(req[h].left)]]
      /\ nap' = Less(nap)
      /\ UNCHANGED <<made, logs, posting, table, queue, job>>
  BY DEF Time, proxyVars
<1>2. Lease \in Nat /\ Nap \in Nat
  BY NodesAssumption DEF NodesAssumption
<1>3. nodes' \in [Servers -> {NotListed} \cup 0 .. Lease]
  BY <1>1, <1>2, LessTyped DEF LockInv, TypeOK
<1>4. nap' \in 0 .. Nap
  BY <1>1, <1>2, LessTyped DEF LockInv, TypeOK
<1>5. ASSUME NEW h \in Handlers
      PROVE  req'[h] \in Requests \cup {NoReq} /\ req'[h].pc = req[h].pc
  <2>1. CASE req[h] = NoReq
    BY <1>1, <2>1
  <2>2. CASE req[h] # NoReq
    <3>1. req[h] \in Requests
      BY <2>2, InHand DEF LockInv
    <3>2. Less(req[h].left) \in 0 .. Lease
      BY <1>2, <3>1, LessTyped DEF Requests
    <3> QED BY <1>1, <2>2, <3>1, <3>2 DEF Requests
  <2> QED BY <2>1, <2>2
<1>6. TypeOK'
  BY <1>1, <1>3, <1>4, <1>5 DEF LockInv, TypeOK
<1> QED BY <1>1, <1>5, <1>6, LockStays DEF InLock, At

LEMMA RestartLock ==
  ASSUME LockInv, Restart
  PROVE  LockInv'
<1>1. /\ req' = [h \in Handlers |-> NoReq] /\ nodes' = [s \in Servers |-> NotListed]
      /\ queue' = <<>> /\ job' = "tick" /\ nap' = 0
      /\ UNCHANGED <<made, logs, posting, table>>
  BY DEF Restart, proxyVars
<1>2. TypeOK'
  BY <1>1, NodesAssumption DEF LockInv, TypeOK, IsInjective, NodesAssumption
<1>3. QueueOK'
  BY <1>1 DEF QueueOK, InLock, InQueue, At, NoReq
<1> QED BY <1>2, <1>3 DEF LockInv

LEMMA InitLock == Init => LockInv
<1> SUFFICES ASSUME Init PROVE LockInv
  OBVIOUS
<1>1. TypeOK
  BY NodesAssumption DEF Init, TypeOK, IsInjective, NodesAssumption
<1>2. QueueOK
  BY DEF Init, QueueOK, InLock, InQueue, At, NoReq
<1> QED BY <1>1, <1>2 DEF LockInv

LEMMA NextLock == LockInv /\ [Next]_vars => LockInv'
<1> SUFFICES ASSUME LockInv, [Next]_vars PROVE LockInv'
  OBVIOUS
<1>1. ASSUME NEW s \in Servers, Proxy(s) PROVE LockInv'
  BY <1>1, ExecuteLock, MetricsTickLock, PostDoneLock, ProxyRestartLock DEF Proxy
<1>2. ASSUME NEW h \in Handlers, Register(h) \/ RowFails(h) PROVE LockInv'
  BY <1>2, StampLock, EnqueueLock, NodeInsertLock, RowInsertLock, AnswerLock
     DEF Register, RowFails, Registered
<1>3. ASSUME NEW h \in Handlers, AnswerLost(h) PROVE LockInv'
  BY <1>3, AnswerLostLock
<1>4. CASE Job
  BY <1>4, JobLock
<1>5. CASE Time
  BY <1>5, TimeLock
<1>6. CASE Restart
  BY <1>6, RestartLock
<1>7. CASE UNCHANGED vars
  <2>1. UNCHANGED <<made, logs, posting, req, nodes, table, queue, job, nap>>
    BY <1>7 DEF vars, proxyVars, jobState
  <2>2. TypeOK'
    BY <2>1 DEF LockInv, TypeOK
  <2> QED BY <2>1, <2>2, LockStays DEF InLock, At
<1> QED BY <1>1, <1>2, <1>3, <1>4, <1>5, <1>6, <1>7 DEF Next

\* Every variable keeps its type, and nobody is in the queue of the lock twice.
THEOREM NodesTypes == Spec => []TypeOK
<1>1. LockInv => TypeOK
  BY DEF LockInv
<1> QED BY <1>1, InitLock, NextLock, PTL DEF Spec
-----------------------------------------------------------------------------
(***************************************************************************)
(* LeaseUnderLock: from NodeInsert to the answer nobody else has the lock. *)
(***************************************************************************)
\* A step that leaves the nodes alone, and the reports that are being stored.
LEMMA LeaseStays ==
  ASSUME LeaseUnderLock, UNCHANGED nodes,
         \A h \in Handlers : At(h, "rows")' =>
           At(h, "rows") /\ req'[h].server = req[h].server /\ req'[h].left = req[h].left
  PROVE  LeaseUnderLock'
BY DEF LeaseUnderLock

\* A handler that stores its report is the only one.
LEMMA OneStores ==
  ASSUME LockInv, NEW h \in Handlers, Holds(h), NEW l \in Handlers, At(l, "rows")
  PROVE  l = h
BY OneHolder DEF LockInv, QueueOK

LEMMA RegisterLease ==
  ASSUME LockInv, LeaseUnderLock, NEW h \in Handlers, Register(h) \/ RowFails(h)
  PROVE  LeaseUnderLock'
<1>1. req[h] # NoReq => req[h] \in Requests
  BY InHand DEF LockInv
<1>2. req = [l \in Handlers |-> req[l]] /\ nodes = [s \in Servers |-> nodes[s]]
  BY DEF LockInv, TypeOK
<1>3. CASE Stamp(h)
  <2>1. /\ At(h, "received") /\ UNCHANGED nodes
        /\ req' = [req EXCEPT ![h] = [req[h] EXCEPT !.pc = "stamped", !.left = Lease]]
    BY <1>2, <1>3 DEF Stamp
  <2>2. req'[h].pc = "stamped" /\ \A l \in Handlers \ {h} : req'[l] = req[l]
    BY <1>1, <1>2, <2>1 DEF At, NoReq, Requests
  <2> QED BY <2>1, <2>2, LeaseStays DEF At
<1>4. CASE Enqueue(h)
  <2>1. At(h, "stamped") /\ UNCHANGED nodes /\ req' = [req EXCEPT ![h].pc = "queued"]
    BY <1>4 DEF Enqueue
  <2>2. req'[h].pc = "queued" /\ \A l \in Handlers \ {h} : req'[l] = req[l]
    BY <1>1, <1>2, <2>1 DEF At, NoReq, Requests
  <2> QED BY <2>1, <2>2, LeaseStays DEF At
<1>5. CASE NodeInsert(h)
  <2>1. /\ At(h, "queued") /\ Holds(h) /\ req' = [req EXCEPT ![h].pc = "rows"]
        /\ nodes' = [nodes EXCEPT ![req[h].server] = req[h].left]
    BY <1>5 DEF NodeInsert
  <2>2. req[h] \in Requests
    BY <1>1, <2>1 DEF At, NoReq
  <2>3. req'[h].server = req[h].server /\ req'[h].left = req[h].left
        /\ \A l \in Handlers \ {h} : req'[l] = req[l]
    BY <1>2, <2>1, <2>2 DEF Requests
  <2>4. nodes'[req'[h].server] = req'[h].left
    BY <1>2, <2>1, <2>2, <2>3 DEF Requests
  <2>5. \A l \in Handlers \ {h} : ~At(l, "rows")'
    BY <2>1, <2>3, OneStores DEF At
  <2> QED BY <2>4, <2>5 DEF LeaseUnderLock
<1>6. CASE RowInsert(h)
  <2>1. At(h, "rows") /\ UNCHANGED nodes
        /\ req' = [req EXCEPT ![h].todo = req[h].todo \ Row(req[h].todo)]
    BY <1>6 DEF RowInsert
  <2>2. /\ req'[h].server = req[h].server /\ req'[h].left = req[h].left
        /\ \A l \in Handlers \ {h} : req'[l] = req[l]
    BY <1>1, <1>2, <2>1 DEF At, NoReq, Requests
  <2> QED BY <2>1, <2>2, LeaseStays DEF At
<1>7. CASE Registered(h) \/ RowFails(h)
  <2>1. req' = [req EXCEPT ![h] = NoReq] /\ UNCHANGED nodes
    BY <1>7 DEF Registered, RowFails, Answer
  <2>2. ~At(h, "rows")' /\ \A l \in Handlers \ {h} : req'[l] = req[l]
    BY <1>2, <2>1 DEF At, NoReq
  <2> QED BY <2>1, <2>2, LeaseStays DEF At
<1> QED BY <1>3, <1>4, <1>5, <1>6, <1>7 DEF Register

LEMMA ProxyLease ==
  ASSUME LockInv, LeaseUnderLock, NEW s \in Servers, Proxy(s)
  PROVE  LeaseUnderLock'
<1>1. req = [l \in Handlers |-> req[l]]
  BY DEF LockInv, TypeOK
<1>2. CASE UNCHANGED <<req, nodes>>
  BY <1>2, LeaseStays DEF At
<1>3. ASSUME NEW h \in Handlers, UNCHANGED nodes,
             req' = [req EXCEPT ![h] = [pc |-> "received", server |-> s, left |-> 0,
                                        todo |-> ToSet(logs[s]), awaited |-> TRUE]]
      PROVE  LeaseUnderLock'
  <2>1. ~At(h, "rows")' /\ \A l \in Handlers \ {h} : req'[l] = req[l]
    BY <1>1, <1>3 DEF At
  <2> QED BY <1>3, <2>1, LeaseStays DEF At
<1>4. CASE ProxyRestart(s)
  <2>1. \A l \in Handlers : req'[l] = req[l] \/ req'[l] = [req[l] EXCEPT !.awaited = FALSE]
    BY <1>4 DEF ProxyRestart
  <2>2. ASSUME NEW l \in Handlers
        PROVE  /\ req'[l].pc = req[l].pc
               /\ At(l, "rows") => /\ req'[l].server = req[l].server
                                   /\ req'[l].left = req[l].left
    <3>1. req[l] \in Requests \cup {NoReq}
      BY DEF LockInv, TypeOK
    <3> QED BY <2>1, <3>1 DEF At, NoReq, Requests
  <2> QED BY <1>4, <2>2, LeaseStays DEF At, ProxyRestart
<1> QED BY <1>2, <1>3, <1>4 DEF Proxy, Execute, MetricsTick, Post, PostDone

LEMMA NextLease == LockInv /\ LeaseUnderLock /\ [Next]_vars => LeaseUnderLock'
<1> SUFFICES ASSUME LockInv, LeaseUnderLock, [Next]_vars PROVE LeaseUnderLock'
  OBVIOUS
<1>1. ASSUME NEW s \in Servers, Proxy(s) PROVE LeaseUnderLock'
  BY <1>1, ProxyLease
<1>2. ASSUME NEW h \in Handlers, Register(h) \/ RowFails(h) PROVE LeaseUnderLock'
  BY <1>2, RegisterLease
<1>3. ASSUME NEW h \in Handlers, AnswerLost(h) PROVE LeaseUnderLock'
  <2>1. req[h] # NoReq /\ req' = [req EXCEPT ![h].awaited = FALSE] /\ UNCHANGED nodes
    BY <1>3 DEF AnswerLost
  <2>2. req[h] \in Requests /\ req = [l \in Handlers |-> req[l]]
    BY <2>1, InHand DEF LockInv, TypeOK
  <2>3. /\ req'[h].pc = req[h].pc /\ req'[h].server = req[h].server
        /\ req'[h].left = req[h].left /\ \A l \in Handlers \ {h} : req'[l] = req[l]
    BY <2>1, <2>2 DEF Requests
  <2> QED BY <2>1, <2>3, LeaseStays DEF At
<1>4. CASE Job
  <2>1. CASE JobQueues \/ JobWakes
    BY <2>1, LeaseStays DEF JobQueues, JobWakes, At
  <2>2. CASE JobChecks
    <3>1. Holds("job") /\ UNCHANGED req
      BY <2>2 DEF JobChecks
    <3>2. \A h \in Handlers : ~At(h, "rows")
      BY <3>1, NodesAssumption, OneHolder DEF LockInv, QueueOK, NodesAssumption
    <3> QED BY <3>1, <3>2 DEF LeaseUnderLock, At
  <2> QED BY <1>4, <2>1, <2>2 DEF Job
<1>5. CASE Time
  <2> SUFFICES ASSUME NEW h \in Handlers, At(h, "rows")'
               PROVE  nodes'[req'[h].server] = req'[h].left
    BY DEF LeaseUnderLock
  <2>1. /\ nodes' = [s \in Servers |-> Less(nodes[s])]
        /\ req'[h] = IF req[h] = NoReq THEN NoReq
                     ELSE [req[h] EXCEPT !.left = Less(req[h].left)]
    BY <1>5 DEF Time
  <2>2. req[h] # NoReq
    BY <2>1 DEF At, NoReq
  <2>3. req[h] \in Requests
    BY <2>2, InHand DEF LockInv
  <2>4. /\ req'[h].pc = req[h].pc /\ req'[h].server = req[h].server
        /\ req'[h].left = Less(req[h].left) /\ req[h].server \in Servers
    BY <2>1, <2>2, <2>3 DEF Requests
  <2>5. nodes[req[h].server] = req[h].left
    BY <2>4 DEF LeaseUnderLock, At
  <2> QED BY <2>1, <2>4, <2>5
<1>6. CASE Restart
  <2>1. \A h \in Handlers : ~At(h, "rows")'
    BY <1>6 DEF Restart, At, NoReq
  <2> QED BY <2>1 DEF LeaseUnderLock
<1>7. CASE UNCHANGED vars
  BY <1>7, LeaseStays DEF vars, At
<1> QED BY <1>1, <1>2, <1>3, <1>4, <1>5, <1>6, <1>7 DEF Next

\* While a handler stores a report, the lease of the node is the one it brought, for
\* any number of handlers and proxies: the alive check and other reports wait for
\* the lock (vt_node_controller.rs:41-63, vt_node_job.rs:20).
THEOREM LeaseGuarded == Spec => []LeaseUnderLock
<1>1. Init => LeaseUnderLock
  BY DEF Init, LeaseUnderLock, At, NoReq
<1> QED BY <1>1, InitLock, NextLock, NextLease, PTL DEF Spec
-----------------------------------------------------------------------------
(***************************************************************************)
(* CountedOnce: an execution is in one place at a time, from the channel   *)
(* to one request to the table, and the places it leaves it never enters   *)
(* again.                                                                  *)
(***************************************************************************)
\* The executions in a channel or in a request are made, and told by their numbers.
NumbersOK ==
  /\ \A s \in Servers : \A i, j \in DOMAIN logs[s] :
       /\ logs[s][i].n <= made[s]
       /\ logs[s][i].n = logs[s][j].n => i = j
  /\ \A h \in Handlers : req[h] # NoReq => \A l, m \in req[h].todo :
       /\ l.n <= made[req[h].server]
       /\ l.n = m.n => l = m

\* What is in a channel is in no request, nothing is in two, and nothing is
\* counted before it is made.
PlacesOK ==
  \A e \in Execs :
    /\ table[e] # 0 => e[2] <= made[e[1]]
    /\ \A h \in Handlers : InRequest(e, h) =>
         ~InChannel(e) /\ \A g \in Handlers : InRequest(e, g) => g = h

CountInv == NumbersOK /\ PlacesOK /\ CountedOnce

\* A step that at most empties channels or ends requests.
LEMMA CountStays ==
  ASSUME CountInv, UNCHANGED <<made, table>>,
         \A s \in Servers : logs'[s] = logs[s] \/ logs'[s] = <<>>,
         \A h \in Handlers : \/ req'[h] = NoReq
                             \/ /\ req[h] # NoReq
                                /\ req'[h].server = req[h].server
                                /\ req'[h].todo = req[h].todo
  PROVE  CountInv'
<1>1. NumbersOK'
  BY DEF CountInv, NumbersOK
<1>2. ASSUME NEW e \in Execs
      PROVE  /\ InChannel(e)' => InChannel(e)
             /\ \A h \in Handlers : InRequest(e, h)' => InRequest(e, h)
  BY DEF InChannel, InRequest, Execs
<1>3. PlacesOK' /\ CountedOnce'
  BY <1>2 DEF CountInv, PlacesOK, CountedOnce
<1> QED BY <1>1, <1>3 DEF CountInv

\* A new execution has a number of its own.
LEMMA ExecuteCount ==
  ASSUME TypeOK, CountInv, NEW s \in Servers, NEW p \in Patterns[s], Execute(s, p)
  PROVE  CountInv'
<1> DEFINE log == [n |-> made[s] + 1, p |-> p]
<1>1. /\ made' = [made EXCEPT ![s] = made[s] + 1]
      /\ logs' = [logs EXCEPT ![s] = Append(logs[s], log)]
      /\ UNCHANGED <<req, table>>
  BY DEF Execute
<1>2. /\ made \in [Servers -> Nat] /\ logs \in [Servers -> Seq(Records)]
      /\ \A h \in Handlers : req[h] # NoReq => req[h] \in Requests
  BY NodesAssumption DEF TypeOK, NodesAssumption
<1>3. /\ made'[s] = made[s] + 1 /\ \A r \in Servers \ {s} : made'[r] = made[r]
      /\ logs'[s] = Append(logs[s], log) /\ \A r \in Servers \ {s} : logs'[r] = logs[r]
  BY <1>1, <1>2
<1>4. PICK m \in Nat :
        /\ DOMAIN logs[s] = 1 .. m /\ DOMAIN logs'[s] = 1 .. m + 1
        /\ \A i \in 1 .. m : logs'[s][i] = logs[s][i]
        /\ logs'[s][m + 1] = log
  <2>1. logs[s] \in Seq(Records)
    BY <1>2
  <2> QED BY <1>3, <2>1
<1>5. \A i \in DOMAIN logs[s] : logs[s][i].n \in Nat /\ logs[s][i].n <= made[s]
  <2>1. logs[s] \in Seq(Records)
    BY <1>2
  <2>2. \A i \in DOMAIN logs[s] : logs[s][i].n \in Nat
    <3>1. \A r \in Records : r.n \in Nat
      BY NodesAssumption DEF Records, NodesAssumption
    <3> QED BY <2>1, <3>1
  <2> QED BY <2>2 DEF CountInv, NumbersOK
<1>6. NumbersOK'
  <2>1. ASSUME NEW r \in Servers, NEW i \in DOMAIN logs'[r], NEW j \in DOMAIN logs'[r]
        PROVE  logs'[r][i].n <= made'[r] /\ (logs'[r][i].n = logs'[r][j].n => i = j)
    <3>1. CASE r # s
      BY <1>3, <2>1, <3>1 DEF CountInv, NumbersOK
    <3>2. CASE r = s
      <4>1. /\ i \in 1 .. m => logs'[s][i].n \in Nat /\ logs'[s][i].n <= made[s]
            /\ j \in 1 .. m => logs'[s][j].n \in Nat /\ logs'[s][j].n <= made[s]
            /\ logs'[s][m + 1].n = made[s] + 1
            /\ i \in 1 .. m + 1 /\ j \in 1 .. m + 1 /\ made[s] \in Nat
        BY <1>2, <1>4, <1>5, <2>1, <3>2
      <4>2. i \in 1 .. m /\ j \in 1 .. m => (logs'[s][i].n = logs'[s][j].n => i = j)
        BY <1>4 DEF CountInv, NumbersOK
      <4>3. (i \in 1 .. m \/ i = m + 1) /\ (j \in 1 .. m \/ j = m + 1)
        BY <4>1
      <4>4. logs'[s][i].n <= made[s] + 1
        BY <4>1, <4>3
      <4>5. logs'[s][i].n = logs'[s][j].n => i = j
        BY <4>1, <4>2, <4>3
      <4> QED BY <1>3, <3>2, <4>4, <4>5
    <3> QED BY <3>1, <3>2
  <2>2. ASSUME NEW h \in Handlers, req[h] # NoReq, NEW l \in req[h].todo
        PROVE  l.n <= made'[req[h].server]
    <3>1. req[h].server \in Servers /\ l.n \in Nat /\ l.n <= made[req[h].server]
      <4>1. req[h].server \in Servers /\ l \in Records
        BY <1>2, <2>2 DEF Requests
      <4>2. l.n \in Nat
        BY <4>1, NodesAssumption DEF Records, NodesAssumption
      <4> QED BY <2>2, <4>1, <4>2 DEF CountInv, NumbersOK
    <3>2. made[req[h].server] \in Nat
          /\ made'[req[h].server] \in {made[req[h].server], made[req[h].server] + 1}
      BY <1>2, <1>3, <3>1
    <3> QED BY <3>1, <3>2
  <2> QED BY <1>1, <2>1, <2>2 DEF CountInv, NumbersOK
<1>7. ASSUME NEW e \in Execs
      PROVE  /\ InChannel(e)' => InChannel(e) \/ e = <<s, made[s] + 1>>
             /\ \A h \in Handlers : InRequest(e, h)' <=> InRequest(e, h)
             /\ \A h \in Handlers : InRequest(e, h) => e[2] <= made[e[1]]
             /\ e[1] \in Servers /\ e[2] \in Nat
  <2>1. e[1] \in Servers /\ e[2] \in Nat /\ e = <<e[1], e[2]>>
    BY DEF Execs
  <2>2. InChannel(e)' => InChannel(e) \/ e = <<s, made[s] + 1>>
    <3>1. CASE e[1] # s
      BY <1>3, <2>1, <3>1 DEF InChannel
    <3>2. CASE e[1] = s
      BY <1>4, <2>1, <3>2 DEF InChannel
    <3> QED BY <3>1, <3>2
  <2>3. \A h \in Handlers : InRequest(e, h)' <=> InRequest(e, h)
    BY <1>1 DEF InRequest
  <2>4. \A h \in Handlers : InRequest(e, h) => e[2] <= made[e[1]]
    BY DEF InRequest, CountInv, NumbersOK
  <2> QED BY <2>1, <2>2, <2>3, <2>4
<1>8. ASSUME NEW e \in Execs
      PROVE  made[e[1]] <= made'[e[1]] /\ (e = <<s, made[s] + 1>> => ~(e[2] <= made[e[1]]))
  BY <1>2, <1>3, <1>7
<1>9. PlacesOK'
  <2>1. ASSUME NEW e \in Execs, table[e] # 0 PROVE e[2] <= made'[e[1]]
    <3>1. e[2] <= made[e[1]]
      BY <2>1 DEF CountInv, PlacesOK
    <3>2. made[e[1]] <= made'[e[1]]
      BY <1>8
    <3>3. /\ made[e[1]] \in Nat /\ e[2] \in Nat
          /\ made'[e[1]] \in {made[e[1]], made[e[1]] + 1}
      BY <1>2, <1>3, <1>7
    <3> QED BY <3>1, <3>2, <3>3
  <2> QED BY <1>1, <1>7, <1>8, <2>1 DEF CountInv, PlacesOK
<1>10. CountedOnce'
  BY <1>1, <1>7, <1>8 DEF CountInv, PlacesOK, CountedOnce
<1> QED BY <1>6, <1>9, <1>10 DEF CountInv

\* The channel moves into one request, or is lost.
LEMMA MetricsTickCount ==
  ASSUME TypeOK, CountInv, NEW s \in Servers, MetricsTick(s)
  PROVE  CountInv'
<1>1. logs' = [logs EXCEPT ![s] = <<>>] /\ UNCHANGED <<made, table>>
  BY DEF MetricsTick
<1>2. /\ logs \in [Servers -> Seq(Records)] /\ req = [h \in Handlers |-> req[h]]
  BY DEF TypeOK
<1>3. CASE UNCHANGED req
  BY <1>1, <1>2, <1>3, CountStays
<1>4. ASSUME NEW h \in Handlers, req[h] = NoReq,
             req' = [req EXCEPT ![h] = [pc |-> "received", server |-> s, left |-> 0,
                                        todo |-> ToSet(logs[s]), awaited |-> TRUE]]
      PROVE  CountInv'
  <2>1. /\ req'[h] # NoReq /\ req'[h].server = s /\ req'[h].todo = ToSet(logs[s])
        /\ \A g \in Handlers \ {h} : req'[g] = req[g]
        /\ logs'[s] = <<>> /\ \A r \in Servers \ {s} : logs'[r] = logs[r]
    BY <1>1, <1>2, <1>4 DEF NoReq
  <2>2. \A l \in ToSet(logs[s]) : \E i \in DOMAIN logs[s] : l = logs[s][i]
    BY DEF ToSet
  <2>3. NumbersOK'
    <3>1. \A l, m \in ToSet(logs[s]) : l.n <= made[s] /\ (l.n = m.n => l = m)
      BY <2>2 DEF CountInv, NumbersOK
    <3>2. \A r \in Servers : logs'[r] = <<>> \/ logs'[r] = logs[r]
      BY <2>1
    <3> QED BY <1>1, <2>1, <3>1, <3>2 DEF CountInv, NumbersOK
  <2>4. ASSUME NEW e \in Execs
        PROVE  /\ InChannel(e)' => InChannel(e) /\ e[1] # s
               /\ \A g \in Handlers \ {h} : InRequest(e, g)' <=> InRequest(e, g)
               /\ InRequest(e, h)' => InChannel(e) /\ e[1] = s
               /\ ~InRequest(e, h)
    <3>1. e[1] \in Servers
      BY DEF Execs
    <3>2. InChannel(e)' => InChannel(e) /\ e[1] # s
      BY <2>1, <3>1 DEF InChannel
    <3>3. \A g \in Handlers \ {h} : InRequest(e, g)' <=> InRequest(e, g)
      BY <2>1 DEF InRequest
    <3>4. InRequest(e, h)' => InChannel(e) /\ e[1] = s
      BY <2>1, <2>2 DEF InRequest, InChannel
    <3> QED BY <1>4, <3>2, <3>3, <3>4 DEF InRequest
  <2>5. PlacesOK'
    BY <1>1, <2>4 DEF CountInv, PlacesOK
  <2>6. CountedOnce'
    BY <1>1, <2>4 DEF CountInv, CountedOnce
  <2> QED BY <2>3, <2>5, <2>6 DEF CountInv
<1> QED BY <1>3, <1>4 DEF MetricsTick, Post

\* The executions of a row are counted, and leave the request.
LEMMA RowInsertCount ==
  ASSUME TypeOK, CountInv, NEW h \in Handlers, RowInsert(h)
  PROVE  CountInv'
<1> DEFINE row == Row(req[h].todo)
           Counted(e) == e[1] = req[h].server /\ \E l \in row : l.n = e[2]
<1>1. /\ At(h, "rows")
      /\ table' = [e \in Execs |-> IF Counted(e) THEN table[e] + 1 ELSE table[e]]
      /\ req' = [req EXCEPT ![h].todo = req[h].todo \ row]
      /\ UNCHANGED <<made, logs>>
  BY DEF RowInsert, proxyVars
<1>2. row \subseteq req[h].todo
  BY DEF Row
<1> HIDE DEF row
<1>3. req[h] # NoReq /\ req[h] \in Requests
  BY <1>1, InHand DEF At, NoReq
<1>4. /\ req'[h] # NoReq /\ req'[h].server = req[h].server
      /\ req'[h].todo = req[h].todo \ row
      /\ \A g \in Handlers \ {h} : req'[g] = req[g]
  BY <1>1, <1>3 DEF TypeOK, NoReq, Requests, At
<1>5. NumbersOK'
  <2>1. ASSUME NEW g \in Handlers, req'[g] # NoReq, NEW l \in req'[g].todo,
               NEW m \in req'[g].todo
        PROVE  l.n <= made[req'[g].server] /\ (l.n = m.n => l = m)
    <3>1. /\ req[g] # NoReq /\ req'[g].server = req[g].server
          /\ l \in req[g].todo /\ m \in req[g].todo
      BY <1>3, <1>4, <2>1
    <3> QED BY <3>1 DEF CountInv, NumbersOK
  <2> QED BY <1>1, <2>1 DEF CountInv, NumbersOK
<1>6. ASSUME NEW e \in Execs
      PROVE  /\ InChannel(e)' <=> InChannel(e)
             /\ \A g \in Handlers : InRequest(e, g)' => InRequest(e, g)
             /\ Counted(e) => InRequest(e, h) /\ ~InRequest(e, h)'
             /\ table[e] \in Nat
             /\ table'[e] = IF Counted(e) THEN table[e] + 1 ELSE table[e]
  <2>1. InChannel(e)' <=> InChannel(e)
    BY <1>1 DEF InChannel
  <2>2. \A g \in Handlers : InRequest(e, g)' => InRequest(e, g)
    BY <1>3, <1>4 DEF InRequest
  <2>3. Counted(e) => InRequest(e, h)
    BY <1>2, <1>3 DEF InRequest
  <2>4. Counted(e) => ~InRequest(e, h)'
    BY <1>2, <1>3, <1>4 DEF InRequest, CountInv, NumbersOK
  <2> QED BY <1>1, <2>1, <2>2, <2>3, <2>4 DEF TypeOK
<1> HIDE DEF Counted
<1>7. ASSUME NEW e \in Execs, Counted(e)
      PROVE  /\ table[e] = 0 /\ table'[e] = 1 /\ ~InChannel(e)
             /\ \A g \in Handlers : ~InRequest(e, g)'
             /\ e[2] <= made[e[1]]
  <2>1. InRequest(e, h) /\ ~InRequest(e, h)'
    BY <1>6, <1>7
  <2>2. table[e] = 0 /\ table'[e] = 1
    BY <1>6, <1>7, <2>1 DEF CountInv, CountedOnce
  <2>3. e[2] <= made[e[1]]
    BY <2>1 DEF InRequest, CountInv, NumbersOK
  <2> QED BY <1>6, <2>1, <2>2, <2>3 DEF CountInv, PlacesOK
<1>8. PlacesOK'
  BY <1>1, <1>6, <1>7 DEF CountInv, PlacesOK
<1>9. CountedOnce'
  BY <1>6, <1>7 DEF CountInv, CountedOnce
<1> QED BY <1>5, <1>8, <1>9 DEF CountInv

LEMMA InitCount == Init => CountInv
<1> SUFFICES ASSUME Init PROVE CountInv
  OBVIOUS
<1>1. NumbersOK
  BY DEF Init, NumbersOK
<1>2. \A e \in Execs : table[e] = 0 /\ \A h \in Handlers : ~InRequest(e, h)
  BY DEF Init, InRequest
<1> QED BY <1>1, <1>2 DEF CountInv, PlacesOK, CountedOnce

LEMMA NextCount == TypeOK /\ CountInv /\ [Next]_vars => CountInv'
<1> SUFFICES ASSUME TypeOK, CountInv, [Next]_vars PROVE CountInv'
  OBVIOUS
<1>1. req = [h \in Handlers |-> req[h]] /\ logs = [s \in Servers |-> logs[s]]
      /\ \A h \in Handlers : req[h] = NoReq \/ req[h] \in Requests
  BY DEF TypeOK
<1>2. ASSUME NEW s \in Servers, Proxy(s) PROVE CountInv'
  <2>1. CASE PostDone(s)
    BY <2>1, CountStays DEF PostDone
  <2>2. CASE ProxyRestart(s)
    <3>1. /\ logs' = [logs EXCEPT ![s] = <<>>] /\ UNCHANGED <<made, table>>
          /\ \A h \in Handlers :
               req'[h] = req[h] \/ (req[h] # NoReq /\ req'[h] = [req[h] EXCEPT !.awaited = FALSE])
      BY <2>2 DEF ProxyRestart, AwaitedBy
    <3>2. \A h \in Handlers : \/ req'[h] = NoReq
                              \/ /\ req[h] # NoReq /\ req'[h].server = req[h].server
                                 /\ req'[h].todo = req[h].todo
      BY <1>1, <3>1 DEF Requests
    <3>3. \A r \in Servers : logs'[r] = logs[r] \/ logs'[r] = <<>>
      BY <1>1, <3>1
    <3> QED BY <3>1, <3>2, <3>3, CountStays
  <2> QED BY <1>2, <2>1, <2>2, ExecuteCount, MetricsTickCount DEF Proxy
<1>3. ASSUME NEW h \in Handlers, UNCHANGED <<made, logs, table>>, req[h] # NoReq,
             \/ req' = [req EXCEPT ![h].pc = "stamped", ![h].left = Lease]
             \/ req' = [req EXCEPT ![h].pc = "queued"]
             \/ req' = [req EXCEPT ![h].pc = "rows"]
             \/ req' = [req EXCEPT ![h].awaited = FALSE]
             \/ req' = [req EXCEPT ![h] = NoReq]
      PROVE  CountInv'
  <2>1. req[h] \in Requests
    BY <1>1, <1>3
  <2>2. \A g \in Handlers \ {h} : req'[g] = req[g]
    BY <1>1, <1>3
  <2> DEFINE stamped == [req[h] EXCEPT !.pc = "stamped", !.left = Lease]
  <2>3. \/ req'[h] = NoReq
        \/ req'[h] = stamped
        \/ req'[h] = [req[h] EXCEPT !.pc = "queued"]
        \/ req'[h] = [req[h] EXCEPT !.pc = "rows"]
        \/ req'[h] = [req[h] EXCEPT !.awaited = FALSE]
    BY <1>1, <1>3
  <2>4. \/ req'[h] = NoReq
        \/ req'[h].server = req[h].server /\ req'[h].todo = req[h].todo
    <3>1. stamped.server = req[h].server /\ stamped.todo = req[h].todo
      BY <2>1 DEF Requests
    <3> HIDE DEF stamped
    <3>2. CASE req'[h] = [req[h] EXCEPT !.pc = "queued"]
      BY <2>1, <3>2 DEF Requests
    <3>3. CASE req'[h] = [req[h] EXCEPT !.pc = "rows"]
      BY <2>1, <3>3 DEF Requests
    <3>4. CASE req'[h] = [req[h] EXCEPT !.awaited = FALSE]
      BY <2>1, <3>4 DEF Requests
    <3> QED BY <2>3, <3>1, <3>2, <3>3, <3>4
  <2> QED BY <1>3, <2>2, <2>4, CountStays
<1>4. ASSUME NEW h \in Handlers, Register(h) \/ RowFails(h) \/ AnswerLost(h) PROVE CountInv'
  <2>1. CASE RowInsert(h)
    BY <2>1, RowInsertCount
  <2>2. CASE Stamp(h) \/ Enqueue(h) \/ NodeInsert(h) \/ Registered(h) \/ RowFails(h)
    <3>1. req[h] # NoReq
      BY <2>2 DEF Stamp, Enqueue, NodeInsert, Registered, RowFails, At, NoReq
    <3> QED BY <1>3, <2>2, <3>1
            DEF Stamp, Enqueue, NodeInsert, Registered, RowFails, Answer, proxyVars
  <2>3. CASE AnswerLost(h)
    BY <1>3, <2>3 DEF AnswerLost, proxyVars
  <2> QED BY <1>4, <2>1, <2>2, <2>3 DEF Register
<1>5. CASE Job \/ UNCHANGED vars
  BY <1>5, CountStays DEF Job, JobQueues, JobChecks, JobWakes, proxyVars, vars
<1>6. CASE Time
  <2>1. \A h \in Handlers : req'[h] = NoReq \/ /\ req[h] # NoReq
                                               /\ req'[h].server = req[h].server
                                               /\ req'[h].todo = req[h].todo
    BY <1>1, <1>6 DEF Time, Requests
  <2> QED BY <1>6, <2>1, CountStays DEF Time, proxyVars
<1>7. CASE Restart
  BY <1>7, CountStays DEF Restart, proxyVars
<1> QED BY <1>2, <1>4, <1>5, <1>6, <1>7 DEF Next

\* No execution is counted in two rows, nor again while it is on its way, for any
\* number of proxies and handlers, whatever fails, is lost or restarts
\* (sys_assistant_client.rs:65-73, vt_node_controller.rs:45-63).
THEOREM NeverCountedTwice == Spec => []CountedOnce
<1>1. LockInv => TypeOK
  BY DEF LockInv
<1>2. CountInv => CountedOnce
  BY DEF CountInv
<1> QED BY <1>1, <1>2, InitLock, NextLock, InitCount, NextCount, PTL DEF Spec
-----------------------------------------------------------------------------
(***************************************************************************)
(* LeaseOnlyRenewed: a proxy outside Flaky has one report on its way, which *)
(* therefore brings the lease that ends last.                              *)
(***************************************************************************)
OneReport ==
  \A h \in Handlers : req[h] # NoReq /\ req[h].server \notin Flaky =>
    /\ req[h].awaited /\ posting[req[h].server] # <<>>
    /\ \A g \in Handlers : req[g] # NoReq /\ req[g].server = req[h].server => g = h
    /\ At(h, "stamped") \/ At(h, "queued") => nodes[req[h].server] <= req[h].left

\* A step that begins no request, and shortens no lease in a request.
LEMMA ReportStays ==
  ASSUME OneReport,
         \A h \in Handlers : req'[h] = NoReq \/
           /\ req[h] # NoReq /\ req'[h].server = req[h].server
           /\ req[h].server \notin Flaky =>
                /\ req'[h].awaited = req[h].awaited
                /\ posting'[req[h].server] = posting[req[h].server]
                /\ req'[h].pc \in {"stamped", "queued"} =>
                     nodes'[req[h].server] <= req'[h].left
  PROVE  OneReport'
BY DEF OneReport, At

LEMMA ProxyReport ==
  ASSUME TypeOK, OneReport, NEW s \in Servers, Proxy(s)
  PROVE  OneReport'
<1>1. /\ req = [h \in Handlers |-> req[h]] /\ posting = [r \in Servers |-> posting[r]]
      /\ logs = [r \in Servers |-> logs[r]]
      /\ \A h \in Handlers : req[h] # NoReq => req[h] \in Requests
  BY DEF TypeOK
<1>2. CASE \E p \in Patterns[s] : Execute(s, p)
  BY <1>2, ReportStays DEF Execute, OneReport, At
<1>3. CASE MetricsTick(s)
  <2>1. /\ posting[s] = <<>> /\ logs[s] # <<>> /\ UNCHANGED nodes
        /\ posting' = [posting EXCEPT ![s] = logs[s]]
    BY <1>3 DEF MetricsTick, Post
  <2>2. \A h \in Handlers : req[h] # NoReq /\ req[h].server \notin Flaky => req[h].server # s
    BY <2>1 DEF OneReport
  <2>3. CASE UNCHANGED req
    BY <1>1, <2>1, <2>2, <2>3, ReportStays DEF OneReport, At
  <2>4. ASSUME NEW h \in Handlers, req[h] = NoReq,
               req' = [req EXCEPT ![h] = [pc |-> "received", server |-> s, left |-> 0,
                                          todo |-> ToSet(logs[s]), awaited |-> TRUE]]
        PROVE  OneReport'
    <3>1. /\ req'[h].pc = "received" /\ req'[h].server = s /\ req'[h].awaited
          /\ \A g \in Handlers \ {h} : req'[g] = req[g]
      BY <1>1, <2>4
    <3>2. posting'[s] # <<>> /\ \A r \in Servers \ {s} : posting'[r] = posting[r]
      BY <1>1, <2>1
    <3> SUFFICES ASSUME NEW g \in Handlers, req'[g] # NoReq, req'[g].server \notin Flaky
                 PROVE  /\ req'[g].awaited /\ posting'[req'[g].server] # <<>>
                        /\ \A k \in Handlers : req'[k] # NoReq /\ req'[k].server = req'[g].server
                                                 => k = g
                        /\ At(g, "stamped")' \/ At(g, "queued")' =>
                             nodes'[req'[g].server] <= req'[g].left
      BY DEF OneReport
    <3>3. CASE g = h
      BY <2>2, <3>1, <3>2, <3>3 DEF At
    <3>4. CASE g # h
      <4>1. req'[g] = req[g] /\ req[g].server # s /\ req[g].server \in Servers
        BY <1>1, <2>2, <3>1, <3>4 DEF Requests
      <4> QED BY <2>1, <3>1, <3>2, <4>1 DEF OneReport, At
    <3> QED BY <3>3, <3>4
  <2> QED BY <1>3, <2>3, <2>4 DEF MetricsTick, Post
<1>4. CASE PostDone(s)
  <2>1. \A h \in Handlers : req[h] # NoReq /\ req[h].server \notin Flaky => req[h].server # s
    BY <1>4 DEF PostDone, AwaitedBy, OneReport
  <2> QED BY <1>1, <1>4, <2>1, ReportStays DEF PostDone, OneReport, At
<1>5. CASE ProxyRestart(s)
  <2>1. /\ s \in Flaky /\ UNCHANGED nodes /\ posting' = [posting EXCEPT ![s] = <<>>]
        /\ req' = [h \in Handlers |-> IF AwaitedBy(h, s) THEN [req[h] EXCEPT !.awaited = FALSE]
                                      ELSE req[h]]
    BY <1>5 DEF ProxyRestart
  <2>2. ASSUME NEW h \in Handlers, req[h] # NoReq
        PROVE  /\ req'[h].server = req[h].server /\ req'[h].left = req[h].left
               /\ req'[h].pc = req[h].pc
               /\ req[h].server \notin Flaky =>
                    /\ req'[h].awaited = req[h].awaited
                    /\ posting'[req[h].server] = posting[req[h].server]
    <3>1. req[h] \in Requests
      BY <1>1, <2>2
    <3>2. CASE AwaitedBy(h, s)
      BY <2>1, <3>1, <3>2 DEF Requests, AwaitedBy
    <3>3. CASE ~AwaitedBy(h, s)
      BY <1>1, <2>1, <3>1, <3>3 DEF Requests
    <3> QED BY <3>2, <3>3
  <2>3. \A h \in Handlers : req[h] = NoReq => req'[h] = NoReq
    BY <2>1 DEF AwaitedBy
  <2>4. ASSUME NEW h \in Handlers, req[h] # NoReq, req[h].server \notin Flaky,
               req'[h].pc \in {"stamped", "queued"}
        PROVE  nodes'[req[h].server] <= req'[h].left
    BY <2>1, <2>2, <2>4 DEF OneReport, At
  <2> QED BY <2>2, <2>3, <2>4, ReportStays
<1> QED BY <1>2, <1>3, <1>4, <1>5 DEF Proxy

LEMMA RegisterReport ==
  ASSUME TypeOK, OneReport, NEW h \in Handlers, Register(h) \/ RowFails(h)
  PROVE  OneReport'
<1>1. /\ req = [g \in Handlers |-> req[g]] /\ nodes = [s \in Servers |-> nodes[s]]
      /\ \A g \in Handlers : req[g] # NoReq => req[g] \in Requests
  BY DEF TypeOK
<1>2. UNCHANGED posting /\ \A g \in Handlers \ {h} : req'[g] = req[g]
  BY <1>1 DEF Register, Stamp, Enqueue, NodeInsert, RowInsert, Registered, RowFails, Answer,
              proxyVars
<1>3. req[h] \in Requests
  BY <1>1 DEF Register, Stamp, Enqueue, NodeInsert, RowInsert, Registered, RowFails, At, NoReq
<1>4. CASE UNCHANGED nodes /\ req'[h] = NoReq
  BY <1>2, <1>4, ReportStays DEF OneReport, At
<1>5. ASSUME UNCHANGED nodes, req'[h].server = req[h].server,
             req'[h].awaited = req[h].awaited,
             req'[h].pc \in {"stamped", "queued"} => nodes[req[h].server] <= req'[h].left
      PROVE  OneReport'
  BY <1>2, <1>3, <1>5, ReportStays DEF OneReport, At, Requests, NoReq
<1>6. CASE Stamp(h)
  <2> DEFINE stamped == [req[h] EXCEPT !.pc = "stamped", !.left = Lease]
  <2>1. req'[h] = stamped /\ UNCHANGED nodes
    BY <1>1, <1>6 DEF Stamp
  <2>2. /\ stamped.server = req[h].server /\ stamped.awaited = req[h].awaited
        /\ stamped.left = Lease /\ req[h].server \in Servers
    BY <1>3 DEF Requests
  <2> HIDE DEF stamped
  <2>3. nodes[req[h].server] <= Lease
    BY <2>2, NodesAssumption DEF TypeOK, NodesAssumption, NotListed
  <2> QED BY <1>5, <2>1, <2>2, <2>3
<1>7. CASE Enqueue(h)
  <2>1. At(h, "stamped") /\ req'[h] = [req[h] EXCEPT !.pc = "queued"] /\ UNCHANGED nodes
    BY <1>1, <1>7 DEF Enqueue
  <2>2. req[h].server \notin Flaky => nodes[req[h].server] <= req[h].left
    BY <1>3, <2>1 DEF OneReport, At, NoReq
  <2>3. /\ req'[h].server = req[h].server /\ req'[h].awaited = req[h].awaited
        /\ req'[h].left = req[h].left /\ req[h] # NoReq
    BY <1>3, <2>1 DEF Requests, At, NoReq
  <2>4. ASSUME NEW g \in Handlers
        PROVE  req'[g] = NoReq \/
                 /\ req[g] # NoReq /\ req'[g].server = req[g].server
                 /\ req[g].server \notin Flaky =>
                      /\ req'[g].awaited = req[g].awaited
                      /\ posting'[req[g].server] = posting[req[g].server]
                      /\ req'[g].pc \in {"stamped", "queued"} =>
                           nodes'[req[g].server] <= req'[g].left
    <3>1. CASE g = h
      BY <1>2, <2>1, <2>2, <2>3, <3>1
    <3>2. CASE g # h
      BY <1>2, <2>1, <3>2 DEF OneReport, At
    <3> QED BY <3>1, <3>2
  <2> QED BY <2>4, ReportStays
<1>8. CASE NodeInsert(h)
  <2>1. /\ At(h, "queued") /\ req'[h] = [req[h] EXCEPT !.pc = "rows"]
        /\ nodes' = [nodes EXCEPT ![req[h].server] = req[h].left]
    BY <1>1, <1>8 DEF NodeInsert
  <2>2. /\ req'[h].server = req[h].server /\ req'[h].awaited = req[h].awaited
        /\ req'[h].pc = "rows" /\ req[h] # NoReq
    BY <1>3, <2>1 DEF Requests, At, NoReq
  <2>3. \A g \in Handlers \ {h} : req[g] # NoReq /\ req[g].server \notin Flaky =>
          nodes'[req[g].server] = nodes[req[g].server]
    BY <1>1, <2>1, <2>2 DEF OneReport, Requests
  <2>4. ASSUME NEW g \in Handlers, req[g] # NoReq, req[g].server \notin Flaky,
               req'[g].pc \in {"stamped", "queued"}
        PROVE  g # h /\ nodes'[req[g].server] <= req'[g].left
    BY <1>2, <2>2, <2>3, <2>4 DEF OneReport, At
  <2> QED BY <1>2, <2>2, <2>4, ReportStays
<1>9. CASE RowInsert(h)
  <2>1. At(h, "rows") /\ req'[h] = [req[h] EXCEPT !.todo = req[h].todo \ Row(req[h].todo)]
        /\ UNCHANGED nodes
    BY <1>1, <1>9 DEF RowInsert
  <2>2. /\ req'[h].server = req[h].server /\ req'[h].awaited = req[h].awaited
        /\ req'[h].pc = "rows"
    BY <1>3, <2>1 DEF Requests, At
  <2> QED BY <1>5, <2>1, <2>2
<1>10. CASE Registered(h) \/ RowFails(h)
  BY <1>1, <1>4, <1>10 DEF Registered, RowFails, Answer
<1> QED BY <1>6, <1>7, <1>8, <1>9, <1>10 DEF Register

LEMMA NextReport == TypeOK /\ OneReport /\ [Next]_vars => OneReport'
<1> SUFFICES ASSUME TypeOK, OneReport, [Next]_vars PROVE OneReport'
  OBVIOUS
<1>1. /\ req = [g \in Handlers |-> req[g]]
      /\ \A g \in Handlers : req[g] # NoReq => req[g] \in Requests
  BY DEF TypeOK
<1>2. ASSUME NEW h \in Handlers, AnswerLost(h) PROVE OneReport'
  <2>1. /\ req[h] # NoReq /\ req[h].server \in Flaky /\ UNCHANGED <<posting, nodes>>
        /\ req'[h] = [req[h] EXCEPT !.awaited = FALSE]
        /\ \A g \in Handlers \ {h} : req'[g] = req[g]
    BY <1>1, <1>2 DEF AnswerLost, proxyVars
  <2>2. req'[h].server = req[h].server
    BY <1>1, <2>1 DEF Requests
  <2> QED BY <2>1, <2>2, ReportStays DEF OneReport, At
<1>3. CASE Job
  <2>1. CASE JobQueues \/ JobWakes \/ UNCHANGED vars
    BY <2>1, ReportStays DEF JobQueues, JobWakes, vars, proxyVars, OneReport, At
  <2>2. CASE JobChecks
    <3>1. UNCHANGED <<req, posting>> /\ \A s \in Servers : nodes'[s] \in {nodes[s], NotListed}
      BY <2>2 DEF JobChecks, proxyVars
    <3>2. ASSUME NEW h \in Handlers, req[h] # NoReq, nodes[req[h].server] <= req[h].left
          PROVE  nodes'[req[h].server] <= req[h].left
      BY <1>1, <3>1, <3>2, NodesAssumption DEF Requests, NotListed, NodesAssumption
    <3> QED BY <3>1, <3>2, ReportStays DEF OneReport, At
  <2> QED BY <1>3, <2>1, <2>2 DEF Job
<1>4. CASE Time
  <2>1. /\ UNCHANGED posting /\ \A s \in Servers : nodes'[s] = Less(nodes[s])
        /\ \A h \in Handlers : req'[h] = IF req[h] = NoReq THEN NoReq
                                         ELSE [req[h] EXCEPT !.left = Less(req[h].left)]
    BY <1>4 DEF Time, proxyVars
  <2>2. ASSUME NEW h \in Handlers, req[h] # NoReq
        PROVE  /\ req'[h].server = req[h].server /\ req'[h].awaited = req[h].awaited
               /\ req'[h].pc = req[h].pc
               /\ nodes[req[h].server] <= req[h].left =>
                    nodes'[req[h].server] <= req'[h].left
    <3>1. req[h] \in Requests /\ nodes[req[h].server] \in {NotListed} \cup 0 .. Lease
      BY <1>1, <2>2 DEF Requests, TypeOK
    <3>2. /\ req'[h].server = req[h].server /\ req'[h].awaited = req[h].awaited
          /\ req'[h].pc = req[h].pc /\ req'[h].left = Less(req[h].left)
      BY <2>1, <2>2, <3>1 DEF Requests
    <3>3. req[h].server \in Servers /\ req[h].left \in 0 .. Lease /\ Lease \in Nat
      BY <3>1, NodesAssumption DEF Requests, NodesAssumption
    <3>4. nodes'[req[h].server] = Less(nodes[req[h].server])
      BY <2>1, <3>3
    <3> QED BY <3>1, <3>2, <3>3, <3>4 DEF Less, NotListed
  <2> QED BY <2>1, <2>2, ReportStays DEF OneReport, At
<1>5. CASE Restart
  BY <1>5, ReportStays DEF Restart
<1>6. CASE UNCHANGED vars
  BY <1>6, ReportStays DEF vars, proxyVars, OneReport, At
<1> QED BY <1>2, <1>3, <1>4, <1>5, <1>6, ProxyReport, RegisterReport DEF Next

\* A report never replaces the lease of a later one: for any number of handlers that
\* compute expire_at before they wait for the lock, a proxy that awaits its POSTs
\* keeps the lease it was given last (vt_node_controller.rs:39-43).
THEOREM RenewedOnly == Spec => LeaseOnlyRenewed
<1>1. Init => OneReport
  BY DEF Init, OneReport
<1>2. TypeOK /\ OneReport /\ [Next]_vars =>
        [\A s \in Servers \ Flaky :
           nodes'[s] < nodes[s] => Time \/ nodes'[s] = NotListed]_vars
  <2> SUFFICES ASSUME TypeOK, OneReport, Next, ~Time, NEW s \in Servers \ Flaky
               PROVE  ~(nodes'[s] < nodes[s]) \/ nodes'[s] = NotListed
    OBVIOUS
  <2>1. nodes = [r \in Servers |-> nodes[r]] /\ nodes[s] \in {NotListed} \cup 0 .. Lease
    BY DEF TypeOK
  <2>2. nodes[s] \in Int
    BY <2>1, NodesAssumption DEF NodesAssumption, NotListed
  <2>3. CASE UNCHANGED nodes
    BY <2>2, <2>3
  <2>4. ASSUME NEW h \in Handlers, NodeInsert(h)
        PROVE  ~(nodes'[s] < nodes[s])
    <3>1. At(h, "queued") /\ nodes' = [nodes EXCEPT ![req[h].server] = req[h].left]
      BY <2>4 DEF NodeInsert
    <3>2. req[h] # NoReq
      BY <3>1 DEF At, NoReq
    <3>3. req[h].left \in Nat
      BY <3>2, NodesAssumption DEF TypeOK, Requests, NodesAssumption
    <3>4. CASE req[h].server = s
      <4>1. nodes'[s] = req[h].left /\ nodes[s] <= req[h].left
        BY <2>1, <3>1, <3>2, <3>4 DEF OneReport
      <4> QED BY <2>2, <3>3, <4>1
    <3>5. CASE req[h].server # s
      BY <2>1, <2>2, <3>1, <3>5
    <3> QED BY <3>4, <3>5
  <2>5. CASE JobChecks \/ Restart
    BY <2>2, <2>5 DEF JobChecks, Restart
  <2> QED BY <2>2, <2>3, <2>4, <2>5
          DEF Next, Proxy, Execute, MetricsTick, PostDone, ProxyRestart, Register, Stamp,
              Enqueue, RowInsert, Registered, RowFails, AnswerLost, Job, JobQueues, JobWakes
<1>3. LockInv => TypeOK
  BY DEF LockInv
<1> QED BY <1>1, <1>2, <1>3, InitLock, NextLock, NextReport, PTL DEF Spec, LeaseOnlyRenewed
-----------------------------------------------------------------------------
(***************************************************************************)
(* ImplementsQueue: the bound of the channel in Assistant is never met, for *)
(* a proxy has logged what is in the channel.                              *)
(***************************************************************************)
ChannelBounded == \A s \in Servers : Len(logs[s]) <= made[s]

LEMMA NextChannel == TypeOK /\ ChannelBounded /\ [Next]_vars => ChannelBounded'
<1> SUFFICES ASSUME TypeOK, ChannelBounded, [Next]_vars, NEW s \in Servers
             PROVE  Len(logs'[s]) <= made'[s]
  BY DEF ChannelBounded
<1>1. /\ logs = [r \in Servers |-> logs[r]] /\ made = [r \in Servers |-> made[r]]
      /\ logs[s] \in Seq(Records) /\ made[s] \in Nat /\ Len(logs[s]) <= made[s]
  BY NodesAssumption DEF TypeOK, ChannelBounded, NodesAssumption
<1>2. CASE UNCHANGED made /\ logs'[s] \in {logs[s], <<>>}
  BY <1>1, <1>2
<1>3. ASSUME NEW r \in Servers, NEW p \in Patterns[r], Execute(r, p)
      PROVE  Len(logs'[s]) <= made'[s]
  <2> DEFINE log == [n |-> made[r] + 1, p |-> p]
  <2>1. made' = [made EXCEPT ![r] = made[r] + 1] /\ logs' = [logs EXCEPT ![r] = Append(logs[r], log)]
    BY <1>3 DEF Execute
  <2> HIDE DEF log
  <2>2. Len(Append(logs[s], log)) = Len(logs[s]) + 1
    BY <1>1
  <2>3. CASE r = s
    <3>1. logs'[s] = Append(logs[s], log) /\ made'[s] = made[s] + 1
      BY <1>1, <2>1, <2>3
    <3> QED BY <1>1, <2>2, <3>1
  <2>4. CASE r # s
    BY <1>1, <2>1, <2>4
  <2> QED BY <2>3, <2>4
<1> QED BY <1>1, <1>2, <1>3
        DEF Next, Proxy, MetricsTick, PostDone, ProxyRestart, Register, Stamp, Enqueue,
            NodeInsert, RowInsert, Registered, RowFails, AnswerLost, Job, JobQueues,
            JobChecks, JobWakes, Time, Restart, vars, proxyVars

\* Every step of the proxies and of the admin is, for each proxy, a step of the
\* queue of module Assistant, a restart of the proxy, or none
\* (sys_assistant_client.rs:59-146).
THEOREM QueueImplemented == Spec => ImplementsQueue
<1>1. Init => ChannelBounded
  BY DEF Init, ChannelBounded
<1>2. TypeOK /\ ChannelBounded /\ [Next]_vars =>
        [\A s \in Servers : UNCHANGED <<logs[s], posting[s]>> \/ QueueStep(s)]_vars
  <2> SUFFICES ASSUME TypeOK, ChannelBounded, Next, NEW s \in Servers,
                      ~UNCHANGED <<logs[s], posting[s]>>
               PROVE  QueueStep(s)
    OBVIOUS
  <2>1. /\ logs = [r \in Servers |-> logs[r]] /\ posting = [r \in Servers |-> posting[r]]
        /\ logs[s] \in Seq(Records) /\ made[s] \in Nat /\ Len(logs[s]) <= made[s]
    BY NodesAssumption DEF TypeOK, ChannelBounded, NodesAssumption
  <2>2. ASSUME NEW r \in Servers, NEW p \in Patterns[r], Execute(r, p) PROVE QueueStep(s)
    <3> DEFINE log == [n |-> made[r] + 1, p |-> p]
    <3>1. /\ UNCHANGED posting /\ logs' = [logs EXCEPT ![r] = Append(logs[r], log)]
          /\ made[r] < MaxExecs
      BY <2>2 DEF Execute
    <3>2. r = s
      BY <2>1, <3>1
    <3>3. made[s] + 1 \in 1 .. MaxExecs /\ Len(logs[s]) < MaxExecs + 1
      BY <2>1, <3>1, <3>2, NodesAssumption DEF NodesAssumption
    <3>4. Queues(s)!SendLog(log)
      BY <2>1, <3>1, <3>2, <3>3 DEF Queues!SendLog
    <3> QED BY <3>2, <3>3, <3>4 DEF QueueStep
  <2>3. ASSUME NEW r \in Servers, MetricsTick(r) PROVE QueueStep(s)
    <3>1. /\ posting[r] = <<>> /\ logs[r] # <<>> /\ posting' = [posting EXCEPT ![r] = logs[r]]
          /\ logs' = [logs EXCEPT ![r] = <<>>]
      BY <2>3 DEF MetricsTick, Post
    <3>2. r = s
      BY <2>1, <3>1
    <3>3. Queues(s)!MetricsTick
      BY <2>1, <3>1, <3>2 DEF Queues!MetricsTick
    <3> QED BY <3>3 DEF QueueStep
  <2>4. ASSUME NEW r \in Servers, PostDone(r) PROVE QueueStep(s)
    <3>1. posting[r] # <<>> /\ posting' = [posting EXCEPT ![r] = <<>>] /\ UNCHANGED logs
      BY <2>4 DEF PostDone
    <3>2. r = s
      BY <2>1, <3>1
    <3>3. Queues(s)!RegisterDone
      BY <2>1, <3>1, <3>2 DEF Queues!RegisterDone
    <3> QED BY <3>3 DEF QueueStep
  <2>5. ASSUME NEW r \in Servers, ProxyRestart(r) PROVE QueueStep(s)
    <3>1. /\ r \in Flaky /\ logs' = [logs EXCEPT ![r] = <<>>]
          /\ posting' = [posting EXCEPT ![r] = <<>>]
      BY <2>5 DEF ProxyRestart
    <3>2. r = s
      BY <2>1, <3>1
    <3> QED BY <2>1, <3>1, <3>2 DEF QueueStep
  <2> QED BY <2>2, <2>3, <2>4, <2>5
          DEF Next, Proxy, Register, Stamp, Enqueue, NodeInsert, RowInsert, Registered,
              RowFails, AnswerLost, Job, JobQueues, JobChecks, JobWakes, Time, Restart,
              proxyVars
<1>3. LockInv => TypeOK
  BY DEF LockInv
<1> QED BY <1>1, <1>2, <1>3, InitLock, NextLock, NextChannel, PTL DEF Spec, ImplementsQueue
=============================================================================
