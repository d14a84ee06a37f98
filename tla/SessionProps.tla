---------------------------- MODULE SessionProps ----------------------------
(***************************************************************************)
(* What the sessions of the proxy promise: to the client (its replies, and *)
(* that they come), to the cache (what is stored under a key) and to the   *)
(* metrics (what an execution record stands for).                          *)
(***************************************************************************)
EXTENDS ProxySession

Units == [n : Nat, i : Nat]
PartSet == [c : Conns, n : Nat, i : Nat]
Logs == [c : Conns, n : Nat, i : Nat, from_cache : BOOLEAN]
Ctxs == [n : Nat, i : Nat, sql : Texts \cup {NoStmt},
         should_update_cache : BOOLEAN, from_cache : BOOLEAN]

SessionTypeOK ==
  /\ proc \in {"up", "redis_unwrap", "write_expect", "short_read"}
  /\ conn \in [Conns -> {"new", "open", "closed"}]
  /\ clientUp \in [Conns -> BOOLEAN] /\ remoteUp \in [Conns -> BOOLEAN]
  /\ reqs \in [Conns -> Seq(Stmts)]
  /\ answered \in [Conns -> Nat] /\ executed \in [Conns -> SUBSET Nat]
  /\ inbox \in [Conns -> Seq(PartSet)] /\ hit \in [Conns -> Seq(PartSet)]
  /\ data \in [Conns -> Seq(PartSet)] /\ cachedBuf \in [Conns -> Seq(PartSet)]
  /\ fromRemote \in [Conns -> Seq(PartSet)] /\ toClient \in [Conns -> Seq(PartSet)]
  /\ toProxy \in [Conns -> Seq(Units)] /\ toRemote \in [Conns -> Seq(Units)]
  /\ rbuf \in [Conns -> Seq(Units)]
  /\ chan \in [Conns -> Seq(Ctxs)]
  /\ ctx \in [Conns -> Ctxs] /\ newCtx \in [Conns -> Ctxs]
  /\ cachedCtx \in [Conns -> Ctxs]
  /\ handler \in [Conns -> {"free", "c2r", "r2c"}]
  /\ c2r \in [Conns -> {"read", "raw", "lock", "exists", "get", "send", "write",
                        "reply", "log"}]
  /\ r2c \in [Conns -> {"read", "finish", "task", "log", "respond", "write"}]

JobsTypeOK ==
  /\ tasks \in Seq([key : Keys, body : Seq(PartSet)])
  /\ logs \in Seq(Logs) /\ batch \in Seq(Logs)
  /\ redis \in [Keys -> Seq(PartSet)]

\* Every variable has its type; the context channel holds at most one context.
TypeOK == SessionTypeOK /\ JobsTypeOK /\ \A c \in Conns : Len(chan[c]) <= 1
-----------------------------------------------------------------------------
(***************************************************************************)
(* The promise to a client that waits for each answer.                     *)
(***************************************************************************)
\* What is on its way to the client, the parts it has read of it included.
Coming(c) == inbox[c] \o toClient[c] \o hit[c] \o data[c] \o fromRemote[c]

Service == INSTANCE QueryService WITH
  Clients <- Conns, Silent <- Mute \cup Quits,
  asked <- reqs, waiting <- [c \in Conns |-> ~Idle(c)],
  coming <- [c \in Conns |-> Coming(c)], made <- executed, cache <- redis

\* The sessions, their sockets, buffers and locks, and the jobs implement that
\* service: whatever the interleaving of the two halves, no part of an answer is
\* lost, repeated, reordered or mixed with another, no request is answered twice,
\* or executed and answered from the cache, and what the cache keeps is a whole
\* answer that its client has been given (serve/mod.rs:74-243).
ImplementsQueryService == Service!Spec

\* No client that leaves when it has all its answers aborts the process: when the
\* answer to the last request has been read, no write to that client is still to
\* come, whatever was answered from where (serve/mod.rs:216-220).
ProcessSurvives == proc = "up"

IsReplyFor(body, key) ==
  \E c \in Conns : \E n \in DOMAIN reqs[c] :
    body = Reply(c, n) /\ StoreKey[reqs[c][n]] = key

\* What is stored under a key, or queued to be stored, is one whole reply to a
\* statement with that key: never a piece, never bytes of a neighbouring reply
\* (cached_buf, serve/mod.rs:181-192).
CacheHoldsWholeReplies ==
  /\ \A k \in Keys : redis[k] # <<>> => IsReplyFor(redis[k], k)
  /\ \A i \in DOMAIN tasks : IsReplyFor(tasks[i].body, tasks[i].key)

\* When a context is flushed (logged, stored), all of its reply has come and the
\* client has been sent it: its durations are those of the whole reply.  The
\* login context also carries the greeting (serve/mod.rs:178-192).
FlushedReplyIsWhole ==
  \A c \in Conns : r2c[c] \in {"finish", "task", "log"} =>
    LET n == cachedCtx[c].n IN
    cachedBuf[c] = IF n = 1 THEN Reply(c, 0) \o Reply(c, 1) ELSE Reply(c, n)

Recorded == ToSet(logs) \cup ToSet(batch)

\* A read recorded as answered from the cache is not MySQL's to answer: its first
\* bytes are not on the way to MySQL, and no part of a reply to its request is on the
\* way back.  So of a request that came in one read MySQL hears nothing.  Of one cut
\* by a read the rest does go to MySQL, and is not taken for the request: the bytes
\* before it are missing (serve/mod.rs:120-141).
HitStaysOffMySQL ==
  \A l \in Recorded : l.from_cache =>
    /\ \A u \in ToSet(toRemote[l.c]) : u.n # l.n \/ u.i # l.i
    /\ \A p \in ToSet(fromRemote[l.c]) \cup ToSet(data[l.c]) : p.n # l.n

\* Every read is recorded at most once among the records not yet posted: a request
\* that came in one read has one record, one cut by reads has one a piece at most
\* (serve/mod.rs:126, 186).
RecordedOnce ==
  LET all == batch \o logs IN
  \A i, j \in DOMAIN all :
    all[i].c = all[j].c /\ all[i].n = all[j].n /\ all[i].i = all[j].i => i = j
-----------------------------------------------------------------------------
(***************************************************************************)
(* The buffer of client_to_remote is cleared after each read, on each of   *)
(* its paths, but for a packet that packet_type() rejects                  *)
(* (serve/mod.rs:101-104, 132-142).                                        *)
(***************************************************************************)
\* The buffer starts with a rejected packet, which stays there.
Stuck(c) == rbuf[c] # <<>> /\ PacketType(c, rbuf[c]) = "Invalid"

\* Unit u was sent before unit v.
Before(u, v) == u.n < v.n \/ (u.n = v.n /\ u.i < v.i)

\* What is on the way to MySQL is what the client sent, in order and without
\* repetition, and nothing of what MySQL has executed: unless a packet was rejected,
\* no read, answered or forwarded, alone or joined, is forwarded again behind it.
ForwardedOnce ==
  \A c \in Conns : Stuck(c) \/
    \A j \in DOMAIN toRemote[c] :
      /\ toRemote[c][j].n \notin executed[c]
      /\ \A i \in 1 .. j - 1 : Before(toRemote[c][i], toRemote[c][j])

\* The proxy ends a session only when one of the peers has: unless a packet was
\* rejected, its buffer always has room for a read, and a full one is not taken for
\* the end of the stream (serve/mod.rs:81-84).
EndsForCause ==
  [][\A c \in Conns :
       conn[c] = "open" /\ conn'[c] = "closed"
         => ~clientUp[c] \/ ~remoteUp[c] \/ Stuck(c)]_vars
-----------------------------------------------------------------------------
(***************************************************************************)
(* The context channel has room for one context, which only a reply makes  *)
(* remote_to_client take (serve/mod.rs:118 and :178).                      *)
(***************************************************************************)
\* MySQL waits for bytes: it has none, or only the start of a packet.
Unfinished(c) == toRemote[c] # <<>> => IsStrictPrefix(toRemote[c], NextPacket(c))

\* The session can only be freed by the peers: c2r waits for room in the
\* channel, r2c for bytes, and MySQL for bytes.
Starved(c) ==
  /\ conn[c] = "open" /\ remoteUp[c]
  /\ c2r[c] = "send" /\ chan[c] # <<>>
  /\ r2c[c] = "read" /\ fromRemote[c] = <<>>
  /\ Unfinished(c)

\* A session starves only behind a command MySQL does not answer, or when the
\* packet in front came in two reads: in all other orders of the two halves
\* the context in the channel has a reply coming.
StarvedOnlyByMute ==
  \A c \in Conns : Starved(c) =>
    LET s == reqs[c][Head(chan[c]).n] IN s \in Mute \/ Len(Frames[s]) > 1

\* The two halves wait for each other: c2r, holding conn_handler, for the channel
\* to be emptied, and r2c, who would empty it, for conn_handler.
Embrace(c) == c2r[c] = "send" /\ chan[c] # <<>> /\ R2CQueues(c)

\* The requests of c of which bytes, or of whose replies bytes, are in the session.
UnderWay(c) ==
  {u.n : u \in ToSet(toProxy[c]) \cup ToSet(rbuf[c]) \cup ToSet(toRemote[c])}
  \cup {p.n : p \in ToSet(fromRemote[c]) \cup ToSet(data[c])}

\* Requests that come whole and are answered take three at a time in the session for
\* that; and a client none of whose statements a rule can match, which gets nothing
\* but its own answers, has three without an answer: one that sends a second request
\* before the first is answered, and no third, never stops its session
\* (serve/mod.rs:111-118, 182, 205).
NoEmbrace ==
  \A c \in Conns :
    LET sent == {reqs[c][n] : n \in DOMAIN reqs[c]} IN
    Embrace(c) /\ (\A s \in sent : s \notin Mute /\ Len(Frames[s]) = 1)
      => /\ Cardinality(UnderWay(c)) > 2
         /\ (sent \cup UNION {Scraps[s] : s \in sent}) \cap Cacheable = {}
              => 1 + Len(reqs[c]) - answered[c] > 2
-----------------------------------------------------------------------------
(***************************************************************************)
(* The inductive invariant behind TypeOK and StarvedOnlyByMute.            *)
(***************************************************************************)
\* Units and contexts speak of requests the client has sent.
Known(c, us) == \A i \in DOMAIN us : us[i].n \in DOMAIN reqs[c]

KnownAt(c) ==
  Known(c, toProxy[c]) /\ Known(c, rbuf[c]) /\ Known(c, toRemote[c]) /\ Known(c, chan[c])

\* Only a statement a rule matches is looked up or stored.
Storable(x) == x.should_update_cache => x.sql \in Cacheable

CacheableAt(c) ==
  /\ Storable(ctx[c]) /\ Storable(newCtx[c]) /\ Storable(cachedCtx[c])
  /\ \A i \in DOMAIN chan[c] : Storable(chan[c][i])
  /\ c2r[c] \in {"exists", "get"} => ctx[c].sql \in Cacheable
  /\ r2c[c] = "task" => cachedCtx[c].should_update_cache

\* rbuf starts with the request of ctx.
InHandAt(c) ==
  /\ c2r[c] # "read" => rbuf[c] # <<>>
  /\ c2r[c] \in {"lock", "exists", "get", "send"} => ctx[c].n = rbuf[c][1].n

\* Units of request n are among us.
Has(us, n) == \E j \in DOMAIN us : us[j].n = n

\* The context in the channel has its reply coming.
ComingAt(c) ==
  \A i \in DOMAIN chan[c] :
    LET n == chan[c][i].n IN
      conn[c] = "open" /\ remoteUp[c] /\ reqs[c][n] \notin Mute
        => \/ c2r[c] = "write" /\ Has(rbuf[c], n)
           \/ Has(toRemote[c], n)
           \/ fromRemote[c] # <<>>

RequestsKnown == \A c \in Conns : KnownAt(c)
CacheableOnly == \A c \in Conns : CacheableAt(c)
InHand        == \A c \in Conns : InHandAt(c)
ReplyComing   == \A c \in Conns : ComingAt(c)

\* Together they are inductive (proved in SessionProofs): a step of one half
\* alone cannot leave a context in the channel without a reply to come.
IInv == TypeOK /\ RequestsKnown /\ CacheableOnly /\ InHand /\ ReplyComing
-----------------------------------------------------------------------------
(***************************************************************************)
(* Liveness.  The two halves are polled whenever they can move (one task), *)
(* redis, MySQL and the client answer, and the jobs run.                   *)
(***************************************************************************)
Fairness ==
  /\ \A c \in Conns : /\ WF_vars(C2R(c)) /\ WF_vars(R2C(c))
                      /\ WF_vars(RemoteExec(c)) /\ WF_vars(ClientRecv(c))
  /\ WF_vars(CacheTaskJob /\ UNCHANGED <<proc, sessionVars>>)
  /\ WF_vars(MetricsTick /\ UNCHANGED <<proc, sessionVars>>)
  /\ WF_vars(RegisterDone /\ UNCHANGED <<proc, sessionVars>>)

FairSpec == Spec /\ Fairness

\* Every request that has an answer gets it, unless the session or the process ends.
RequestAnswered ==
  \A c \in Conns :
    (~Idle(c) /\ conn[c] = "open") ~> (Idle(c) \/ conn[c] = "closed" \/ proc # "up")

\* Every execution that is recorded is posted: the queue empties again, unless the
\* process ends.
RecordsPosted == logs # <<>> ~> (logs = <<>> \/ proc # "up")

\* remote_to_client expects every write to the client to succeed
\* (.expect(..), serve/mod.rs:216-220).
AssertedWriteSucceeds == proc # "write_expect"
=============================================================================
