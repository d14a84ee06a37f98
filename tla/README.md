# virt-db: a verification of the proxy, its cache and its reports

virt-db puts a caching proxy (`src/server`, "vt-server") between MySQL clients and one
MySQL server. Replies to SELECTs that match a caching rule are kept in redis. An admin
server (`src/admin`) edits the rules, keeps a list of the proxies that are alive and shows
how long statements take. This directory holds TLA+ modules that model those parts, the
TLC configurations that check them on small instances, and TLAPS proofs about the proxy's
sessions, the rules, the age of cached answers, the registry, the metrics and the accounts.

```
tlc -workers 4 -config session_sequential.cfg MCSession    # a run: <run>.cfg, MC module
tlapm SessionProofs.tla                                    # proofs, about 4 minutes
tlapm RecordProofs.tla                                     # and those of the other *Proofs
```

Paths below are relative to `src/`.

## The system

| component | source | state | operations | talks to |
|---|---|---|---|---|
| proxy sessions | `server/src/serve/mod.rs`, `server/src/server.rs`, `server/src/protocol/mod.rs` | two read buffers, the context of the request in hand, the context being answered with its collected reply, a channel of one context, two mutexes | accept; client to MySQL: read, classify, look up, forward or answer from the cache; MySQL to client: read, flush the previous context, collect, write | client, MySQL and redis by sockets; the jobs by two bounded channels; the rules by a static variable |
| background jobs | `server/src/sys_assistant_client.rs`, `server/src/main.rs` | the two channels, the batch being posted | store a reply in redis; every 5 s drain the executions and POST them | redis, admin server |
| caching rules | `server/src/meta.rs`, `admin/src/controller/cache_config_controller.rs` | table `cache_config`; a `static mut Vec` in the proxy | create, update, delete; refresh the Vec; iterate over it | sessions read the Vec with no synchronisation |
| registry and reports | `admin/src/controller/vt_node_controller.rs`, `admin/src/job/vt_node_job.rs` | map from proxy to expiry, under a tokio mutex; table `metric_history` | register a proxy and insert its rows; forget expired proxies | proxies by HTTP, meta database |
| metrics | `handle_metrics`, `server/src/math/avg.rs`, `admin/src/controller/metric_history_controller.rs` | table `metric_history` | condense a batch, chart the last 30 minutes, page through the statements | registry, user interface |
| accounts and tokens | `admin/src/controller/user_controller.rs`, `admin/src/utils/jwt.rs` | table `sys_user`; tokens, which their holders keep | login, change the password | meta database |
| SQL text | `server/src/utils/sys_sql.rs` | none | remove comments, match a rule, make a pattern | sessions, rules, metrics |
| configuration, logging, errors, entities, static files, `assistant` | see `PROJECT.json` | none that changes | | not modelled |

What is hard here:

- **One task, two halves.** A session polls `client_to_remote` and `remote_to_client` in
  one `select!`. They interleave at every await, and share a context channel of capacity
  1, the handler mutex and the client-writer mutex. A half can wait for the channel while
  it holds the mutex the other half needs.
- **Replies have no ends.** The proxy does not parse replies. It takes the arrival of a
  context with the next read as the end of the previous reply.
- **Late effects.** A reply is stored and recorded when the next one starts, through a
  channel, by a job, and by then it may be older than what it replaces; a rule is used
  after awaits while a thread rebuilds the list.
- **Failures.** A panic anywhere aborts the process (`panic = 'abort'`). POSTs are not
  repeated. Several writes of one operation are not in a transaction.

What makes each part correct: a client gets whole answers to its own requests, in order, and
the session does not stop; the cache holds whole replies under their own keys, and not for
longer than it should; an execution is recorded and counted at most once; an edit of the
rules reaches the sessions, and a lookup not overlapped by a refresh sees one consistent
list; a lease is only ever extended, an expired proxy is forgotten and reports are served;
the chart adds up; an old password stays dead, and only who has logged in lately changes
one; the text functions agree with what MySQL and the rules mean by them. The full list of
what can go wrong, line by line, is `hazards` in `PROJECT.json`.

## Modules

| module | models | state and actions against the code |
|---|---|---|
| `Assistant` | the two job channels, the redis job, the metrics job | `tasks`, `logs` are the mpsc channels, `batch` the messages of the POST in progress, `redis` the cache. `SendTask`, `SendLog`: `send().await` (waits when full). `CacheTaskJob`, `MetricsTick`, `RegisterDone`, `Expire`. |
| `ProxySession` | every session, its client and MySQL; EXTENDS `Assistant` | `c2r`, `r2c` are the points of the two halves between awaits, so an action is the code from one await to the next. `rbuf` and `ctx`, `data`, `newCtx`, `cachedCtx`, `cachedBuf` are their locals; `chan` the context channel; `handler` the mutex with its owner; `toProxy` ... `toClient` the sockets. |
| `SessionProps` | properties, the inductive invariant `IInv`, fairness | |
| `QueryService` | the proxy as its clients should see it | one action per event a client or MySQL can tell: `Greet`, `Ask`, `Make` (MySQL executes), `Hit` (an answer is repeated), `Get`, `Keep`, `Forget`. No halves, sockets, buffers, locks or queues. |
| `CacheAge` | how old cached answers are; EXTENDS `Assistant` | `cur` is a request in hand, `kept` the reply that waits in its session (`cached_ctx`, `cached_buf`), `left` the time to live of a key. A session is seen from request to request: how its halves interleave is `ProxySession`. |
| `SessionProofs`, `RecordProofs`, `ServiceProofs`, `NodesProofs`, `RulesProofs`, `CacheAgeProofs`, `AccountProofs`, `MetricsProofs` | the theorems, each EXTENDS the module it is about and TLAPS; `RecordProofs` also `SessionProofs`, and `ServiceProofs` also `RecordProofs` | |
| `VtNodes`, `NodesProps` | proxies that report and restart, the POST and its failures, `register`, the alive check | `queue` is `vt_nodes_lock`: its owner and the waiters. `nodes` the map, as time left. `table` counts in how many rows an execution was inserted. `req` the handlers. Each proxy's part is shown to take only steps of `Assistant`. |
| `Metrics`, `MetricsProps` | reports from executions to rows, the chart, the pages | `Condensed` is `handle_metrics`: the sort is a permutation of the batch, `group_by` cuts it where the key changes. `reports` has what was reported and how many of its rows are in `table`: `Insert` stores one, `Fail` loses the others. `Chart` is the query of `list_sql`, evaluated on `table`. |
| `CacheRules`, `RulesProps` | rule edits, the refresh thread, lookups | `buf` and `len` are the memory of the Vec: `clear`, each `push` and each step of the iterator is an action, as no lock joins them. |
| `Account` | login and update_password, and the tokens between them | a request reads the row in one action and decides in another; a token is checked when the request comes in. |
| `SqlText` | `remove_comments`, the two cache keys, `is_pattern_match`, `sql_to_pattern` | operators without state. |
| `MC...` | instances for TLC; `MCSqlText` enumerates inputs and holds the reference definitions of the text functions | |

`Assistant` is the shared part: `ProxySession` and `CacheAge` compose it with the sessions,
`NodesProps` instantiates it once per proxy and checks that proxy and admin server together
implement it (`ImplementsQueue`).

`ProxySession` implements `QueryService` for clients that wait for each answer
(`ImplementsQueryService`, in `SessionProps`). The refinement mapping takes as the answer on
its way to a client all that is between MySQL and the client's last read, in this order: what
the client has read of it (`inbox`), the socket to the client, the value of a hit about to
be written, the bytes `remote_to_client` has in hand, and the socket from MySQL. Each step of
the sessions either leaves that and the cache alone or is an action of the service. The
service is a specification of safety: that answers come is `RequestAnswered`.

Abstractions worth knowing:

- Bytes come in *units*, each the size of one read. A packet is one unit, or two for a
  large one; a reply is one or two parts. A read takes any number of units that have
  come, so replies and requests are joined and split as TCP does. A read of less than the
  five bytes of a packet header and type is a fault (`C2RShort`), which aborts the process.
- A statement is a model value with the properties the code distinguishes: its packet
  types as seen at each unit, whether a rule can match it, whether it has a pattern,
  whether MySQL answers it, and its two keys. Rules may or may not match a SELECT that one
  can match: that is `CacheRules` seen from a session.
- A read that is exactly one packet has the text of its statement. Any other, a piece of a
  packet or several packets together, has a text of its own (`TextsOf`): none that matters, or
  one of `Scraps`, as the first piece of `SELECT .. WHERE x = 123` may be `SELECT .. WHERE x = 12`.
  A context, and so a record, stands for a read, named by its first unit.
- tokio's mutex is first come, first served. tokio's cooperative budget, which can make an
  await yield that could go on, adds no interleaving that is not there already.
- In `ProxySession` redis forgets any key at any time (`RedisExpire`), so nothing rests on
  how long a key lives. `CacheAge` has the time to live; redis drops a key before the tick
  after its end.
- In `CacheAge` a reply is the version of the data it was computed from. What MySQL answers
  to a query that fails is a version too, as the proxy does not look into replies: an error
  is stored like any reply. The clock of ages stops at `Cap`, the versions at `MaxChanges`.
- In `Account` a token is a user and an expiry; nobody signs tokens but login. The check of
  jsonwebtoken allows a leeway of 60 s.
- In `VtNodes`, instants are the time left until them, so time needs no bound.
- In `Metrics`, seconds, minutes and the width of an i32 are constants; the average of the
  report averages is kept as a sum and a number of rows, so no rounding is hidden. It is a
  mean of means, not the mean of the executions. Counts are not cut to 32 bits: a report
  would need 2^31 executions. Proxy, admin server and meta database have one clock. Rows of
  several reports are stored in any interleaving, which is more than the lock of `register`
  allows. Which patterns the collation of `sql_str` takes for equal is a constant, `Fold`.
- In `CacheRules`, a reference into memory that was moved reads anything, or faults. The
  query without ORDER BY is taken to return the rows in the order of the key.

## Runs

| run | instance | checks |
|---|---|---|
| `session_sequential` | two sessions over one cache, three requests each, one unanswered at a time; statements: login, a SELECT, the same with a comment, quit; sessions are symmetric | `ImplementsQueryService`, `FlushedReplyIsWhole`, `ProcessSurvives` |
| `session_faults` | one session, four requests one at a time; redis fails, MySQL closes, the client resets and reads are too short, at any time; under fairness | `CacheHoldsWholeReplies`, `RequestAnswered`, `RecordsPosted` |
| `session_async` | one session, four requests, up to three unanswered; statements: login, a SELECT, an INSERT, a command without reply, two packets of two reads, whose second pieces have a known and an unknown type, and whose pieces may have the text of the SELECT | `TypeOK`, `StarvedOnlyByMute`, `NoEmbrace`, `HitStaysOffMySQL`, `RecordedOnce`, `ForwardedOnce`, `EndsForCause` |
| `session_reset` | one session whose client closes at any moment | `AssertedWriteSucceeds` is violated |
| `nodes_reports` | two proxies, two executions each, two handlers; inserts fail, the admin server restarts, one proxy restarts and loses answers; under fairness | `TypeOK`, `CountedOnce`, `LeaseUnderLock`, `ImplementsQueue`, `LeaseOnlyRenewed`, `ReportServed`, `ExpiredForgotten` |
| `nodes_idle` | one proxy with nothing left to report | `AliveNodesKept` is violated |
| `metrics_chart` | two reports of three executions in all, inserts that fail, two patterns of one fold, a clock that passes midnight | `TypeOK`, `OneRowPerStatement`, `ChartCountsStored`, `DurationsInOrder`, `ChartInOrder`, `PagesPartition` |
| `rules_refresh` | two rules, three edits, one session; connections and queries fail; under fairness | `TypeOK`, `LookupSeesOneRefresh`, `EditsReachSessions` |
| `account_races` | four requests on two accounts, three passwords, two salts, tokens that live for one tick and a leeway of another; accounts and requests are symmetric | `OldPasswordDead`, `UpdateNeedsLogin` |
| `cache_age` | two sessions over one key, whose data changes once; rules of one and three ticks, at least two are given; redis fails; under fairness | `TypeOK`, `StaleWithinBounds`, `StaleReadsEnd` |
| `account_salt` | three requests | `WrongPasswordIsWrong` is violated |
| `sql_text` | all texts of up to 7 characters of each of four alphabets of five; all templates and statements of up to 3 tokens; all WHERE clauses of up to three conditions, with and without an alias and a semicolon | `CommentsRemoved`, `HitIsSameStatement`, `FoundAgain`; `MatchIsSubstitution`; `PatternForgetsValues`, `PatternIsItsRule` |

What the properties say is in the comment before each of them, with the lines it is about.
`LeaseOnlyRenewed` rests on a proxy having one POST at a time: when it restarts or an answer
is lost, the next report may overtake the one still being stored, and a lease can be
shortened. It is stated for the proxies that are not in `Flaky`, beside one that is.

Why the bounds are enough to be interesting. Two sessions and two keys are the least with
which a reply can reach the wrong client or the wrong key; a session needs a login, a
request that fills the cache and one that hits it, which is three. Job channels of one
element make every `send` wait. Two handlers are the least that wait for each other and
for the job; a lease of one tick expires while a handler waits,
and is shortened by a report stamped a tick before another. Reports of one proxy have two
rows, so that one can fail half way. In `cache_age`, the least lifetime is between the two
rules, and ages are counted beyond a wait, the longer rule and the leeway of a tick. Four
requests are a login, two updates that race, and a login after them. `Metrics` crosses a minute,
the window, a day and an i32 with durations up to `Half`. `MinCap = 1` makes the second
push of a refresh move the memory. Seven characters hold a comment between two words, two
comments, and a comment in a comment.

Deadlock is checked, except in `account_*` and `sql_text`, which end when the requests or
the input do, and in `session_async`. A session of a client that does not wait can stop for
good, in the ways described below: its model then has no next step. In `session_sequential`
and `session_faults` the absence of deadlock says that a session of a client that waits can
always go on.

### What the violations show

- `session_reset`: a client that closes while bytes are about to be written to it, in the
  behaviour found those of the greeting, aborts the proxy, and all sessions with it (`serve/mod.rs:220`; `panic = 'abort'`).
- `nodes_idle`: a proxy registers only along with executions, so one that is alive and idle
  for two minutes is forgotten (`sys_assistant_client.rs:71`, against `admin/src/main.rs:96`).
- `account_salt`: the new hash is stored without its salt, so that the next login with the
  new password is refused (`user_controller.rs:106-110`).

### How old an answer from the cache can be

A reply that is to be stored waits in its session until that session reads its next reply
from MySQL. Hits do not flush it, so it waits for as long as the client asks nothing else,
and then replaces what is stored under its key, however new that is. `StaleWithinBounds`
says that this wait and `max(60, duration)` together are all: an entry is stale for no longer
than it was when it was stored and for the rest of its lifetime. `StaleReadsEnd` says that
after the last change the old versions end, the stored errors included, without anything
assumed of the clients. What the code does not give is order: a client can read the answer of
after a change and then, from a reply another session stored late, the one of before it. And
the last reply of a session is never stored or recorded.

### What clients that do not wait get

The proxy is written for clients that wait for each reply, as MySQL clients do.
`ImplementsQueryService` and `FlushedReplyIsWhole` are stated for these (`Window = 1`).
With two requests unanswered a hit can overtake the reply before it, and reply bytes of two
requests are not told apart. With three, or with two after a command MySQL does not answer,
the halves can wait for each other: one for the channel with the handler locked, the other
for the handler. Such a session stays until the process ends, as neither half then notices
that its peer has left.

`NoEmbrace` says what that takes, if every request comes in one read and is answered: three
requests of which bytes, or of whose replies bytes, are in the session. Counted by the client,
these are three without an answer as long as no rule matches its statements. That condition is
needed: what a pipelining client has stored under a key can be the replies of several requests
at once, or half of one, so that a client answered by hits may have read more answers than it
has had requests executed. (The bound by the client's count alone holds in instances of few
requests, and fails in larger ones.) `StarvedOnlyByMute` says what a session can starve behind.
`session_async` has all those behaviours; its four requests are a login and the three that
`NoEmbrace` is about.

### What becomes of cut and joined packets

`client_to_remote` takes each read for a packet. A piece of a packet that a read cuts has a
type, from its fifth byte, and a text; it is matched against the rules, looked up, answered and
recorded like a packet (`serve/mod.rs:96-146`). So the first piece of a long statement can be
answered from the cache, with the answer to another statement, while the second is forwarded
to MySQL as the start of a packet; and one statement can have two records. Several packets in
one read are one text, which may match a rule if a line comment of the first swallows the
others. What holds all the same, and is proved, is about reads: `HitStaysOffMySQL` (a read that
is answered is not forwarded, and MySQL never answers the request of which it gets the rest),
`RecordedOnce`, `ForwardedOnce` and `EndsForCause`.

The last two exempt sessions in which `packet_type` rejected a packet. Its bytes stay in the
buffer (`serve/mod.rs:99-104`), are forwarded again with every read that follows, and fill it
up until the session ends.

### What the text functions do beside what is promised

The properties of `sql_text` name their exceptions, which are behaviour of the code:

- In a comment, `/*` consumes a star that may belong to the closing bracket: of `/*/*/a`
  nothing is left, so that the statement is forwarded as no SELECT (`sys_sql.rs:314`).
- A comment between two words is removed without leaving a blank: `a/**/b` has the key of
  `ab`. Brackets inside string literals and line comments are taken for comments, and so is
  `/*! .. */`, which MySQL executes.
- A text with a comment, an outer blank, or a quote, backslash, line break or tab in it is stored
  under a key nobody looks up (`FoundAgain`): `{:?}` escapes the latter. A text that has the
  escapes in it, `x='a\\tb'`, has the key of the statement they stand for, `x='a\tb'`, and
  gets its answer, of another string.
- A template that cannot be tokenized matches all statements that cannot be tokenized
  (`MatchIsSubstitution`).
- A pattern is no rule for its statement if a compared value is more than one token, as a
  negative number is, or if conditions are joined by OR, whose right side becomes one `?`. Nor
  is it if sqlparser prints the statement in other tokens than it was written in:
  `article a` becomes `article AS a`, and a semicolon at the end is dropped (`PatternIsItsRule`).

### What the chart counts

A report is posted once, and its rows are inserted one by one. The first insert that fails, as
one of a pattern of more than 500 characters does, loses its row and all after it
(`vt_node_controller.rs:60-62`). The chart counts every execution whose row was stored, in the
minute of the row's stamp, and no other (`ChartCountsStored`). Patterns that differ in case are
one pattern for `group by` and `=` (`sql/schema.sql:23`): the executions of both are in one chart.
`PagesPartition` says that the pages of a list are the list, for every order the list may have;
as `list_sql` has no ORDER BY, MySQL may choose another order for the next page, and then nothing
is promised.

## Fairness

- Sessions: each half, MySQL and the client's reads are weakly fair (a task that can go on
  is polled; one select! polls both halves), and so are the jobs, including the end of a
  POST. Nothing is assumed of what clients send, of the faults, or of expiry. `reqwest` has
  no timeout: that POSTs end is an assumption on the admin server, not on the proxy.
- Registry: each handler, the job and the clock are weakly fair. Strong fairness of the
  lock is not assumed, the queue of the mutex provides it.
- Cached replies: the clock, the job and the expiry of keys are weakly fair; sessions are
  not, as a client may stop asking at any point.
- Rules: the refresh thread is weakly fair, and connecting is strongly fair: a meta
  database that is reachable again and again is reached in the end.

## Proofs

`SessionProofs` proves, for all constants that satisfy the assumptions of `Assistant` and
`ProxySession` (any connections, statements, keys, capacities and bounds).
Of these the proofs use `AssistantAssumption` and `SessionAssumption`; `PacketFits`, that the
socket to MySQL has room for a whole packet, keeps the runs from blocking for a reason
the model invented, and no theorem rests on it:

- `TypeCorrect`: `Spec => []TypeOK`, which includes that the context channel never holds
  more than one context.
- `StarvationFree`: `Spec => []StarvedOnlyByMute`. When `client_to_remote` waits for room
  in the context channel, nothing is on the way from MySQL and MySQL has no whole packet to
  execute, then the context in the channel belongs to a command MySQL does not answer or to
  a packet that came in two reads. For a client that sends whole, answered commands, the
  capacity of 1 starves no session, however the halves interleave.

The second needs an invariant about the whole path of a request. `IInv` is

- `TypeOK`;
- `RequestsKnown`: units in buffers and sockets, and contexts in the channel, are of
  requests the client has sent, so that talking of their statement makes sense;
- `CacheableOnly`: a context marked for the cache is of a statement a rule can match, with
  which `tasks` and `redis` keep their types;
- `InHand`: between read and write the buffer starts with the request of `ctx`, so that the
  context put in the channel is that of the bytes about to be written;
- `ReplyComing`: as long as MySQL is connected, the request of a context in the channel is
  still in the buffer about to be written, or on its way to MySQL, or something is on its way
  back, unless it is a command without reply. `StarvedOnlyByMute` follows: starved, the first
  and the third are out, and the bytes on the way to MySQL are the start of a packet of two
  reads.

There is one lemma per action (`C2RReadPreserves`, ...), one for the jobs, and a few on
sequences (`ReadSplit`, `KnownJoined`, `HasLeft`, ...). `session_async` checks both
properties on an instance.

`RecordProofs` goes on from there, under the same assumptions, so for clients that pipeline,
packets that are joined or split by reads, and all faults:

- `ContextsInStep`: `Spec => []IInv`.
- `RecordedAtMostOnce`: `Spec => []RecordedOnce`.
- `HitsNotForwarded`: `Spec => []HitStaysOffMySQL`.
- `ForwardedInOrder`: `Spec => []ForwardedOnce`, and `SessionEndsForCause`: `Spec => EndsForCause`.
- `NoMutualWait`: `Spec => []NoEmbrace`.

A record is made from a context long after the read it is about has left the client, so
the invariant `Flow` follows both. Units are numbered and leave the client in order
(`UnitsOK`); what MySQL has executed has left it whole (`ExecutedOK`). The buffer is empty before
a read unless it starts with a rejected packet (`StuckOK`), which stays rejected, as it is never
cleared; so what is read and what is on its way to MySQL are in order and behind all that has
been executed (`ForwardOK`). As long as a read is in hand, it is later than all that is on the
way to MySQL, executed, passed on or recorded (`FreshOK`); its context, passed on, is behind
all others (`PendingInOrder`) and marked as not from the cache (`PendingOK`), until it is
recorded or dropped, and never comes back (`RecordsOK`). Nothing of this depends on what text a
read has, nor on the client's waiting. A read that was answered from the cache is never among
the bytes on the way to MySQL, and as a packet is only executed when all its units are there,
neither is its request among those executed. `FlowShrinks` states once what a step of one half
must respect; each action then has one lemma.

`NoMutualWait` stands on `Flow` and on the order in which things are. As long as requests come
whole and none has been rejected, requests on their way to MySQL, the context in the channel,
the one in hand and the reply in hand are of ascending requests (`LineAt`). The request of the
context in the channel is still to be written, or is on its way to MySQL, or its reply is on
the way back (`PlaceAt`); so, when the halves wait for each other, it is a second request in
the session, between the one whose reply `remote_to_client` holds and the one in hand. For
the count by the client, `AnswersAt` says that without hits a client is given exactly the parts
of its own replies, in order, and has read no more of them than MySQL has executed.

`ServiceProofs` is about clients that wait for each answer. Its hypothesis `OneAtATime` says
that the window is 1, that a command comes in one read with a type `packet_type()` knows, that
MySQL answers each but COM_QUIT, and that no rule matches the login or COM_QUIT. It is what
`session_sequential`, `session_faults` and `session_reset` instantiate; `session_async` is the
instance without it, and *What clients that do not wait get* shows that it is needed. Under it,
for any sessions, statements, rules, sizes of replies, reads and queues:

- `FlushedWhole`: `Spec => []FlushedReplyIsWhole`, and `WholeRepliesCached`:
  `Spec => []CacheHoldsWholeReplies`, with every fault.
- `ProcessNeverAborts`: `Spec => []ProcessSurvives`, if clients do not leave an answer behind,
  redis does not fail and no read is shorter than a header (`Faults \subseteq {"backend"}`): each
  of these can abort the process.
- `ServiceImplemented`: `Spec => ImplementsQueryService`, if clients do not leave an answer behind
  (`"reset" \notin Faults`).

The inductive invariant `Orderly`, which stands on `IInv`, says at which station the one
unanswered request of each connection is, and then its answer (`StationAt`): `Unborn`, `Asked`
(on its way to the proxy), `Held` (in `handle_request`), `Passed` (its context is in the channel),
`AtMySQL`, `Made`, `FlushesLast` (the reply before it is being flushed), `Returning`, `Served`, or
`Left` after COM_QUIT. A station fixes both points of control and what every buffer and socket
holds, so `cached_buf` is whole whenever a flush begins. `TidyAt` ties contexts and executed
requests to requests sent. `OwedAt` is for clients that are still there: at most one answer is
outstanding, what is on its way is empty or one whole answer, and is empty as long as the request
waits. `RedisWhole` and `TasksWhole` carry a whole reply from the flush to the cache; the process
survives because a client only leaves when nothing is left to be written to it. There is one
lemma per action. In the refinement `ClientSend`, `RemoteExec`, a hit, `ClientRecv` and the jobs
have one lemma each (`AskStep`, `MakeStep`, ...), and all other steps are hidden
(`HiddenC2R`, `HiddenR2C`, `HiddenClose`).

`NodesProofs` proves about `VtNodes`, from `NodesAssumption` (any proxies, handlers,
executions and durations, any restarts):

- `NodesTypes` and `LeaseGuarded`: `Spec => []TypeOK`, `Spec => []LeaseUnderLock`. `LockInv`
  says that the queue of the mutex holds exactly those who asked for it and have not let it
  go, each once, and that who is past the lock is at its head; so the handler that inserts
  rows excludes the alive check.
- `NeverCountedTwice`: `Spec => []CountedOnce`. `CountInv` gives each execution one place:
  the channel, one request, or the table, of which it only ever enters the next. Numbers are
  those of executions made (`NumbersOK`), so that a new one has no place yet.
- `RenewedOnly`: `Spec => LeaseOnlyRenewed`. By `OneReport` a proxy outside `Flaky` has one
  request on its way, whose lease therefore ends no earlier than the one in the map.
- `QueueImplemented`: `Spec => ImplementsQueue`, a refinement: each step is, for each proxy,
  one of `Assistant`, a restart, or a stutter. The capacity in that instance is never met, as
  a proxy has logged what is in its channel (`ChannelBounded`).

`RulesProofs` proves about `CacheRules`, from `RulesAssumption` (any finite set of rules, any
edits, failures and lookups):

- `RulesTypes`: `Spec => []TypeOK`.
- `FirstRuleFound`: `Spec => []LookupSeesOneRefresh`.

`RulesInv` adds to the types that the live slots are the rules of the last refresh less those
still to be pushed (`CopyOK`), and for every lookup that its slots are in memory and have
been written at some time, that the iterator is within them, and, if no refresh has touched
it, that all rules it has passed do not match (`LooksOK`). That the rows of the query can be
put in the order of their key is a fact about finite sets of numbers (`Enumerated`). Its
proof takes a smallest set for which it fails, as induction is out of the provers' reach.

`CacheAgeProofs` proves about `CacheAge`, from `AgeAssumption` alone (any keys, sessions,
rules and bounds; neither what clients do nor which SETEX fails matters):

- `AgeTypes`: `Spec => []TypeOK`, with which replies stay under the key they answer.
- `StaleIsBounded`: `Spec => []StaleWithinBounds`.

The inductive invariant `AgeInv` adds the types of the requests in hand (`SessionOK`) and of
the queue (`QueueOK`), so that the entry a `Store` makes is a reply with a version and a
duration (`EntryOK`), to the bound itself. `Store` makes the bound an equality, `Tick` adds at
most one to the left and takes one from what is left of an entry that has not expired, and no
other step touches either side: that `Hit` leaves the lifetime alone is needed here.

`AccountProofs` proves about `Account`, with no assumption on users, passwords, salts,
requests or lifetimes beyond the module's:

- `OnlyLastPassword`: `Spec => []OldPasswordDead`.
- `OnlyRecentLogin`: `Spec => []UpdateNeedsLogin`.

A request decides on a row it read some steps ago, so `AccountInv` says which password each
request's copy of the row is the hash of (`ReadOK`, `OpenedOK`): the one in force when
as many updates were stored as the request remembers in `since`. `RowOK` says it of the row
itself, whatever salt it was hashed with. For tokens, `TokenOK` ties each to the login
that signed it, and `BroughtOK` keeps, for a request that awaits the database, that its
token was good when it came.

`MetricsProofs` proves about `Metrics`, from `MetricsAssumption` (statements in any order,
durations that are not negative, as `Instant` is monotonic, any minute and width of an i32,
any window and a day not shorter than it, any number of reports of any size), all that the
run `metrics_chart` checks:

- `RowPerStatement`: `Spec => []OneRowPerStatement`.
- `Types`: `Spec => []TypeOK`.
- `CountsOfChart`: `Spec => []ChartCountsStored`.
- `OrderOfDurations`: `Spec => []DurationsInOrder`.
- `OrderOfLines`: `Spec => []ChartInOrder`.
- `Pages`: `Spec => []PagesPartition`, and the same for every page size and for every list
  MySQL may make of the statements, as long as it makes the same for each page.

The first is about one report. Its sort is a bijection of the places of the batch
(`SortOrderIs`), so a run of equal keys holds all executions of its statement and no other
(`RunCondensed`), and `Condensed` makes one row of each (`CondensedIs`). The chart is a
statement about rows of many reports, and no row says which report it is from, or which row
of that report it is: the invariant adds both (`Traced`). Two functions give each row of the
table its report and its number among the rows of that report (`Traces`); no two rows have
the same report and number, and every row a report has stored has its place in the table.
`Shape` keeps what is stored of a report within its rows, and its stamps in the past.
`Insert` extends the two functions by the one row it stores (`InsertKeeps`); a report that
comes, an insert that fails and the clock leave them as they are (`ReportKeeps`,
`FailKeeps`, `TickKeeps`). The rows a failing insert keeps from the table are rows of no
number up to `stored`, and the chart does not count them. From the invariant the executions
of a minute are the disjoint union of those of the minute's rows (`Covered`), so the sums of
the chart are sizes of sets (`TotalOfSizes`), its extremes are durations, and its averages
lie between them.

Sums, pages and orders are recursive or chosen, and an induction over them would need the
theorems with operators for parameters. `Stepwise` is that induction for a set of numbers
instead of an operator, by its least counterexample; `Sums`, `SumOfSizes` and `Flattened`
apply it to the sets of indices up to which a recursive function does what it should.

Only model-checked:

- the liveness properties (`RequestAnswered`, `RecordsPosted`, `ReportServed`,
  `ExpiredForgotten`, `EditsReachSessions`, `StaleReadsEnd`): fairness is beyond the prover;
- the text functions, whose operators are recursive over texts and trees: what they compute
  for every input is induction over data.

## Plan

Done in this order: `Assistant`, `ProxySession` with its properties and proofs; `VtNodes`;
`CacheRules`; `Metrics`; `Account`; `SqlText`; `CacheAge`; `QueryService`; proofs about
`CacheAge` and `Account`, `VtNodes`, `CacheRules`, the records of the sessions, clients
that wait for each answer, the mutual wait of a session's halves, and `Metrics`.

Every safety property of a run is now a theorem, except those of the text functions.

## Not modelled

Configuration, logging, error types, table entities, static files and the mock controller
hold no state that changes; `sys_redis.rs`, `normally`, `trim_tokens`,
`is_sql_pattern_match` and the assistant crate have no callers but tests. `PROJECT.json`
lists each with its reason, and the hazards that no property covers with theirs. Three more
belong with these. The SQL that `list_sql` builds from a pattern is evaluated, not parsed: a
pattern with a double quote makes that query fail. Error replies are stored and answered
like any others (`serve/mod.rs:391`): they are versions of the answer in `CacheAge`, and go
as these do. And `max(60, duration)` (`sys_assistant_client.rs:171`) is `Lifetime`, which
`StaleWithinBounds` takes as given.
