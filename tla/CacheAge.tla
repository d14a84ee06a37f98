------------------------------ MODULE CacheAge ------------------------------
(***************************************************************************)
(* How old the answers from the cache are.  The sessions of ProxySession   *)
(* seen from one request to the next (serve/mod.rs), the cache job and the *)
(* lifetime it gives an entry (sys_assistant_client.rs), and the data that *)
(* changes behind the proxy.                                               *)
(*                                                                         *)
(* The context of a reply, and with it the reply, waits in its session     *)
(* (kept) until the NEXT reply from MySQL comes: an answer from the cache  *)
(* does not flush it, and the end of the session loses it.                 *)
(*                                                                         *)
(* A reply is [v, dur]: the version of the data it was computed from, and  *)
(* the duration of the rule.  What MySQL answers to a query that fails is  *)
(* a version like any other: the proxy does not look into replies.         *)
(***************************************************************************)
EXTENDS Assistant

CONSTANTS
  Sessions,
  Rules,       \* durations of the rules
  Floor,       \* 60 seconds, in ticks
  MaxChanges,  \* bound: changes of the data
  Cap          \* bound: ticks are counted up to Cap

ASSUME AgeAssumption ==
  /\ Rules \subseteq Nat
  /\ {Floor, MaxChanges, Cap} \subseteq Nat /\ Floor > 0

VARIABLES
  data,   \* the version MySQL answers from, of each key's tables
  gone,   \* history: ticks since a version was replaced
  left,   \* ticks an entry of redis has left
  late,   \* history: gone of the version of an entry, when it was stored
  cur,    \* the request a session has in hand
  kept    \* cached_ctx and cached_buf, if they are to be stored

sessionState == <<cur, kept>>
world == <<data, gone>>
entries == <<left, late>>
vars == <<jobVars, world, entries, sessionState>>

Versions == 0 .. MaxChanges
NoReply == [v |-> -1]
Idle == [pc |-> "idle"]
Unmarked == -1   \* in place of a duration: should_update_cache is not set

Init ==
  /\ AssistantInit
  /\ data = [k \in Keys |-> 0]
  /\ gone = [k \in Keys |-> [v \in Versions |-> 0]]
  /\ left = [k \in Keys |-> 0]
  /\ late = [k \in Keys |-> 0]
  /\ cur = [s \in Sessions |-> Idle]
  /\ kept = [s \in Sessions |-> NoReply]
-----------------------------------------------------------------------------
(***************************************************************************)
(* A request of a client that waits for its answer.                        *)
(***************************************************************************)
Forward(s, k, dur) ==
  cur' = [cur EXCEPT ![s] = [pc |-> "forward", key |-> k, dur |-> dur]]

\* handle_request up to the answer of EXISTS: no rule matches, or redis fails;
\* a miss, whose reply is to be stored; a key that exists.
Look(s, k) ==
  /\ cur[s] = Idle
  /\ \/ Forward(s, k, Unmarked)
     \/ redis[k] = <<>> /\ \E dur \in Rules : Forward(s, k, dur)
     \/ redis[k] # <<>> /\ cur' = [cur EXCEPT ![s] = [pc |-> "get", key |-> k]]
  /\ UNCHANGED <<jobVars, world, entries, kept>>

\* Mutant of Hit: an entry that is used lives on.
HitRenews(k) == left' = [left EXCEPT ![k] = Floor]

\* GET leaves the time to live alone.
Hit(k) == UNCHANGED left

\* GET: the client is answered, or, the entry gone since EXISTS, MySQL is asked.
Get(s) ==
  /\ cur[s].pc = "get"
  /\ LET k == cur[s].key IN
     \/ redis[k] # <<>> /\ Hit(k) /\ cur' = [cur EXCEPT ![s] = Idle]
     \/ /\ redis[k] = <<>> \/ "redis" \in Faults
        /\ Forward(s, k, Unmarked)
        /\ UNCHANGED left
  /\ UNCHANGED <<jobVars, world, late, kept>>

\* Mutant of Marked: every reply is stored.
AlwaysMarked(s) == TRUE

\* should_update_cache
Marked(s) == cur[s].dur # Unmarked

\* MySQL answers (external).
Execute(s) ==
  /\ cur[s].pc = "forward"
  /\ cur' = [cur EXCEPT ![s] =
       [pc |-> "reply", key |-> cur[s].key,
        reply |-> IF ~Marked(s) THEN NoReply
                  ELSE [key |-> cur[s].key, v |-> data[cur[s].key],
                        dur |-> cur[s].dur]]]
  /\ UNCHANGED <<jobVars, world, entries, kept>>

Task(reply) == [key |-> reply.key, body |-> <<reply>>, duration |-> reply.dur]

\* The reply comes: the context before it is flushed, and this one kept.
Flush(s) ==
  /\ cur[s].pc = "reply"
  /\ IF kept[s] = NoReply THEN UNCHANGED jobVars ELSE SendTask(Task(kept[s]))
  /\ kept' = [kept EXCEPT ![s] = cur[s].reply]
  /\ cur' = [cur EXCEPT ![s] = Idle]
  /\ UNCHANGED <<world, entries>>

\* The session ends, and another one begins.
Leave(s) ==
  /\ cur[s] = Idle
  /\ kept[s] # NoReply
  /\ kept' = [kept EXCEPT ![s] = NoReply]
  /\ UNCHANGED <<jobVars, world, entries, cur>>
-----------------------------------------------------------------------------
\* max(60, duration)
Lifetime(dur) == IF dur < Floor THEN Floor ELSE dur

\* The cache job, with the lifetime SETEX gives.
Store ==
  /\ CacheTaskJob
  /\ LET task == Head(tasks) IN
     \/ /\ redis'[task.key] = task.body
        /\ left' = [left EXCEPT ![task.key] = Lifetime(task.duration)]
        /\ late' = [late EXCEPT ![task.key] = gone[task.key][task.body[1].v]]
     \/ "redis" \in Faults /\ redis' = redis /\ UNCHANGED entries
  /\ UNCHANGED <<world, sessionState>>

Expire(k) ==
  /\ left[k] = 0
  /\ RedisExpire(k)
  /\ late' = [late EXCEPT ![k] = 0]
  /\ UNCHANGED <<world, left, sessionState>>

\* Somebody changes the data, or what MySQL makes of the query (external).
Change(k) ==
  /\ data[k] < MaxChanges
  /\ data' = [data EXCEPT ![k] = @ + 1]
  /\ UNCHANGED <<jobVars, gone, entries, sessionState>>

More(n) == IF n < Cap THEN n + 1 ELSE n
Less(n) == IF n > 0 THEN n - 1 ELSE n

\* A tick (external); an entry whose time is up has expired before it.
Tick ==
  /\ \A k \in Keys : redis[k] # <<>> => left[k] > 0
  /\ gone' = [k \in Keys |-> [v \in Versions |->
                IF v < data[k] THEN More(gone[k][v]) ELSE gone[k][v]]]
  /\ left' = [k \in Keys |-> Less(left[k])]
  /\ UNCHANGED <<jobVars, data, late, sessionState>>

Session(s) == (\E k \in Keys : Look(s, k)) \/ Get(s) \/ Execute(s) \/ Flush(s) \/ Leave(s)

Next ==
  \/ \E s \in Sessions : Session(s)
  \/ \E k \in Keys : Expire(k) \/ Change(k)
  \/ Store
  \/ Tick

Spec == Init /\ [][Next]_vars
-----------------------------------------------------------------------------
Entry(k) == Head(redis[k])

\* Every variable has its type; a reply is kept, queued and stored under its key.
Replies == [key : Keys, v : Versions, dur : Rules]

TypeOK ==
  /\ data \in [Keys -> Versions]
  /\ gone \in [Keys -> [Versions -> 0 .. Cap]]
  /\ left \in [Keys -> Nat] /\ late \in [Keys -> 0 .. Cap]
  /\ kept \in [Sessions -> Replies \cup {NoReply}]
  /\ \A s \in Sessions : cur[s].pc \in {"idle", "get", "forward", "reply"}
  /\ \A i \in DOMAIN tasks : tasks[i] \in {Task(r) : r \in Replies}
  /\ \A k \in Keys : redis[k] # <<>> => Entry(k) \in Replies /\ Entry(k).key = k

\* An entry is stale for no longer than it was when it was stored, late, and for the
\* rest of its lifetime: neither hits nor the replies that wait to be stored over it
\* extend that (serve/mod.rs:178-192, sys_assistant_client.rs:171-180).
StaleWithinBounds ==
  \A k \in Keys : redis[k] # <<>> =>
    gone[k][Entry(k).v] + left[k] <= late[k] + Lifetime(Entry(k).dur)

\* Time passes, the job runs, and redis drops what has expired.  Nothing is
\* assumed of the clients.
FairSpec ==
  /\ Spec
  /\ WF_vars(Tick) /\ WF_vars(Store) /\ \A k \in Keys : WF_vars(Expire(k))

\* Once the data stays the same, the cache answers with it for good, although
\* replies of before may wait in any session and be stored late, over newer ones:
\* an entry in use does not stay alive by that, and an error does not outlive its
\* cause (serve/mod.rs:181, 391).
StaleReadsEnd ==
  <>[](\A k \in Keys : redis[k] # <<>> => Entry(k).v = data[k])
=============================================================================
