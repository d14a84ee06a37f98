--------------------------- MODULE CacheAgeProofs ---------------------------
(***************************************************************************)
(* For any keys, sessions, rules and bounds: an entry of the cache is      *)
(* stale for no longer than it was when it was stored, and its lifetime.   *)
(***************************************************************************)
EXTENDS CacheAge, TLAPS

-----------------------------------------------------------------------------
(***************************************************************************)
(* The inductive invariant.                                                *)
(***************************************************************************)
\* What a session has in hand names a key, and the reply is of the key.
Hands ==
  {Idle}
  \cup [pc : {"get"}, key : Keys]
  \cup [pc : {"forward"}, key : Keys, dur : Rules \cup {Unmarked}]
  \cup [pc : {"reply"}, key : Keys, reply : Replies \cup {NoReply}]

SessionOK ==
  /\ cur \in [Sessions -> Hands]
  /\ kept \in [Sessions -> Replies \cup {NoReply}]

QueueOK == tasks \in Seq({Task(r) : r \in Replies})

\* An entry is one reply, under its own key.
EntryOK ==
  /\ redis = [k \in Keys |-> redis[k]]
  /\ \A k \in Keys :
       redis[k] # <<>> => \E r \in Replies : redis[k] = <<r>> /\ r.key = k

AgesOK ==
  /\ data \in [Keys -> Versions]
  /\ gone \in [Keys -> [Versions -> 0 .. Cap]]
  /\ left \in [Keys -> Nat]
  /\ late \in [Keys -> 0 .. Cap]

AgeInv == SessionOK /\ QueueOK /\ EntryOK /\ AgesOK /\ StaleWithinBounds
-----------------------------------------------------------------------------
(***************************************************************************)
(* What the values are made of.                                            *)
(***************************************************************************)
\* A task carries one reply, under the key and with the duration of the reply.
LEMMA TaskCarriesReply ==
  ASSUME QueueOK, tasks # <<>>
  PROVE  /\ Tail(tasks) \in Seq({Task(r) : r \in Replies})
         /\ \E r \in Replies : Head(tasks) = Task(r)
<1>1. Head(tasks) \in {Task(r) : r \in Replies}
  BY DEF QueueOK
<1> QED BY <1>1 DEF QueueOK

\* A lifetime is a number of ticks.
LEMMA LifetimeIsNat ==
  ASSUME NEW dur \in Rules
  PROVE  Lifetime(dur) \in Nat
BY AgeAssumption DEF Lifetime

\* An entry is one of the replies.
LEMMA EntryIsReply ==
  ASSUME EntryOK, NEW k \in Keys, redis[k] # <<>>
  PROVE  Entry(k) \in Replies /\ Entry(k).key = k
BY DEF EntryOK, Entry

\* A reply names a key, a version and a duration.
LEMMA ReplyFields ==
  ASSUME NEW r \in Replies
  PROVE  r.key \in Keys /\ r.v \in Versions /\ r.dur \in Rules
BY DEF Replies
-----------------------------------------------------------------------------
(***************************************************************************)
(* Steps that leave the entries and their ages alone.                      *)
(***************************************************************************)
LEMMA AgesStay ==
  ASSUME AgeInv, UNCHANGED <<redis, world, entries>>
  PROVE  EntryOK' /\ AgesOK' /\ StaleWithinBounds'
BY DEF AgeInv, EntryOK, AgesOK, StaleWithinBounds, Entry, world, entries

\* A session takes a request, and forwards it or finds its key.
LEMMA LookPreserves ==
  ASSUME AgeInv, NEW s \in Sessions, NEW k \in Keys, Look(s, k)
  PROVE  AgeInv'
<1>1. EntryOK' /\ AgesOK' /\ StaleWithinBounds'
  BY AgesStay DEF Look, jobVars
<1>2. QueueOK'
  BY DEF AgeInv, QueueOK, Look, jobVars
<1>3. PICK h \in Hands : cur' = [cur EXCEPT ![s] = h]
  BY DEF Look, Forward, Hands
<1>4. SessionOK'
  BY <1>3 DEF AgeInv, SessionOK, Look
<1> QED BY <1>1, <1>2, <1>4 DEF AgeInv

\* GET answers, or the request is forwarded: the entry and its lifetime stay.
LEMMA GetPreserves ==
  ASSUME AgeInv, NEW s \in Sessions, Get(s)
  PROVE  AgeInv'
<1>1. EntryOK' /\ AgesOK' /\ StaleWithinBounds'
  BY AgesStay DEF Get, Hit, jobVars, entries
<1>2. QueueOK'
  BY DEF AgeInv, QueueOK, Get, jobVars
<1>3. cur[s].key \in Keys
  BY DEF AgeInv, SessionOK, Hands, Idle, Get
<1>4. PICK h \in Hands : cur' = [cur EXCEPT ![s] = h]
  BY <1>3 DEF Get, Forward, Hands
<1>5. SessionOK'
  BY <1>4 DEF AgeInv, SessionOK, Get
<1> QED BY <1>1, <1>2, <1>5 DEF AgeInv

\* The reply of MySQL carries the version of now.
LEMMA ExecutePreserves ==
  ASSUME AgeInv, NEW s \in Sessions, Execute(s)
  PROVE  AgeInv'
<1>1. EntryOK' /\ AgesOK' /\ StaleWithinBounds'
  BY AgesStay DEF Execute, jobVars
<1>2. QueueOK'
  BY DEF AgeInv, QueueOK, Execute, jobVars
<1>3. cur[s].key \in Keys /\ cur[s].dur \in Rules \cup {Unmarked}
  BY DEF AgeInv, SessionOK, Hands, Idle, Execute
<1>4. data[cur[s].key] \in Versions
  BY <1>3 DEF AgeInv, AgesOK
<1> DEFINE reply == IF ~Marked(s) THEN NoReply
                    ELSE [key |-> cur[s].key, v |-> data[cur[s].key],
                          dur |-> cur[s].dur]
<1>5. reply \in Replies \cup {NoReply}
  BY <1>3, <1>4 DEF Marked, Replies
<1>6. cur' = [cur EXCEPT ![s] =
                [pc |-> "reply", key |-> cur[s].key, reply |-> reply]]
  BY DEF Execute
<1> HIDE DEF reply
<1>7. SessionOK'
  BY <1>3, <1>5, <1>6 DEF AgeInv, SessionOK, Hands, Execute
<1> QED BY <1>1, <1>2, <1>7 DEF AgeInv

\* A reply that comes sends the one before it to the cache job.
LEMMA FlushPreserves ==
  ASSUME AgeInv, NEW s \in Sessions, Flush(s)
  PROVE  AgeInv'
<1>1. UNCHANGED redis
  BY DEF Flush, SendTask, jobVars
<1>2. EntryOK' /\ AgesOK' /\ StaleWithinBounds'
  BY <1>1, AgesStay DEF Flush
<1>3. kept[s] # NoReply => kept[s] \in Replies
  BY DEF AgeInv, SessionOK
<1>4. QueueOK'
  <2>1. CASE kept[s] = NoReply
    BY <2>1 DEF AgeInv, QueueOK, Flush, jobVars
  <2>2. CASE kept[s] # NoReply
    <3>1. tasks' = Append(tasks, Task(kept[s]))
      BY <2>2 DEF Flush, SendTask
    <3>2. Task(kept[s]) \in {Task(r) : r \in Replies}
      BY <1>3, <2>2
    <3> QED BY <3>1, <3>2 DEF AgeInv, QueueOK
  <2> QED BY <2>1, <2>2
<1>5. cur[s].reply \in Replies \cup {NoReply}
  BY DEF AgeInv, SessionOK, Hands, Idle, Flush
<1>6. SessionOK'
  BY <1>5 DEF AgeInv, SessionOK, Hands, Flush
<1> QED BY <1>2, <1>4, <1>6 DEF AgeInv

\* A session that ends loses the reply it kept.
LEMMA LeavePreserves ==
  ASSUME AgeInv, NEW s \in Sessions, Leave(s)
  PROVE  AgeInv'
<1>1. EntryOK' /\ AgesOK' /\ StaleWithinBounds'
  BY AgesStay DEF Leave, jobVars
<1>2. QueueOK' /\ SessionOK'
  BY DEF AgeInv, QueueOK, SessionOK, Leave, jobVars
<1> QED BY <1>1, <1>2 DEF AgeInv
-----------------------------------------------------------------------------
(***************************************************************************)
(* Steps that age, replace or drop an entry.                               *)
(***************************************************************************)
\* The new entry is as late as its version is old, with its whole lifetime left.
LEMMA StorePreserves ==
  ASSUME AgeInv, Store
  PROVE  AgeInv'
<1>1. tasks # <<>> /\ tasks' = Tail(tasks)
  BY DEF Store, CacheTaskJob
<1>2. QueueOK'
  BY <1>1, TaskCarriesReply DEF AgeInv, QueueOK
<1>3. PICK r \in Replies : Head(tasks) = Task(r)
  BY <1>1, TaskCarriesReply DEF AgeInv
<1>4. /\ Head(tasks).key = r.key
      /\ Head(tasks).body = <<r>>
      /\ Head(tasks).duration = r.dur
  BY <1>3 DEF Task
<1>5. r.key \in Keys /\ r.v \in Versions /\ r.dur \in Rules
  BY ReplyFields
<1>6. SessionOK'
  BY DEF AgeInv, SessionOK, Store, sessionState
<1>7. CASE redis' = redis /\ UNCHANGED entries
  BY <1>2, <1>6, <1>7, AgesStay DEF AgeInv, Store
<1>8. CASE /\ redis' = [redis EXCEPT ![r.key] = <<r>>]
           /\ left' = [left EXCEPT ![r.key] = Lifetime(r.dur)]
           /\ late' = [late EXCEPT ![r.key] = gone[r.key][r.v]]
  <2>1. UNCHANGED <<data, gone>>
    BY DEF Store, world
  <2>2. gone[r.key][r.v] \in 0 .. Cap /\ Lifetime(r.dur) \in Nat
    BY <1>5, LifetimeIsNat DEF AgeInv, AgesOK
  <2>3. EntryOK'
    BY <1>5, <1>8 DEF AgeInv, EntryOK
  <2>4. AgesOK'
    BY <1>5, <1>8, <2>1, <2>2 DEF AgeInv, AgesOK
  <2>5. ASSUME NEW k \in Keys, redis'[k] # <<>>
        PROVE  gone'[k][Entry(k)'.v] + left'[k] <= late'[k] + Lifetime(Entry(k)'.dur)
    <3>1. CASE k = r.key
      <4>1. redis'[k] = <<r>> /\ left'[k] = Lifetime(r.dur) /\ late'[k] = gone[r.key][r.v]
        BY <1>5, <1>8, <3>1 DEF AgeInv, EntryOK, AgesOK
      <4>2. Entry(k)' = r
        BY <4>1 DEF Entry
      <4> QED BY <2>1, <2>2, <3>1, <4>1, <4>2, AgeAssumption
    <3>2. CASE k # r.key
      <4>1. redis'[k] = redis[k] /\ left'[k] = left[k] /\ late'[k] = late[k]
        BY <1>8, <3>2 DEF AgeInv, EntryOK, AgesOK
      <4>2. Entry(k)' = Entry(k)
        BY <4>1 DEF Entry
      <4> QED BY <2>1, <2>5, <4>1, <4>2 DEF AgeInv, StaleWithinBounds
    <3> QED BY <3>1, <3>2
  <2>6. StaleWithinBounds'
    BY <2>5 DEF StaleWithinBounds
  <2> QED BY <1>2, <1>6, <2>3, <2>4, <2>6 DEF AgeInv
<1> QED
  <2>1. \/ redis' = redis /\ UNCHANGED entries
        \/ /\ redis'[r.key] = <<r>>
           /\ left' = [left EXCEPT ![r.key] = Lifetime(r.dur)]
           /\ late' = [late EXCEPT ![r.key] = gone[r.key][r.v]]
    BY <1>4 DEF Store
  <2>2. redis' = [redis EXCEPT ![r.key] = <<r>>] \/ redis' = redis
    BY <1>4 DEF Store, CacheTaskJob
  <2>3. redis' = redis /\ redis'[r.key] = <<r>>
          => redis' = [redis EXCEPT ![r.key] = <<r>>]
    BY <1>5 DEF AgeInv, EntryOK
  <2> QED BY <1>7, <1>8, <2>1, <2>2, <2>3

\* An entry that expires is bound to nothing.
LEMMA ExpirePreserves ==
  ASSUME AgeInv, NEW k \in Keys, Expire(k)
  PROVE  AgeInv'
<1>1. redis' = [redis EXCEPT ![k] = <<>>] /\ UNCHANGED <<tasks, gone, left, data>>
  BY DEF Expire, RedisExpire, world
<1>2. QueueOK' /\ SessionOK'
  BY <1>1 DEF AgeInv, QueueOK, SessionOK, Expire, sessionState
<1>3. late' = [late EXCEPT ![k] = 0] /\ 0 \in 0 .. Cap
  BY AgeAssumption DEF Expire
<1>4. EntryOK' /\ AgesOK'
  BY <1>1, <1>3 DEF AgeInv, EntryOK, AgesOK
<1>5. ASSUME NEW l \in Keys, redis'[l] # <<>>
      PROVE  gone'[l][Entry(l)'.v] + left'[l] <= late'[l] + Lifetime(Entry(l)'.dur)
  <2>1. l # k /\ redis'[l] = redis[l] /\ late'[l] = late[l]
    BY <1>1, <1>3, <1>5 DEF AgeInv, EntryOK, AgesOK
  <2>2. Entry(l)' = Entry(l)
    BY <2>1 DEF Entry
  <2> QED BY <1>1, <1>5, <2>1, <2>2 DEF AgeInv, StaleWithinBounds
<1>6. StaleWithinBounds'
  BY <1>5 DEF StaleWithinBounds
<1> QED BY <1>2, <1>4, <1>6 DEF AgeInv

\* A change makes the versions before it age, from the next tick on.
LEMMA ChangePreserves ==
  ASSUME AgeInv, NEW k \in Keys, Change(k)
  PROVE  AgeInv'
<1>1. UNCHANGED <<tasks, redis, gone, left, late, cur, kept>>
  BY DEF Change, jobVars, entries, sessionState
<1>2. QueueOK' /\ SessionOK' /\ EntryOK'
  BY <1>1 DEF AgeInv, QueueOK, SessionOK, EntryOK
<1>3. data[k] + 1 \in Versions
  BY AgeAssumption DEF AgeInv, AgesOK, Change, Versions
<1>4. data' = [data EXCEPT ![k] = data[k] + 1]
  BY DEF Change
<1>5. AgesOK'
  BY <1>1, <1>3, <1>4 DEF AgeInv, AgesOK
<1>6. StaleWithinBounds'
  BY <1>1 DEF AgeInv, StaleWithinBounds, Entry
<1> QED BY <1>2, <1>5, <1>6 DEF AgeInv

\* A tick adds at most one to the age of a version, and takes one from what is left.
LEMMA TickPreserves ==
  ASSUME AgeInv, Tick
  PROVE  AgeInv'
<1>1. UNCHANGED <<tasks, redis, data, late, cur, kept>>
  BY DEF Tick, jobVars, sessionState
<1>2. QueueOK' /\ SessionOK' /\ EntryOK'
  BY <1>1 DEF AgeInv, QueueOK, SessionOK, EntryOK
<1>3. ASSUME NEW k \in Keys
      PROVE  /\ left'[k] \in Nat
             /\ \A v \in Versions : /\ gone'[k][v] \in 0 .. Cap
                                    /\ gone'[k][v] <= gone[k][v] + 1
             /\ left[k] > 0 => left'[k] = left[k] - 1
  <2>1. left[k] \in Nat /\ \A v \in Versions : gone[k][v] \in 0 .. Cap
    BY DEF AgeInv, AgesOK
  <2>2. /\ left'[k] = Less(left[k])
        /\ \A v \in Versions : gone'[k][v] \in {More(gone[k][v]), gone[k][v]}
    BY DEF Tick
  <2> QED BY <2>1, <2>2, AgeAssumption DEF Less, More
<1>4. AgesOK'
  <2>1. gone' \in [Keys -> [Versions -> 0 .. Cap]]
    <3>1. \A k \in Keys : gone'[k] \in [Versions -> 0 .. Cap]
      BY <1>3 DEF Tick
    <3> QED BY <3>1 DEF Tick
  <2>2. left' \in [Keys -> Nat]
    BY <1>3 DEF Tick
  <2> QED BY <1>1, <2>1, <2>2 DEF AgeInv, AgesOK
<1>5. ASSUME NEW k \in Keys, redis'[k] # <<>>
      PROVE  gone'[k][Entry(k)'.v] + left'[k] <= late'[k] + Lifetime(Entry(k)'.dur)
  <2>1. redis[k] # <<>> /\ Entry(k)' = Entry(k) /\ late'[k] = late[k]
    BY <1>1, <1>5 DEF Entry
  <2>2. Entry(k).v \in Versions /\ Entry(k).dur \in Rules
    BY <2>1, EntryIsReply, ReplyFields DEF AgeInv
  <2>3. left'[k] = left[k] - 1 /\ gone'[k][Entry(k).v] <= gone[k][Entry(k).v] + 1
    BY <1>3, <2>1, <2>2 DEF Tick
  <2>4. gone[k][Entry(k).v] + left[k] <= late[k] + Lifetime(Entry(k).dur)
    BY <2>1 DEF AgeInv, StaleWithinBounds
  <2>5. /\ gone[k][Entry(k).v] \in Nat /\ gone'[k][Entry(k).v] \in Nat
        /\ left[k] \in Nat /\ late[k] \in Nat /\ Lifetime(Entry(k).dur) \in Nat
    BY <1>3, <2>2, LifetimeIsNat DEF AgeInv, AgesOK
  <2>6. gone'[k][Entry(k).v] + left'[k] <= late'[k] + Lifetime(Entry(k).dur)
    <3> DEFINE life == Lifetime(Entry(k).dur)
               age == gone[k][Entry(k).v]
               older == gone'[k][Entry(k).v]
               ttl == left[k]
               past == late[k]
    <3>1. /\ age \in Nat /\ older \in Nat /\ ttl \in Nat /\ past \in Nat /\ life \in Nat
          /\ age + ttl <= past + life /\ older <= age + 1
      BY <2>3, <2>4, <2>5
    <3>2. left'[k] = ttl - 1 /\ late'[k] = past
      BY <2>1, <2>3
    <3> HIDE DEF life, age, older, ttl, past
    <3>3. older + (ttl - 1) <= past + life
      BY <3>1
    <3> QED BY <3>2, <3>3 DEF life, older
  <2> QED BY <2>1, <2>6
<1>6. StaleWithinBounds'
  BY <1>5 DEF StaleWithinBounds
<1> QED BY <1>2, <1>4, <1>6 DEF AgeInv
-----------------------------------------------------------------------------
(***************************************************************************)
(* The theorems.                                                           *)
(***************************************************************************)
LEMMA InitEstablishes == Init => AgeInv
<1> SUFFICES ASSUME Init PROVE AgeInv
  OBVIOUS
<1>1. SessionOK /\ QueueOK /\ EntryOK /\ StaleWithinBounds
  BY DEF Init, AssistantInit, SessionOK, QueueOK, EntryOK, StaleWithinBounds, Hands
<1>2. 0 \in Versions /\ 0 \in 0 .. Cap
  BY AgeAssumption DEF Versions
<1>3. AgesOK
  BY <1>2 DEF Init, AgesOK
<1> QED BY <1>1, <1>3 DEF AgeInv

LEMMA NextPreserves == AgeInv /\ [Next]_vars => AgeInv'
<1> SUFFICES ASSUME AgeInv, [Next]_vars PROVE AgeInv'
  OBVIOUS
<1>1. ASSUME NEW s \in Sessions, Session(s) PROVE AgeInv'
  BY <1>1, LookPreserves, GetPreserves, ExecutePreserves, FlushPreserves,
     LeavePreserves DEF Session
<1>2. ASSUME NEW k \in Keys, Expire(k) \/ Change(k) PROVE AgeInv'
  BY <1>2, ExpirePreserves, ChangePreserves
<1>3. CASE Store
  BY <1>3, StorePreserves
<1>4. CASE Tick
  BY <1>4, TickPreserves
<1>5. CASE UNCHANGED vars
  BY <1>5, AgesStay DEF vars, jobVars, sessionState, AgeInv, SessionOK, QueueOK
<1> QED BY <1>1, <1>2, <1>3, <1>4, <1>5 DEF Next

\* Every variable has its type, and a reply is kept, queued and stored under its own
\* key, so that no request is answered with the reply of another one.
THEOREM AgeTypes == Spec => []TypeOK
<1>1. Spec => []AgeInv
  BY InitEstablishes, NextPreserves, PTL DEF Spec
<1>2. ASSUME AgeInv PROVE TypeOK
  <2>1. \A s \in Sessions : cur[s].pc \in {"idle", "get", "forward", "reply"}
    BY <1>2 DEF AgeInv, SessionOK, Hands, Idle
  <2>2. \A i \in DOMAIN tasks : tasks[i] \in {Task(r) : r \in Replies}
    BY <1>2 DEF AgeInv, QueueOK
  <2> QED BY <1>2, <2>1, <2>2, EntryIsReply DEF AgeInv, SessionOK, AgesOK, TypeOK
<1> QED BY <1>1, <1>2, PTL

\* Whatever the rules, the sessions and the order of their steps, a version of the
\* data that was replaced is served from the cache for no longer than it was stale
\* when it was stored, and its lifetime: hits do not prolong it
\* (serve/mod.rs:178-192, sys_assistant_client.rs:171-180).
THEOREM StaleIsBounded == Spec => []StaleWithinBounds
<1>1. Spec => []AgeInv
  BY InitEstablishes, NextPreserves, PTL DEF Spec
<1>2. AgeInv => StaleWithinBounds
  BY DEF AgeInv
<1> QED BY <1>1, <1>2, PTL
=============================================================================
