---------------------------- MODULE ServiceProofs ----------------------------
(***************************************************************************)
(* Proofs about clients that wait for each answer: FlushedReplyIsWhole,    *)
(* CacheHoldsWholeReplies, ProcessSurvives, and that the sessions          *)
(* implement QueryService, for any number of them and any commands, rules, *)
(* and sizes of replies and of queues.                                     *)
(*                                                                         *)
(* The one request of a connection that is not answered yet, and then its  *)
(* answer, is at one of the stations below, and the proofs follow it from  *)
(* each of them to the next.                                               *)
(***************************************************************************)
EXTENDS RecordProofs

\* The client waits for each answer and sends commands of one read, all of a type
\* packet_type() knows and all but COM_QUIT answered; a rule matches neither the
\* login nor COM_QUIT.
OneAtATime ==
  /\ Window = 1 /\ Mute = {}
  /\ \A s \in Stmts : Len(Frames[s]) = 1 /\ Frames[s][1] # "Invalid"
  /\ Login \notin Cacheable \cup Quits
  /\ Cacheable \cap Quits = {}

\* The last request of c, and its packet.
Last1(c) == Len(reqs[c])
Packet1(n) == <<[n |-> n, i |-> 1]>>

Quitting(c) == Last1(c) # 0 /\ reqs[c][Last1(c)] \in Quits

\* What cached_buf holds when all of the reply to request n has come.
Buffer(c, n) == IF n = 1 THEN Reply(c, 0) \o Reply(c, 1) ELSE Reply(c, n)

\* The request whose context r2c has; 0 stands for the greeting.
Replied(c) == cachedCtx[c].n

\* remote_to_client waits for bytes, and all it had have been passed on.
Resting(c) ==
  /\ r2c[c] = "read" /\ data[c] = <<>> /\ fromRemote[c] = <<>>
  /\ cachedBuf[c] = Buffer(c, Replied(c))
  /\ Replied(c) = 0 => Last1(c) <= 1

\* No bytes in any buffer of client_to_remote.
Free(c) == c2r[c] \in {"read", "log"} /\ toRemote[c] = <<>> /\ chan[c] = <<>> /\ hit[c] = <<>>
-----------------------------------------------------------------------------
(***************************************************************************)
(* The stations of the request that is not answered yet ...                *)
(***************************************************************************)
\* There is no session.
Unborn(c) ==
  /\ conn[c] # "open" /\ reqs[c] = <<>> /\ answered[c] = 0 /\ executed[c] = {}
  /\ toProxy[c] = <<>> /\ rbuf[c] = <<>> /\ Free(c) /\ c2r[c] = "read"
  /\ r2c[c] = "read" /\ data[c] = <<>> /\ fromRemote[c] = <<>>
  /\ inbox[c] = <<>> /\ toClient[c] = <<>>
  /\ cachedBuf[c] = <<>> /\ cachedCtx[c] = NoCtx

\* On its way to the proxy.
Asked(c) == Free(c) /\ Resting(c) /\ toProxy[c] = Packet1(Last1(c)) /\ Last1(c) \notin executed[c]

\* In the hands of handle_request.
Held(c) ==
  /\ c2r[c] \in {"lock", "exists", "get", "send", "reply"}
  /\ rbuf[c] = Packet1(Last1(c)) /\ ctx[c].n = Last1(c)
  /\ c2r[c] \in {"exists", "get", "reply"} => ctx[c].sql \in Cacheable
  /\ (c2r[c] = "reply") <=> (hit[c] # <<>>)
  /\ toRemote[c] = <<>> /\ chan[c] = <<>> /\ toProxy[c] = <<>>
  /\ Resting(c) /\ Last1(c) \notin executed[c]

\* Its context is in the channel, its packet not sent yet, or sent, or read by MySQL.
InChannel(c) == Len(chan[c]) = 1 /\ chan[c][1].n = Last1(c) /\ toProxy[c] = <<>> /\ hit[c] = <<>>

Passed(c) ==
  /\ c2r[c] = "write" /\ rbuf[c] = Packet1(Last1(c)) /\ toRemote[c] = <<>>
  /\ InChannel(c) /\ Resting(c) /\ Last1(c) \notin executed[c]

AtMySQL(c) ==
  /\ c2r[c] = "read" /\ toRemote[c] = Packet1(Last1(c))
  /\ InChannel(c) /\ Resting(c) /\ Last1(c) \notin executed[c]

\* ... and of its answer.
Made(c) ==
  /\ c2r[c] = "read" /\ toRemote[c] = <<>> /\ InChannel(c)
  /\ Last1(c) \in executed[c] /\ ~Quitting(c)
  /\ r2c[c] = "read" /\ data[c] = <<>> /\ fromRemote[c] = Reply(c, Last1(c))
  /\ cachedBuf[c] = Buffer(c, Replied(c))
  /\ Replied(c) # Last1(c) /\ (Replied(c) = 0 => Last1(c) <= 1)

\* Its first part has come, and the context before it is being flushed.
FlushesLast(c) ==
  /\ c2r[c] = "read" /\ Free(c) /\ toProxy[c] = <<>>
  /\ Last1(c) \in executed[c] /\ ~Quitting(c)
  /\ Flushing(c) /\ newCtx[c].n = Last1(c) /\ Replied(c) \in 1 .. Last1(c) - 1
  /\ cachedBuf[c] = Buffer(c, Replied(c))
  /\ data[c] # <<>> /\ data[c] \o fromRemote[c] = Reply(c, Last1(c))

\* It is passed on: cached_buf and what is still to come make up all of it.
Returning(c) ==
  /\ c2r[c] = "read" /\ Free(c) /\ toProxy[c] = <<>>
  /\ Last1(c) = 0 \/ Last1(c) \in executed[c]
  /\ ~Quitting(c)
  /\ Replied(c) = Last1(c)
  /\ cachedBuf[c] \o fromRemote[c] = Buffer(c, Last1(c))
  /\ \/ r2c[c] = "read" /\ data[c] = <<>> /\ fromRemote[c] # <<>>
     \/ r2c[c] \in {"respond", "write"} /\ data[c] # <<>>

\* No request is open: the last one has its answer, or was COM_QUIT, read by MySQL.
Served(c) ==
  /\ Free(c) /\ Resting(c) /\ toProxy[c] = <<>>
  /\ Replied(c) = 0 => Last1(c) = 0

Left(c) ==
  /\ c2r[c] = "read" /\ toRemote[c] = <<>> /\ InChannel(c) /\ Resting(c)
  /\ Quitting(c)

StationAt(c) ==
  \/ Unborn(c) \/ Asked(c) \/ Held(c) \/ Passed(c) \/ AtMySQL(c) \/ Made(c)
  \/ FlushesLast(c) \/ Returning(c) \/ Served(c) \/ Left(c)
-----------------------------------------------------------------------------
(***************************************************************************)
(* What holds at all of them.                                              *)
(***************************************************************************)
\* x is the context of a request of c.
CtxOf(c, x) == x.n \in DOMAIN reqs[c] /\ x.sql = reqs[c][x.n]

TidyAt(c) ==
  /\ conn[c] = "new" => Unborn(c)
  /\ reqs[c] # <<>> => reqs[c][1] = Login
  /\ \A n \in DOMAIN reqs[c] : reqs[c][n] \in Quits => n = Last1(c)
  /\ executed[c] \subseteq DOMAIN reqs[c]
  /\ c2r[c] = "read" => rbuf[c] = <<>>
  /\ c2r[c] \in {"lock", "exists", "get", "send", "reply"} => CtxOf(c, ctx[c])
  /\ \A i \in DOMAIN chan[c] : CtxOf(c, chan[c][i])
  /\ Flushing(c) => CtxOf(c, newCtx[c])
  /\ cachedCtx[c] = NoCtx \/ (CtxOf(c, cachedCtx[c]) /\ Replied(c) \in executed[c])

\* A client that is there, or has left without leaving an answer behind, has what it
\* is still owed on its way.
Present(c) == clientUp[c] \/ "reset" \notin Faults

IsAnswer(parts) == \E d \in Conns : \E n \in {0} \cup DOMAIN reqs[d] : parts = Reply(d, n)

Waiting(c) ==
  \/ conn[c] = "new"
  \/ /\ Asked(c) \/ (Held(c) /\ c2r[c] # "reply") \/ Passed(c) \/ AtMySQL(c)
     /\ ~Quitting(c)

OwedAt(c) ==
  Present(c) =>
    /\ Outstanding(c) \in {0, 1}
    /\ Coming(c) = <<>> \/ IsAnswer(Coming(c))
    /\ Outstanding(c) = 0 => Coming(c) = <<>>
    /\ Waiting(c) => Outstanding(c) = 1 /\ Coming(c) = <<>>
    /\ Quitting(c) \/ ~clientUp[c] => Outstanding(c) = 0

\* What is stored, and what is queued to be stored.
RedisWhole == \A k \in Keys : redis[k] # <<>> => IsReplyFor(redis[k], k)

Kept(task) ==
  \E c \in Conns : \E n \in executed[c] :
    /\ n < Len(reqs[c]) /\ reqs[c][n] \in Cacheable
    /\ task.key = StoreKey[reqs[c][n]] /\ task.body = Reply(c, n)

TasksWhole == \A i \in DOMAIN tasks : Kept(tasks[i])

Orderly ==
  /\ RedisWhole /\ TasksWhole
  /\ \A c \in Conns : StationAt(c) /\ TidyAt(c) /\ OwedAt(c)

\* The state of connection d that the parts of Orderly speak of.
ServiceState(d) == <<FlowState(d), conn[d], clientUp[d], answered[d], inbox[d], hit[d],
                     cachedBuf[d], toClient[d]>>
-----------------------------------------------------------------------------
(***************************************************************************)
(* What a step keeps.                                                      *)
(***************************************************************************)
LEMMA StateParts ==
  ASSUME NEW d, ServiceState(d)' = ServiceState(d)
  PROVE  /\ UNCHANGED <<reqs[d], toProxy[d], rbuf[d], toRemote[d], executed[d], fromRemote[d],
                        data[d], c2r[d], ctx[d], chan[d], r2c[d], cachedCtx[d], newCtx[d]>>
         /\ UNCHANGED <<conn[d], clientUp[d], answered[d], inbox[d], hit[d], cachedBuf[d],
                        toClient[d]>>
BY DEF ServiceState, FlowState

LEMMA Functions1 ==
  ASSUME IInv
  PROVE  /\ conn = [d \in Conns |-> conn[d]] /\ clientUp = [d \in Conns |-> clientUp[d]]
         /\ remoteUp = [d \in Conns |-> remoteUp[d]]
         /\ answered = [d \in Conns |-> answered[d]] /\ inbox = [d \in Conns |-> inbox[d]]
         /\ hit = [d \in Conns |-> hit[d]] /\ cachedBuf = [d \in Conns |-> cachedBuf[d]]
         /\ toClient = [d \in Conns |-> toClient[d]]
         /\ handler = [d \in Conns |-> handler[d]]
BY DEF IInv, TypeOK, SessionTypeOK

LEMMA Types1 ==
  ASSUME IInv, NEW c \in Conns
  PROVE  /\ reqs[c] \in Seq(Stmts) /\ executed[c] \subseteq Nat /\ answered[c] \in Nat
         /\ toProxy[c] \in Seq(Units) /\ rbuf[c] \in Seq(Units) /\ toRemote[c] \in Seq(Units)
         /\ inbox[c] \in Seq(PartSet) /\ toClient[c] \in Seq(PartSet)
         /\ hit[c] \in Seq(PartSet) /\ data[c] \in Seq(PartSet)
         /\ fromRemote[c] \in Seq(PartSet) /\ cachedBuf[c] \in Seq(PartSet)
         /\ chan[c] \in Seq(Ctxs) /\ Len(chan[c]) <= 1 /\ clientUp[c] \in BOOLEAN
         /\ ctx[c] \in Ctxs /\ newCtx[c] \in Ctxs /\ cachedCtx[c] \in Ctxs
         /\ Len(reqs[c]) \in Nat /\ DOMAIN reqs[c] = 1 .. Len(reqs[c])
BY DEF IInv, TypeOK, SessionTypeOK

\* A reply is the same as long as the requests are, and when others are added.
LEMMA ReplySame ==
  ASSUME NEW d, UNCHANGED reqs[d]
  PROVE  \A n : Reply(d, n)' = Reply(d, n) /\ Buffer(d, n)' = Buffer(d, n)
<1>1. \A n : Reply(d, n)' = Reply(d, n)
  BY DEF Reply
<1> QED BY <1>1 DEF Buffer

Grows(d) == \A n \in DOMAIN reqs[d] : n \in DOMAIN reqs'[d] /\ reqs'[d][n] = reqs[d][n]

LEMMA ReplyStays ==
  ASSUME NEW d, Grows(d), NEW n \in {0} \cup DOMAIN reqs[d]
  PROVE  Reply(d, n)' = Reply(d, n)
BY DEF Reply, Grows

LEMMA AnswerStays ==
  ASSUME \A d \in Conns : Grows(d), NEW parts, IsAnswer(parts)
  PROVE  IsAnswer(parts)'
<1>1. PICK d \in Conns : \E n \in {0} \cup DOMAIN reqs[d] : parts = Reply(d, n)
  BY DEF IsAnswer
<1>2. PICK n \in {0} \cup DOMAIN reqs[d] : parts = Reply(d, n)
  BY <1>1
<1>3. parts = Reply(d, n)' /\ n \in {0} \cup DOMAIN reqs'[d]
  BY <1>2, ReplyStays DEF Grows
<1> QED BY <1>3 DEF IsAnswer

\* The stations are the places of the bytes and contexts.
LEMMA PlacesSame ==
  ASSUME NEW d \in Conns, FlowState(d)' = FlowState(d),
         UNCHANGED <<hit[d], cachedBuf[d]>>
  PROVE  /\ Asked(d)' = Asked(d) /\ Held(d)' = Held(d) /\ Passed(d)' = Passed(d)
         /\ AtMySQL(d)' = AtMySQL(d) /\ Made(d)' = Made(d) /\ Left(d)' = Left(d)
         /\ FlushesLast(d)' = FlushesLast(d) /\ Returning(d)' = Returning(d)
         /\ Served(d)' = Served(d) /\ Quitting(d)' = Quitting(d)
<1>1. UNCHANGED <<reqs[d], toProxy[d], rbuf[d], toRemote[d], executed[d], fromRemote[d],
                  data[d], c2r[d], ctx[d], chan[d], r2c[d], cachedCtx[d], newCtx[d]>>
  BY DEF FlowState
<1>2. \A n : Reply(d, n)' = Reply(d, n) /\ Buffer(d, n)' = Buffer(d, n)
  BY <1>1, ReplySame
<1>3. Last1(d)' = Last1(d) /\ Replied(d)' = Replied(d) /\ Quitting(d)' = Quitting(d)
  BY <1>1 DEF Last1, Replied, Quitting
<1>4. Free(d)' = Free(d) /\ Resting(d)' = Resting(d) /\ InChannel(d)' = InChannel(d)
  BY <1>1, <1>2, <1>3 DEF Free, Resting, InChannel
<1>5. /\ Asked(d)' = Asked(d) /\ Held(d)' = Held(d) /\ Passed(d)' = Passed(d)
      /\ AtMySQL(d)' = AtMySQL(d)
  BY <1>1, <1>3, <1>4 DEF Asked, Held, Passed, AtMySQL
<1>6. Made(d)' = Made(d) /\ FlushesLast(d)' = FlushesLast(d)
  BY <1>1, <1>2, <1>3, <1>4 DEF Made, FlushesLast, Flushing
<1>7. Returning(d)' = Returning(d) /\ Served(d)' = Served(d) /\ Left(d)' = Left(d)
  BY <1>1, <1>2, <1>3, <1>4 DEF Returning, Served, Left
<1> QED BY <1>3, <1>5, <1>6, <1>7

\* A connection of which nothing changes stays at its station.
LEMMA StationStays ==
  ASSUME NEW d \in Conns, ServiceState(d)' = ServiceState(d)
  PROVE  /\ StationAt(d)' = StationAt(d) /\ TidyAt(d)' = TidyAt(d)
         /\ Waiting(d)' = Waiting(d) /\ Quitting(d)' = Quitting(d)
         /\ Coming(d)' = Coming(d) /\ Outstanding(d)' = Outstanding(d)
<1> USE StateParts
<1>1. /\ Asked(d)' = Asked(d) /\ Held(d)' = Held(d) /\ Passed(d)' = Passed(d)
      /\ AtMySQL(d)' = AtMySQL(d) /\ Made(d)' = Made(d) /\ Left(d)' = Left(d)
      /\ FlushesLast(d)' = FlushesLast(d) /\ Returning(d)' = Returning(d)
      /\ Served(d)' = Served(d) /\ Quitting(d)' = Quitting(d)
  BY PlacesSame DEF ServiceState
<1>2. Unborn(d)' = Unborn(d)
  BY DEF Unborn, Free
<1>3. StationAt(d)' = StationAt(d) /\ Waiting(d)' = Waiting(d)
  BY <1>1, <1>2 DEF StationAt, Waiting
<1>4. TidyAt(d)' = TidyAt(d)
  BY <1>1, <1>2 DEF TidyAt, CtxOf, Flushing, Last1, Replied
<1>5. Coming(d)' = Coming(d) /\ Outstanding(d)' = Outstanding(d)
  BY DEF Coming, Outstanding, Awaited
<1> QED BY <1>1, <1>3, <1>4, <1>5

\* What is owed to a client stays owed, as long as it waits no more than before.
LEMMA OwedStays ==
  ASSUME NEW c \in Conns, OwedAt(c), \A d \in Conns : Grows(d), UNCHANGED clientUp[c],
         Outstanding(c)' = Outstanding(c), Present(c) => Coming(c)' = Coming(c),
         Quitting(c)' => Quitting(c), Waiting(c)' => Waiting(c)
  PROVE  OwedAt(c)'
<1> SUFFICES ASSUME Present(c)' PROVE OwedAt(c)'
  BY DEF OwedAt
<1>1. Present(c)
  BY DEF Present
<1>2. IsAnswer(Coming(c)) => IsAnswer(Coming(c))'
  BY <1>1, AnswerStays DEF IsAnswer
<1> QED BY <1>1, <1>2 DEF OwedAt

\* A step of connection c.
LEMMA OrderlyNext ==
  ASSUME Orderly, NEW c \in Conns, RedisWhole', TasksWhole', \A d \in Conns : Grows(d),
         \A d \in Conns \ {c} : ServiceState(d)' = ServiceState(d),
         StationAt(c)', TidyAt(c)', OwedAt(c)'
  PROVE  Orderly'
<1> SUFFICES ASSUME NEW d \in Conns, d # c
             PROVE  StationAt(d)' /\ TidyAt(d)' /\ OwedAt(d)'
  BY DEF Orderly
<1>1. StationAt(d) /\ TidyAt(d) /\ OwedAt(d)
  BY DEF Orderly
<1>2. /\ StationAt(d)' = StationAt(d) /\ TidyAt(d)' = TidyAt(d)
      /\ Waiting(d)' = Waiting(d) /\ Quitting(d)' = Quitting(d)
      /\ Coming(d)' = Coming(d) /\ Outstanding(d)' = Outstanding(d)
  BY StationStays
<1>3. UNCHANGED clientUp[d]
  BY StateParts
<1>4. OwedAt(d)'
  BY <1>1, <1>2, <1>3, OwedStays
<1> QED BY <1>1, <1>2, <1>4

\* What is stored stays whole, and what is queued to be stored.
LEMMA KeptStays ==
  ASSUME IInv, IInv', \A d \in Conns : TidyAt(d),
         \A d \in Conns : Grows(d) /\ executed[d] \subseteq executed'[d]
  PROVE  /\ \A k \in Keys : \A parts : IsReplyFor(parts, k) => IsReplyFor(parts, k)'
         /\ \A task : Kept(task) => Kept(task)'
<1>1. ASSUME NEW k \in Keys, NEW parts, IsReplyFor(parts, k) PROVE IsReplyFor(parts, k)'
  <2>1. PICK d \in Conns : \E n \in DOMAIN reqs[d] :
               parts = Reply(d, n) /\ StoreKey[reqs[d][n]] = k
    BY <1>1 DEF IsReplyFor
  <2>2. PICK n \in DOMAIN reqs[d] : parts = Reply(d, n) /\ StoreKey[reqs[d][n]] = k
    BY <2>1
  <2>3. n \in DOMAIN reqs'[d] /\ parts = Reply(d, n)' /\ StoreKey[reqs'[d][n]] = k
    BY <2>2, ReplyStays DEF Grows
  <2> QED BY <2>3 DEF IsReplyFor
<1>2. ASSUME NEW task, Kept(task) PROVE Kept(task)'
  <2>1. PICK d \in Conns : \E n \in executed[d] :
               /\ n < Len(reqs[d]) /\ reqs[d][n] \in Cacheable
               /\ task.key = StoreKey[reqs[d][n]] /\ task.body = Reply(d, n)
    BY <1>2 DEF Kept
  <2>2. PICK n \in executed[d] :
               /\ n < Len(reqs[d]) /\ reqs[d][n] \in Cacheable
               /\ task.key = StoreKey[reqs[d][n]] /\ task.body = Reply(d, n)
    BY <2>1
  <2>3. n \in DOMAIN reqs[d] /\ Grows(d) /\ n \in executed'[d]
    BY DEF TidyAt
  <2>4. Len(reqs[d]) \in DOMAIN reqs'[d]
    <3>1. n \in Nat /\ Len(reqs[d]) \in Nat /\ DOMAIN reqs[d] = 1 .. Len(reqs[d])
      BY <2>3, Types1
    <3> QED BY <3>1, <2>2, <2>3 DEF Grows
  <2>5. Len(reqs[d]) <= Len(reqs'[d]) /\ Len(reqs[d]) \in Nat /\ Len(reqs'[d]) \in Nat /\ n \in Nat
    <3>1. reqs'[d] \in Seq(Stmts) /\ reqs[d] \in Seq(Stmts)
      BY DEF IInv, TypeOK, SessionTypeOK
    <3>2. DOMAIN reqs'[d] = 1 .. Len(reqs'[d]) /\ Len(reqs'[d]) \in Nat
      BY <3>1, LenProperties
    <3> QED BY <3>2, <2>4, <2>3, Types1
  <2>6. n < Len(reqs'[d])
    BY <2>2, <2>5
  <2>7. reqs'[d][n] = reqs[d][n] /\ task.body = Reply(d, n)'
    BY <2>2, <2>3, ReplyStays DEF Grows
  <2> QED BY <2>2, <2>3, <2>6, <2>7 DEF Kept
<1> QED BY <1>1, <1>2

\* A step of connection c that stores nothing.
LEMMA OrderlyQuiet ==
  ASSUME IInv, IInv', Orderly, NEW c \in Conns, UNCHANGED <<redis, tasks>>,
         \A d \in Conns \ {c} : ServiceState(d)' = ServiceState(d),
         Grows(c), executed[c] \subseteq executed'[c], StationAt(c)', TidyAt(c)', OwedAt(c)'
  PROVE  Orderly'
<1>1. \A d \in Conns : Grows(d) /\ executed[d] \subseteq executed'[d]
  <2> TAKE d \in Conns
  <2>1. CASE d = c
    BY <2>1
  <2>2. CASE d # c
    BY <2>2, StateParts DEF Grows
  <2> QED BY <2>1, <2>2
<1>2. \A d \in Conns : TidyAt(d)
  BY DEF Orderly
<1>3. RedisWhole'
  BY <1>1, <1>2, KeptStays DEF Orderly, RedisWhole
<1>4. TasksWhole'
  BY <1>1, <1>2, KeptStays DEF Orderly, TasksWhole
<1> QED BY <1>1, <1>3, <1>4, OrderlyNext

\* ... and makes no request.
LEMMA OrderlySame ==
  ASSUME IInv, IInv', Orderly, NEW c \in Conns, UNCHANGED <<redis, tasks>>,
         \A d \in Conns \ {c} : ServiceState(d)' = ServiceState(d),
         UNCHANGED <<reqs[c], executed[c], answered[c], clientUp[c]>>,
         StationAt(c)', TidyAt(c)',
         Present(c) => Coming(c)' = Coming(c), Waiting(c)' => Waiting(c)
  PROVE  Orderly'
<1>1. Grows(c) /\ OwedAt(c)
  BY DEF Grows, Orderly
<1>2. \A d \in Conns : Grows(d)
  BY <1>1, StateParts DEF Grows
<1>3. Outstanding(c)' = Outstanding(c) /\ Quitting(c)' = Quitting(c)
  BY DEF Outstanding, Awaited, Quitting, Last1
<1>4. OwedAt(c)'
  BY <1>1, <1>2, <1>3, OwedStays
<1> QED BY <1>1, <1>4, OrderlyQuiet
-----------------------------------------------------------------------------
(***************************************************************************)
(* A step of one connection leaves the others alone.                       *)
(***************************************************************************)
LEMMA Elsewhere1 ==
  ASSUME IInv, NEW c \in Conns, Accept(c) \/ C2R(c) \/ R2C(c) \/ Client(c) \/ Remote(c),
         NEW d \in Conns \ {c}
  PROVE  ServiceState(d)' = ServiceState(d)
<1>1. FlowState(d)' = FlowState(d)
  BY C2RElsewhere, R2CElsewhere, PeersElsewhere
<1> DEFINE Rest == <<conn[d], clientUp[d], answered[d], inbox[d], hit[d], cachedBuf[d],
                     toClient[d]>>
<1> SUFFICES Rest' = Rest
  BY <1>1 DEF ServiceState
<1> USE Functions1 DEF Put, Close, sockets, c2rVars, r2cVars, clientVars, remoteVars, shared,
        jobVars, sessionVars, NextRequest, Goto, Install, Replace, LogOrInstall, ToClient
<1>2. ASSUME C2R(c) PROVE Rest' = Rest
  <2>1. CASE C2RRead(c) \/ C2RShort(c) \/ C2REof(c) \/ C2RRaw(c)
    BY <2>1 DEF C2RRead, C2RShort, C2REof, C2RRaw
  <2>2. CASE C2RRequest(c) \/ C2RExists(c) \/ C2RGet(c)
    BY <2>2 DEF C2RRequest, C2RExists, C2RGet
  <2>3. CASE C2RReply(c) \/ C2RLog(c)
    BY <2>3 DEF C2RReply, C2RLog
  <2>4. CASE C2RSend(c) \/ C2RWrite(c)
    BY <2>4 DEF C2RSend, C2RWrite
  <2> QED BY <1>2, <2>1, <2>2, <2>3, <2>4 DEF C2R
<1>3. ASSUME R2C(c) PROVE Rest' = Rest
  <2>1. CASE R2CRead(c)
    BY <2>1 DEF R2CRead
  <2>2. CASE R2CEof(c) \/ R2CFinish(c) \/ R2CTask(c)
    BY <2>2 DEF R2CEof, R2CFinish, R2CTask
  <2>3. CASE R2CLog(c) \/ R2CRespond(c) \/ R2CWrite(c)
    BY <2>3 DEF R2CLog, R2CRespond, R2CWrite
  <2> QED BY <1>3, <2>1, <2>2, <2>3 DEF R2C
<1>4. CASE Accept(c)
  BY <1>4 DEF Accept
<1>5. ASSUME NEW s \in Stmts, ClientSend(c, s) PROVE Rest' = Rest
  BY <1>5 DEF ClientSend
<1>6. CASE ClientRecv(c)
  BY <1>6 DEF ClientRecv
<1>7. CASE ClientClose(c)
  BY <1>7 DEF ClientClose
<1>8. CASE Remote(c)
  BY <1>8 DEF Remote, RemoteExec, RemoteClose
<1> QED BY <1>2, <1>3, <1>4, <1>5, <1>6, <1>7, <1>8 DEF Client
-----------------------------------------------------------------------------
(***************************************************************************)
(* Where the halves of a session and its peers find the request.           *)
(***************************************************************************)
LEMMA Stations ==
  ASSUME NEW c \in Conns, StationAt(c), conn[c] = "open"
  PROVE  /\ c2r[c] = "read" /\ toProxy[c] # <<>> => Asked(c)
         /\ c2r[c] \in {"lock", "exists", "get", "send", "reply"} => Held(c)
         /\ c2r[c] = "write" => Passed(c)
         /\ c2r[c] = "log" => Asked(c) \/ Served(c)
         /\ c2r[c] # "raw"
         /\ toRemote[c] # <<>> => AtMySQL(c)
         /\ r2c[c] = "read" /\ fromRemote[c] # <<>> => Made(c) \/ Returning(c)
         /\ Flushing(c) => FlushesLast(c)
         /\ r2c[c] \in {"respond", "write"} => Returning(c)
<1> USE DEF Free, Resting
<1>1. CASE Unborn(c)
  BY <1>1 DEF Unborn
<1>2. CASE Asked(c)
  BY <1>2 DEF Asked, Flushing
<1>3. CASE Held(c)
  BY <1>3 DEF Held, Flushing
<1>4. CASE Passed(c)
  BY <1>4 DEF Passed, InChannel, Flushing
<1>5. CASE AtMySQL(c)
  BY <1>5 DEF AtMySQL, InChannel, Flushing
<1>6. CASE Made(c)
  BY <1>6 DEF Made, InChannel, Flushing
<1>7. CASE FlushesLast(c)
  BY <1>7 DEF FlushesLast, Flushing
<1>8. CASE Returning(c)
  BY <1>8 DEF Returning, Flushing
<1>9. CASE Served(c)
  BY <1>9 DEF Served, Flushing
<1>10. CASE Left(c)
  BY <1>10 DEF Left, InChannel, Flushing
<1> QED BY <1>1, <1>2, <1>3, <1>4, <1>5, <1>6, <1>7, <1>8, <1>9, <1>10 DEF StationAt

\* A client whose request is answered, or needs no answer, waits for none to be made.
LEMMA WaitsNoMore ==
  ASSUME NEW c \in Conns, conn'[c] # "new", c2r'[c] \in {"read", "log"},
         toProxy'[c] = <<>>, toRemote'[c] = <<>>
  PROVE  ~Waiting(c)'
BY DEF Waiting, Asked, Held, Passed, AtMySQL, Packet1

\* A client whose request goes on to the next station on its way waits as before.
LEMMA WaitsOn ==
  ASSUME NEW c \in Conns, conn'[c] # "new", UNCHANGED reqs[c],
         Asked(c) \/ (Held(c) /\ c2r[c] # "reply") \/ Passed(c) \/ AtMySQL(c)
  PROVE  Waiting(c)' => Waiting(c)
BY DEF Waiting, Quitting, Last1

\* What is coming is what has not been lost on the way.
LEMMA ComingSame ==
  ASSUME NEW c, UNCHANGED <<inbox[c], toClient[c], hit[c], data[c], fromRemote[c]>>
  PROVE  Coming(c)' = Coming(c)
BY DEF Coming

LEMMA FiveEmpty ==
  ASSUME NEW S, NEW a \in Seq(S), NEW b \in Seq(S), NEW h \in Seq(S), NEW d \in Seq(S),
         NEW f \in Seq(S)
  PROVE  a \o b \o h \o d \o f = <<>> <=>
           a = <<>> /\ b = <<>> /\ h = <<>> /\ d = <<>> /\ f = <<>>
<1>1. a \o b \in Seq(S) /\ a \o b \o h \in Seq(S) /\ a \o b \o h \o d \in Seq(S)
  BY ConcatProperties
<1>2. a \o b = <<>> <=> a = <<>> /\ b = <<>>
  BY ConcatEqualIffEmpty
<1>3. a \o b \o h = <<>> <=> a \o b = <<>> /\ h = <<>>
  BY <1>1, ConcatEqualIffEmpty
<1>4. a \o b \o h \o d = <<>> <=> a \o b \o h = <<>> /\ d = <<>>
  BY <1>1, ConcatEqualIffEmpty
<1>5. a \o b \o h \o d \o f = <<>> <=> a \o b \o h \o d = <<>> /\ f = <<>>
  BY <1>1, ConcatEqualIffEmpty
<1> QED BY <1>2, <1>3, <1>4, <1>5

LEMMA ComingEmpty ==
  ASSUME IInv, NEW c \in Conns
  PROVE  Coming(c) = <<>> <=> /\ inbox[c] = <<>> /\ toClient[c] = <<>> /\ hit[c] = <<>>
                              /\ data[c] = <<>> /\ fromRemote[c] = <<>>
BY Types1, FiveEmpty DEF Coming

\* A write to the client from either half moves its bytes along.
LEMMA ComingMoves ==
  ASSUME NEW S, NEW a \in Seq(S), NEW b \in Seq(S), NEW h \in Seq(S)
  PROVE  /\ a \o (b \o h) \o <<>> = a \o b \o h
         /\ a \o (b \o h) \o <<>> \o <<>> = a \o b \o <<>> \o h
<1>1. a \o b \in Seq(S) /\ a \o b \o h \in Seq(S)
  BY ConcatProperties
<1>2. (a \o b) \o h = a \o (b \o h)
  BY ConcatAssociative
<1>3. a \o b \o h \o <<>> = a \o b \o h /\ a \o b \o <<>> = a \o b
  BY <1>1, ConcatEmptySeq
<1> QED BY <1>2, <1>3

\* r2c has nothing to do while the request is on its way.
LEMMA RestsOn ==
  ASSUME NEW c, Resting(c),
         UNCHANGED <<reqs[c], r2c[c], data[c], fromRemote[c], cachedBuf[c], cachedCtx[c]>>
  PROVE  Resting(c)'
<1>1. \A n : Buffer(c, n)' = Buffer(c, n)
  BY ReplySame
<1> QED BY <1>1 DEF Resting, Replied, Last1
-----------------------------------------------------------------------------
(***************************************************************************)
(* The steps of client_to_remote.                                          *)
(***************************************************************************)
\* handle_request goes on.
LEMMA HeldOn ==
  ASSUME IInv, IInv', Orderly, NEW c \in Conns, conn[c] = "open", c2r[c] # "reply",
         c2r[c] \in {"lock", "exists", "get", "send", "reply"},
         \A d \in Conns \ {c} : ServiceState(d)' = ServiceState(d),
         c2r'[c] \in {"exists", "get", "send"},
         c2r'[c] # "send" => ctx[c].sql \in Cacheable,
         ctx'[c].n = ctx[c].n, ctx'[c].sql = ctx[c].sql,
         UNCHANGED <<redis, tasks>>,
         UNCHANGED <<reqs[c], toProxy[c], rbuf[c], toRemote[c], executed[c], fromRemote[c],
                     data[c], chan[c], r2c[c], cachedCtx[c], newCtx[c]>>,
         UNCHANGED <<conn[c], clientUp[c], answered[c], inbox[c], hit[c], cachedBuf[c],
                     toClient[c]>>
  PROVE  Orderly'
<1>1. StationAt(c) /\ TidyAt(c)
  BY DEF Orderly
<1>2. Held(c) /\ Resting(c)'
  BY <1>1, Stations, RestsOn DEF Held
<1>3. StationAt(c)'
  BY <1>2 DEF Held, StationAt, Last1
<1>4. TidyAt(c)'
  BY <1>1 DEF TidyAt, CtxOf, Last1, Flushing, Replied
<1>5. Coming(c)' = Coming(c) /\ (Waiting(c)' => Waiting(c))
  BY <1>2, ComingSame, WaitsOn
<1> QED BY <1>3, <1>4, <1>5, OrderlySame

LEMMA RequestOrderly ==
  ASSUME IInv, IInv', Orderly, NEW c \in Conns, C2RRequest(c)
  PROVE  Orderly'
<1>1. \A d \in Conns \ {c} : ServiceState(d)' = ServiceState(d)
  BY Elsewhere1 DEF C2R
<1>2. /\ conn[c] = "open" /\ c2r[c] = "lock" /\ c2r'[c] \in {"exists", "send"}
      /\ c2r'[c] # "send" => ctx[c].sql \in Cacheable
      /\ UNCHANGED <<conn, clientUp, reqs, answered, inbox, executed, rbuf, ctx, hit, r2c,
                     data, newCtx, cachedCtx, cachedBuf>>
      /\ UNCHANGED <<toProxy, toRemote, fromRemote, toClient, chan, redis, tasks>>
  BY FlowFunctions DEF C2RRequest, At, Put, clientVars, remoteVars, r2cVars, sockets, shared,
     jobVars
<1> QED BY <1>1, <1>2, HeldOn

LEMMA ExistsOrderly ==
  ASSUME IInv, IInv', Orderly, NEW c \in Conns, C2RExists(c)
  PROVE  Orderly'
<1>1. \A d \in Conns \ {c} : ServiceState(d)' = ServiceState(d)
  BY Elsewhere1 DEF C2R
<1>2. /\ conn[c] = "open" /\ c2r[c] = "exists" /\ c2r'[c] \in {"get", "send"}
      /\ UNCHANGED <<conn, clientUp, reqs, answered, inbox, executed, rbuf, hit, r2c,
                     data, newCtx, cachedCtx, cachedBuf>>
      /\ UNCHANGED <<toProxy, toRemote, fromRemote, toClient, chan, redis, tasks>>
  BY FlowFunctions DEF C2RExists, At, Put, clientVars, remoteVars, r2cVars, sockets, shared,
     jobVars
<1>3. ctx'[c].n = ctx[c].n /\ ctx'[c].sql = ctx[c].sql
  <2>1. ctx' = ctx \/ ctx' = [ctx EXCEPT ![c] = [ctx[c] EXCEPT !.should_update_cache = TRUE]]
    BY DEF C2RExists
  <2> DEFINE x == [ctx[c] EXCEPT !.should_update_cache = TRUE]
  <2>2. x.n = ctx[c].n /\ x.sql = ctx[c].sql
    BY FlowTypes DEF Ctxs
  <2> HIDE DEF x
  <2> QED BY <2>1, <2>2, FlowFunctions DEF x
<1>4. ctx[c].sql \in Cacheable
  BY <1>2 DEF IInv, CacheableOnly, CacheableAt
<1> QED BY <1>1, <1>2, <1>3, <1>4, HeldOn

\* No connection changes.
LEMMA OrderlyJobs ==
  ASSUME Orderly, RedisWhole', TasksWhole',
         \A d \in Conns : ServiceState(d)' = ServiceState(d)
  PROVE  Orderly'
<1>1. \A d \in Conns : Grows(d) /\ UNCHANGED clientUp[d]
  BY StateParts DEF Grows
<1>2. \A d \in Conns : StationAt(d) /\ TidyAt(d) /\ OwedAt(d)
  BY DEF Orderly
<1>3. ASSUME NEW d \in Conns PROVE StationAt(d)' /\ TidyAt(d)' /\ OwedAt(d)'
  <2>1. StationAt(d)' /\ TidyAt(d)'
    BY <1>2, StationStays
  <2>2. /\ Outstanding(d)' = Outstanding(d) /\ Coming(d)' = Coming(d)
        /\ Quitting(d)' = Quitting(d) /\ Waiting(d)' = Waiting(d)
    BY StationStays
  <2>3. OwedAt(d)'
    BY <1>1, <1>2, <2>2, OwedStays
  <2> QED BY <2>1, <2>3
<1> QED BY <1>3 DEF Orderly

\* Nothing changes that Orderly speaks of.
LEMMA OrderlyStays ==
  ASSUME IInv, IInv', Orderly, UNCHANGED <<redis, tasks>>,
         \A d \in Conns : ServiceState(d)' = ServiceState(d)
  PROVE  Orderly'
<1>1. \A d \in Conns : Grows(d) /\ executed[d] \subseteq executed'[d] /\ TidyAt(d)
  BY StateParts DEF Grows, Orderly
<1>2. RedisWhole'
  BY <1>1, KeptStays DEF Orderly, RedisWhole
<1>3. TasksWhole'
  BY <1>1, KeptStays DEF Orderly, TasksWhole
<1> QED BY <1>2, <1>3, OrderlyJobs

\* A session ends where it is.
LEMMA OrderlyCloses ==
  ASSUME IInv, IInv', Orderly, NEW c \in Conns, conn[c] = "open",
         conn' = [conn EXCEPT ![c] = "closed"], UNCHANGED <<redis, tasks>>,
         \A d \in Conns : FlowState(d)' = FlowState(d),
         UNCHANGED <<clientUp, answered, inbox, hit, cachedBuf, toClient>>
  PROVE  Orderly'
<1>1. conn'[c] = "closed" /\ \A d \in Conns \ {c} : conn'[d] = conn[d]
  BY Functions1
<1>2. \A d \in Conns \ {c} : ServiceState(d)' = ServiceState(d)
  BY <1>1 DEF ServiceState
<1>3. /\ Asked(c)' = Asked(c) /\ Held(c)' = Held(c) /\ Passed(c)' = Passed(c)
      /\ AtMySQL(c)' = AtMySQL(c) /\ Made(c)' = Made(c) /\ Left(c)' = Left(c)
      /\ FlushesLast(c)' = FlushesLast(c) /\ Returning(c)' = Returning(c)
      /\ Served(c)' = Served(c) /\ Quitting(c)' = Quitting(c)
  BY PlacesSame
<1>4. ~Unborn(c) /\ StationAt(c) /\ TidyAt(c)
  BY DEF Unborn, Orderly
<1>5. StationAt(c)'
  BY <1>3, <1>4 DEF StationAt
<1>6. UNCHANGED <<reqs[c], toProxy[c], rbuf[c], toRemote[c], executed[c], fromRemote[c],
                  data[c], c2r[c], ctx[c], chan[c], r2c[c], cachedCtx[c], newCtx[c]>>
  BY DEF FlowState
<1>7. TidyAt(c)'
  BY <1>1, <1>4, <1>6 DEF TidyAt, CtxOf, Last1, Flushing, Replied
<1>8. Waiting(c)' => Waiting(c)
  BY <1>1, <1>3, <1>6 DEF Waiting
<1>9. Coming(c)' = Coming(c)
  BY <1>6, ComingSame
<1> QED BY <1>2, <1>5, <1>6, <1>7, <1>8, <1>9, OrderlySame

LEMMA EofOrderly ==
  ASSUME IInv, IInv', Orderly, NEW c \in Conns, C2REof(c) \/ R2CEof(c)
  PROVE  Orderly'
BY OrderlyCloses DEF C2REof, R2CEof, At, Close, FlowState, clientVars, remoteVars, c2rVars,
   r2cVars, sockets, shared, jobVars

LEMMA ShortOrderly ==
  ASSUME IInv, IInv', Orderly, NEW c \in Conns, C2RShort(c)
  PROVE  Orderly'
BY OrderlyStays DEF C2RShort, ServiceState, FlowState, sessionVars, clientVars, remoteVars,
   c2rVars, r2cVars, sockets, shared, jobVars

\* The cache answers the request in the hands of client_to_remote.
HitGiven(c) ==
  /\ Held(c) /\ CtxOf(c, ctx[c]) /\ ctx[c].sql \in Cacheable
  /\ Cached(c) # <<>> /\ Coming(c)' = Cached(c)
  /\ Outstanding(c) = 1 /\ Coming(c) = <<>>

\* A value from the cache is taken for the answer.
LEMMA GetOrderly ==
  ASSUME OneAtATime, IInv, IInv', Orderly, NEW c \in Conns, C2RGet(c)
  PROVE  Orderly' /\ (Present(c) => HitGiven(c) \/ Coming(c)' = Coming(c))
<1>1. \A d \in Conns \ {c} : ServiceState(d)' = ServiceState(d)
  BY Elsewhere1 DEF C2R
<1>2. /\ conn[c] = "open" /\ c2r[c] = "get"
      /\ UNCHANGED <<conn, clientUp, reqs, answered, inbox, executed, rbuf, r2c,
                     data, newCtx, cachedCtx, cachedBuf>>
      /\ UNCHANGED <<toProxy, toRemote, fromRemote, toClient, chan, redis, tasks>>
  BY DEF C2RGet, At, clientVars, remoteVars, r2cVars, sockets, shared, jobVars
<1>3. ctx[c].sql \in Cacheable
  BY <1>2 DEF IInv, CacheableOnly, CacheableAt
<1>4. CASE c2r' = Put(c2r, c, "send") /\ UNCHANGED <<ctx, hit>>
  <2>1. c2r'[c] = "send"
    BY <1>4, FlowFunctions DEF Put
  <2>2. Orderly'
    BY <1>1, <1>2, <1>4, <2>1, HeldOn
  <2>3. Coming(c)' = Coming(c)
    BY <1>2, <1>4, ComingSame
  <2> QED BY <2>2, <2>3
<1>5. CASE /\ Cached(c) # <<>> /\ c2r' = Put(c2r, c, "reply") /\ hit' = Put(hit, c, Cached(c))
           /\ ctx' = [ctx EXCEPT ![c].from_cache = TRUE]
  <2>1. c2r'[c] = "reply" /\ hit'[c] = Cached(c) /\ Cached(c) # <<>>
    BY <1>5, FlowFunctions, Functions1 DEF Put
  <2>2. ctx'[c].n = ctx[c].n /\ ctx'[c].sql = ctx[c].sql
    <3>1. ctx' = [ctx EXCEPT ![c] = [ctx[c] EXCEPT !.from_cache = TRUE]]
      BY <1>5
    <3> DEFINE x == [ctx[c] EXCEPT !.from_cache = TRUE]
    <3>2. x.n = ctx[c].n /\ x.sql = ctx[c].sql
      BY FlowTypes DEF Ctxs
    <3> HIDE DEF x
    <3> QED BY <3>1, <3>2, FlowFunctions DEF x
  <2>3. StationAt(c) /\ TidyAt(c) /\ OwedAt(c)
    BY DEF Orderly
  <2>4. Held(c) /\ Resting(c)'
    BY <1>2, <2>3, Stations, RestsOn DEF Held
  <2>5. StationAt(c)'
    BY <1>2, <1>3, <2>1, <2>2, <2>4 DEF Held, StationAt, Last1
  <2>6. TidyAt(c)'
    BY <1>2, <2>1, <2>2, <2>3 DEF TidyAt, CtxOf, Last1, Flushing, Replied
  <2>7. ~Quitting(c) /\ ~Quitting(c)'
    <3>1. CtxOf(c, ctx[c]) /\ ctx[c].n = Last1(c)
      BY <1>2, <2>3, <2>4 DEF TidyAt, Held
    <3>2. reqs[c][Last1(c)] \notin Quits
      BY <1>3, <3>1 DEF OneAtATime, CtxOf
    <3> QED BY <1>2, <3>2 DEF Quitting, Last1
  <2>8. Waiting(c)
    BY <1>2, <2>4, <2>7 DEF Waiting
  <2>9. ~Waiting(c)'
    BY <1>2, <2>1, <2>4 DEF Waiting, Asked, Held, Passed, AtMySQL, Free
  <2>10. ASSUME Present(c)
         PROVE  Coming(c)' = Cached(c) /\ Outstanding(c) = 1 /\ Coming(c) = <<>>
    <3>1. Outstanding(c) = 1 /\ Coming(c) = <<>>
      BY <2>3, <2>8, <2>10 DEF OwedAt
    <3>2. /\ inbox'[c] = <<>> /\ toClient'[c] = <<>> /\ data'[c] = <<>>
          /\ fromRemote'[c] = <<>>
      BY <1>2, <3>1, ComingEmpty
    <3>3. hit'[c] \in Seq(PartSet)
      BY Types1 DEF IInv, TypeOK, SessionTypeOK
    <3>4. Coming(c)' = <<>> \o <<>> \o hit'[c] \o <<>> \o <<>>
      BY <3>2 DEF Coming
    <3>5. Coming(c)' = hit'[c]
      BY <3>3, <3>4, EmptySeq, ConcatEmptySeq
    <3> QED BY <2>1, <3>1, <3>5
  <2>11. IsAnswer(Cached(c))
    <3>1. ctx[c].sql \in Texts /\ LookupKey[ctx[c].sql] \in Keys
      BY <1>3, SessionAssumption DEF SessionAssumption
    <3>2. IsReplyFor(Cached(c), LookupKey[ctx[c].sql])
      BY <2>1, <3>1 DEF Orderly, RedisWhole, Cached
    <3> QED BY <3>2 DEF IsReplyFor, IsAnswer
  <2>12. \A d \in Conns : Grows(d)
    BY <1>2 DEF Grows
  <2>13. IsAnswer(Cached(c))'
    <3>1. Cached(c)' = Cached(c)
      BY <1>2, <2>2 DEF Cached
    <3> QED BY <2>11, <2>12, <3>1, AnswerStays
  <2>14. Outstanding(c)' = Outstanding(c) /\ (Present(c)' => Present(c))
    BY <1>2 DEF Outstanding, Awaited, Present
  <2>15. IsAnswer(Coming(c))' \/ ~Present(c)
    <3>1. Cached(c)' = Cached(c)
      BY <1>2, <2>2 DEF Cached
    <3> QED BY <2>10, <2>13, <3>1
  <2>16. OwedAt(c)'
    BY <1>2, <2>3, <2>7, <2>9, <2>10, <2>14, <2>15 DEF OwedAt
  <2>17. Grows(c) /\ executed[c] \subseteq executed'[c]
    BY <1>2, <2>12
  <2>18. Orderly'
    BY <1>1, <1>2, <2>5, <2>6, <2>16, <2>17, OrderlyQuiet
  <2>19. CtxOf(c, ctx[c])
    BY <1>2, <2>3 DEF TidyAt
  <2> QED BY <1>3, <2>1, <2>4, <2>10, <2>18, <2>19 DEF HitGiven
<1> QED BY <1>4, <1>5 DEF C2RGet, Usable

\* The answer from the cache is written to the client.
LEMMA ReplyOrderly ==
  ASSUME OneAtATime, IInv, IInv', Orderly, NEW c \in Conns, C2RReply(c)
  PROVE  Orderly' /\ (Present(c) => Coming(c)' = Coming(c))
<1>1. \A d \in Conns \ {c} : ServiceState(d)' = ServiceState(d)
  BY Elsewhere1 DEF C2R
<1>2. /\ conn[c] = "open" /\ c2r[c] = "reply" /\ hit'[c] = <<>> /\ c2r'[c] \in {"log", "read"}
      /\ c2r'[c] = "read" => rbuf'[c] = <<>>
      /\ toClient'[c] = IF clientUp[c] THEN toClient[c] \o hit[c] ELSE toClient[c]
      /\ UNCHANGED <<conn, clientUp, reqs, answered, inbox, executed, ctx, r2c,
                     data, newCtx, cachedCtx, cachedBuf>>
      /\ UNCHANGED <<toProxy, toRemote, fromRemote, chan, redis, tasks>>
  BY FlowFunctions, Functions1 DEF C2RReply, At, Put, ToClient, NextRequest, clientVars,
     remoteVars, r2cVars, sockets, shared, jobVars
<1>3. StationAt(c) /\ TidyAt(c) /\ OwedAt(c)
  BY DEF Orderly
<1>4. Held(c) /\ Resting(c)'
  BY <1>2, <1>3, Stations, RestsOn DEF Held
<1>5. StationAt(c)'
  <2>1. ctx[c].sql \in Cacheable /\ CtxOf(c, ctx[c]) /\ ctx[c].n = Last1(c)
    BY <1>2, <1>3, <1>4 DEF Held, TidyAt
  <2>2. Last1(c) # 1 /\ Last1(c) # 0
    <3>1. Last1(c) \in DOMAIN reqs[c] /\ reqs[c][Last1(c)] # Login
      BY <2>1 DEF CtxOf, OneAtATime
    <3>2. reqs[c] # <<>>
      BY <3>1, Types1
    <3> QED BY <1>3, <3>1, <3>2, Types1 DEF TidyAt
  <2>3. Last1(c) \in Nat
    BY Types1 DEF Last1
  <2>4. Replied(c)' # 0
    BY <1>2, <1>4, <2>2, <2>3 DEF Held, Resting, Replied
  <2> QED BY <1>2, <1>4, <2>4 DEF Held, StationAt, Served, Free
<1>6. TidyAt(c)'
  BY <1>2, <1>3 DEF TidyAt, CtxOf, Last1, Flushing, Replied
<1>7. ~Waiting(c)'
  BY <1>2, <1>4, WaitsNoMore DEF Held
<1>8. ASSUME Present(c) PROVE Coming(c)' = Coming(c)
  <2>1. hit[c] # <<>>
    BY <1>2, <1>4 DEF Held
  <2>2. clientUp[c]
    BY <1>3, <1>8, <2>1, ComingEmpty, Types1 DEF OwedAt
  <2>3. Coming(c)' = inbox[c] \o (toClient[c] \o hit[c]) \o <<>> \o data[c] \o fromRemote[c]
    BY <1>2, <2>2 DEF Coming
  <2>4. inbox[c] \o (toClient[c] \o hit[c]) \o <<>> = inbox[c] \o toClient[c] \o hit[c]
    <3> DEFINE a == inbox[c]
               b == toClient[c]
               h == hit[c]
    <3>1. a \in Seq(PartSet) /\ b \in Seq(PartSet) /\ h \in Seq(PartSet)
      BY Types1
    <3> HIDE DEF a, b, h
    <3>2. a \o (b \o h) \o <<>> = a \o b \o h
      BY <3>1, ComingMoves
    <3> QED BY <3>2 DEF a, b, h
  <2> QED BY <2>3, <2>4 DEF Coming
<1>9. Orderly'
  BY <1>1, <1>2, <1>5, <1>6, <1>7, <1>8, OrderlySame
<1> QED BY <1>8, <1>9

\* An answer from the cache has been logged.
LEMMA LogOrderly ==
  ASSUME IInv, IInv', Orderly, NEW c \in Conns, C2RLog(c)
  PROVE  Orderly'
<1>1. \A d \in Conns \ {c} : ServiceState(d)' = ServiceState(d)
  BY Elsewhere1 DEF C2R
<1>2. /\ conn[c] = "open" /\ c2r[c] = "log" /\ c2r'[c] = "read" /\ rbuf'[c] = <<>>
      /\ UNCHANGED <<conn, clientUp, reqs, answered, inbox, executed, ctx, hit, r2c,
                     data, newCtx, cachedCtx, cachedBuf>>
      /\ UNCHANGED <<toProxy, toRemote, fromRemote, toClient, chan, redis, tasks>>
  BY FlowFunctions, Functions1 DEF C2RLog, SendLog, At, Put, NextRequest, clientVars,
     remoteVars, r2cVars, sockets, shared, jobVars
<1>3. StationAt(c) /\ TidyAt(c)
  BY DEF Orderly
<1>4. (Asked(c) \/ Served(c)) /\ Resting(c)'
  BY <1>2, <1>3, Stations, RestsOn DEF Asked, Served
<1>5. StationAt(c)'
  BY <1>2, <1>4 DEF Asked, StationAt, Served, Free, Last1, Replied
<1>6. TidyAt(c)'
  BY <1>2, <1>3 DEF TidyAt, CtxOf, Last1, Flushing, Replied
<1>7. Waiting(c)' => Waiting(c)
  <2>1. CASE Asked(c)
    BY <1>2, <2>1, WaitsOn
  <2>2. CASE Served(c)
    BY <1>2, <2>2, WaitsNoMore DEF Served, Free
  <2> QED BY <1>4, <2>1, <2>2
<1>8. Coming(c)' = Coming(c)
  BY <1>2, ComingSame
<1> QED BY <1>1, <1>2, <1>5, <1>6, <1>7, <1>8, OrderlySame

\* The context is sent before the packet.
LEMMA SendOrderly ==
  ASSUME IInv, IInv', Orderly, NEW c \in Conns, C2RSend(c)
  PROVE  Orderly'
<1>1. \A d \in Conns \ {c} : ServiceState(d)' = ServiceState(d)
  BY Elsewhere1 DEF C2R
<1>2. /\ conn[c] = "open" /\ c2r[c] = "send" /\ c2r'[c] = "write"
      /\ chan'[c] = Append(chan[c], ctx[c])
      /\ UNCHANGED <<conn, clientUp, reqs, answered, inbox, executed, rbuf, ctx, hit, r2c,
                     data, newCtx, cachedCtx, cachedBuf>>
      /\ UNCHANGED <<toProxy, toRemote, fromRemote, toClient, redis, tasks>>
  BY FlowFunctions, Functions1 DEF C2RSend, At, Put, clientVars,
     remoteVars, r2cVars, sockets, shared, jobVars
<1>3. StationAt(c) /\ TidyAt(c)
  BY DEF Orderly
<1>4. Held(c) /\ Resting(c)'
  BY <1>2, <1>3, Stations, RestsOn DEF Held
<1>5. chan'[c] = <<ctx[c]>>
  BY <1>2, <1>4 DEF Held
<1>6. Passed(c)'
  BY <1>2, <1>4, <1>5 DEF Held, Passed, InChannel, Last1
<1>7. TidyAt(c)'
  <2>1. CtxOf(c, ctx[c])
    BY <1>2, <1>3 DEF TidyAt
  <2>2. \A i \in DOMAIN chan'[c] : chan'[c][i] = ctx[c]
    BY <1>5
  <2> QED BY <1>2, <1>3, <2>1, <2>2 DEF TidyAt, CtxOf, Last1, Flushing, Replied
<1>8. (Waiting(c)' => Waiting(c)) /\ Coming(c)' = Coming(c)
  BY <1>2, <1>4, WaitsOn, ComingSame
<1> QED BY <1>1, <1>2, <1>6, <1>7, <1>8, OrderlySame DEF StationAt

\* The packet goes to MySQL, or the session ends.
LEMMA WriteOrderly ==
  ASSUME IInv, IInv', Orderly, NEW c \in Conns, C2RWrite(c)
  PROVE  Orderly'
<1>1. \A d \in Conns \ {c} : ServiceState(d)' = ServiceState(d)
  BY Elsewhere1 DEF C2R
<1>2. /\ conn[c] = "open" /\ c2r[c] = "write"
      /\ UNCHANGED <<clientUp, reqs, answered, inbox, executed, ctx, hit, r2c,
                     data, newCtx, cachedCtx, cachedBuf>>
      /\ UNCHANGED <<toProxy, fromRemote, toClient, chan, redis, tasks>>
  BY DEF C2RWrite, At, clientVars, remoteVars, r2cVars, shared, jobVars
<1>3. StationAt(c) /\ TidyAt(c)
  BY DEF Orderly
<1>4. Passed(c) /\ Resting(c)'
  BY <1>2, <1>3, Stations, RestsOn DEF Passed
<1>5. CASE Close(c) /\ UNCHANGED <<c2r, rbuf, toRemote, handler>>
  BY <1>2, <1>5, OrderlyCloses DEF Close, FlowState
<1>6. CASE Sent(c) /\ NextRequest(c) /\ UNCHANGED conn
  <2>1. c2r'[c] = "read" /\ rbuf'[c] = <<>> /\ toRemote'[c] = toRemote[c] \o rbuf[c]
    BY <1>6, FlowFunctions DEF Sent, NextRequest, Put
  <2>2. toRemote'[c] = rbuf[c]
    BY <1>4, <2>1, Types1, ConcatEmptySeq DEF Passed
  <2>3. AtMySQL(c)'
    BY <1>2, <1>4, <2>1, <2>2 DEF Passed, AtMySQL, InChannel, Last1
  <2>4. TidyAt(c)'
    BY <1>2, <1>3, <1>6, <2>1 DEF TidyAt, CtxOf, Last1, Flushing, Replied
  <2>5. (Waiting(c)' => Waiting(c)) /\ Coming(c)' = Coming(c)
    BY <1>2, <1>4, <1>6, WaitsOn, ComingSame
  <2> QED BY <1>1, <1>2, <1>6, <2>3, <2>4, <2>5, OrderlySame DEF StationAt
<1> QED BY <1>5, <1>6 DEF C2RWrite

\* The packet of a request of one read.
LEMMA OnePacket ==
  ASSUME OneAtATime, IInv, NEW c \in Conns, Last1(c) # 0
  PROVE  /\ Packet(c, Last1(c)) = Packet1(Last1(c))
         /\ reqs[c][Last1(c)] \in Stmts /\ Last1(c) \in DOMAIN reqs[c]
         /\ PacketType(c, Packet1(Last1(c))) # "Invalid"
<1>1. Last1(c) \in DOMAIN reqs[c] /\ reqs[c][Last1(c)] \in Stmts
  BY Types1, ElementOfSeq DEF Last1
<1> DEFINE s == reqs[c][Last1(c)]
<1>2. Len(Frames[s]) = 1 /\ Frames[s][1] # "Invalid" /\ Frames[s] \in Seq(FrameTypes)
  BY <1>1, SessionAssumption DEF OneAtATime, SessionAssumption
<1>3. DOMAIN Frames[s] = {1}
  BY <1>2, LenProperties
<1>4. Packet(c, Last1(c)) = [i \in {1} |-> [n |-> Last1(c), i |-> i]]
  BY <1>3 DEF Packet
<1>5. Packet1(Last1(c)) = [i \in {1} |-> [n |-> Last1(c), i |-> i]]
  BY DEF Packet1
<1>6. Packet1(Last1(c))[1].n = Last1(c) /\ Packet1(Last1(c))[1].i = 1
  BY DEF Packet1
<1> QED BY <1>1, <1>2, <1>4, <1>5, <1>6 DEF PacketType

\* The one read there can be of a sequence of one.
LEMMA OneSplit ==
  ASSUME NEW S, NEW s \in Seq(S), Len(s) = 1
  PROVE  SubSeq(s, 1, 1) = s /\ SubSeq(s, 2, Len(s)) = <<>>
<1>1. SubSeq(s, 1, 1) \in Seq(S) /\ Len(SubSeq(s, 1, 1)) = 1 /\ SubSeq(s, 1, 1)[1] = s[1]
  BY ReadSplit, LenProperties
<1>2. SubSeq(s, 1, 1) = s
  BY <1>1, SeqEqual
<1>3. SubSeq(s, 2, 1) \in Seq(S) /\ Len(SubSeq(s, 2, 1)) = 0
  BY SubSeqProperties
<1> QED BY <1>2, <1>3, EmptySeq

\* The packet comes in one read, and the context is that of its statement.
LEMMA ReadOrderly ==
  ASSUME OneAtATime, IInv, IInv', Orderly, NEW c \in Conns, C2RRead(c)
  PROVE  Orderly'
<1>1. \A d \in Conns \ {c} : ServiceState(d)' = ServiceState(d)
  BY Elsewhere1 DEF C2R
<1>2. /\ conn[c] = "open" /\ c2r[c] = "read"
      /\ UNCHANGED <<conn, clientUp, reqs, answered, inbox, executed, hit, r2c,
                     data, newCtx, cachedCtx, cachedBuf>>
      /\ UNCHANGED <<toRemote, fromRemote, toClient, chan, redis, tasks>>
  BY DEF C2RRead, At, clientVars, remoteVars, r2cVars, sockets, shared, jobVars
<1>3. StationAt(c) /\ TidyAt(c)
  BY DEF Orderly
<1>4. PICK k \in 1 .. Len(toProxy[c]) :
        LET us == rbuf[c] \o SubSeq(toProxy[c], 1, k)
            invalid == PacketType(c, us) = "Invalid"
        IN /\ rbuf' = Put(rbuf, c, us)
           /\ IF invalid THEN UNCHANGED ctx
              ELSE \E text \in TextsOf(c, us) : ctx' = Put(ctx, c, NewCtx(us[1], text))
           /\ c2r' = Put(c2r, c, IF invalid THEN "raw" ELSE "lock")
           /\ toProxy' = Put(toProxy, c, SubSeq(toProxy[c], k + 1, Len(toProxy[c])))
  BY DEF C2RRead
<1>5. Asked(c) /\ Resting(c)' /\ rbuf[c] = <<>>
  <2>1. toProxy[c] # <<>>
    BY <1>4
  <2> QED BY <1>2, <1>3, <2>1, Stations, RestsOn DEF Asked, TidyAt
<1> DEFINE u == [n |-> Last1(c), i |-> 1]
<1>6. toProxy[c] = <<u>>
  BY <1>5 DEF Asked, Packet1
<1>7. k = 1
  BY <1>4, <1>6
<1>8. SubSeq(toProxy[c], 1, k) = <<u>> /\ SubSeq(toProxy[c], k + 1, Len(toProxy[c])) = <<>>
  <2>1. <<u>> \in Seq(Units) /\ Len(<<u>>) = 1
    BY <1>6, Types1
  <2>2. toProxy[c] \in Seq(Units) /\ Len(toProxy[c]) = 1
    BY <1>6, <2>1
  <2>3. SubSeq(toProxy[c], 1, 1) = toProxy[c] /\ SubSeq(toProxy[c], 2, Len(toProxy[c])) = <<>>
    BY <2>2, OneSplit
  <2>4. k = 1 /\ k + 1 = 2
    BY <1>7
  <2> QED BY <1>6, <2>3, <2>4
<1>9. Last1(c) # 0
  <2>1. toProxy[c][1].n \in DOMAIN reqs[c]
    BY <1>6 DEF IInv, RequestsKnown, KnownAt, Known
  <2> QED BY <1>6, <2>1, Types1
<1>10. rbuf[c] \o SubSeq(toProxy[c], 1, k) = Packet1(Last1(c))
  <2>1. <<u>> \in Seq(Units)
    BY <1>6, Types1
  <2> QED BY <1>5, <1>8, <2>1, ConcatEmptySeq DEF Packet1
<1>11. /\ rbuf'[c] = Packet1(Last1(c)) /\ toProxy'[c] = <<>> /\ c2r'[c] = "lock"
       /\ \E text \in TextsOf(c, Packet1(Last1(c))) :
            ctx'[c] = NewCtx(Packet1(Last1(c))[1], text)
  <2> DEFINE us == Packet1(Last1(c))
  <2>1. PacketType(c, us) # "Invalid"
    BY <1>9, OnePacket
  <2> HIDE DEF us, u
  <2>2. /\ rbuf' = Put(rbuf, c, us) /\ toProxy' = Put(toProxy, c, <<>>)
        /\ c2r' = Put(c2r, c, "lock")
        /\ \E text \in TextsOf(c, us) : ctx' = Put(ctx, c, NewCtx(us[1], text))
    BY <1>4, <1>8, <1>10, <2>1 DEF us
  <2>3. rbuf'[c] = us /\ toProxy'[c] = <<>> /\ c2r'[c] = "lock"
    BY <2>2, FlowFunctions DEF Put
  <2>4. \E text \in TextsOf(c, us) : ctx'[c] = NewCtx(us[1], text)
    BY <2>2, FlowFunctions DEF Put
  <2> QED BY <2>3, <2>4 DEF us
<1>12. ctx'[c].n = Last1(c) /\ ctx'[c].sql = reqs[c][Last1(c)]
  <2>1. Packet1(Last1(c))[1].n = Last1(c)
    BY DEF Packet1
  <2>2. TextsOf(c, Packet1(Last1(c))) = {reqs[c][Last1(c)]}
    BY <1>9, <2>1, OnePacket DEF TextsOf
  <2> QED BY <1>11, <2>1, <2>2 DEF NewCtx
<1>13. Held(c)'
  BY <1>2, <1>5, <1>11, <1>12 DEF Held, Asked, Free, Last1
<1>14. TidyAt(c)'
  <2>1. CtxOf(c, ctx[c])'
    BY <1>2, <1>9, <1>12, OnePacket DEF CtxOf
  <2> QED BY <1>2, <1>3, <1>11, <2>1 DEF TidyAt, CtxOf, Last1, Flushing, Replied
<1>15. (Waiting(c)' => Waiting(c)) /\ Coming(c)' = Coming(c)
  BY <1>2, <1>5, WaitsOn, ComingSame
<1> QED BY <1>1, <1>2, <1>13, <1>14, <1>15, OrderlySame DEF StationAt
-----------------------------------------------------------------------------
(***************************************************************************)
(* The steps of remote_to_client.                                          *)
(***************************************************************************)
\* A read leaves the rest of the answer to come.
LEMMA ReadJoins ==
  ASSUME NEW S, NEW s \in Seq(S), NEW k \in 1 .. Len(s),
         NEW r, r = SubSeq(s, 1, k), NEW t, t = SubSeq(s, k + 1, Len(s))
  PROVE  r \in Seq(S) /\ t \in Seq(S) /\ r # <<>> /\ r \o t = s
<1>1. r \in Seq(S) /\ t \in Seq(S) /\ Len(r) = k /\ Len(r) # 0
  BY ReadSplit, LenProperties
<1>2. Len(s) \in Nat /\ 1 \in 1 .. Len(s) + 1 /\ k \in 0 .. Len(s) /\ Len(s) \in k .. Len(s)
  BY LenProperties
<1>3. r \o t = SubSeq(s, 1, Len(s))
  BY <1>2, ConcatAdjacentSubSeq
<1>4. SubSeq(s, 1, Len(s)) = s
  <2>1. /\ SubSeq(s, 1, Len(s)) \in Seq(S) /\ Len(SubSeq(s, 1, Len(s))) = Len(s)
        /\ \A i \in 1 .. Len(s) : SubSeq(s, 1, Len(s))[i] = s[i]
    BY <1>2, SubSeqProperties, ElementOfSeq
  <2> QED BY <2>1, SeqEqual
<1>6. r # <<>>
  BY <1>1, EmptySeq
<1> QED BY <1>1, <1>3, <1>4, <1>6

LEMMA JoinsInOrder ==
  ASSUME NEW S
  PROVE  \A a, b, h \in Seq(S) : (a \o b) \o h = a \o (b \o h)
BY ConcatAssociative

\* Part of the answer comes, and with the first part the context of its request.
LEMMA RemoteReadOrderly ==
  ASSUME IInv, IInv', Orderly, NEW c \in Conns, R2CRead(c)
  PROVE  Orderly' /\ Coming(c)' = Coming(c)
<1>1. \A d \in Conns \ {c} : ServiceState(d)' = ServiceState(d)
  BY Elsewhere1 DEF R2C
<1>2. /\ conn[c] = "open" /\ r2c[c] = "read"
      /\ UNCHANGED <<conn, clientUp, reqs, answered, inbox, executed, c2r, rbuf, ctx, hit>>
      /\ UNCHANGED <<toProxy, toRemote, toClient, redis, tasks>>
  BY DEF R2CRead, At, clientVars, remoteVars, c2rVars, jobVars
<1>3. StationAt(c) /\ TidyAt(c) /\ OwedAt(c)
  BY DEF Orderly
<1> DEFINE S == PartSet
           f == fromRemote[c]
<1>4. PICK k \in 1 .. Len(f) :
        /\ data' = Put(data, c, SubSeq(f, 1, k))
        /\ fromRemote' = Put(fromRemote, c, SubSeq(f, k + 1, Len(f)))
  BY DEF R2CRead
<1>5. f # <<>> /\ f \in Seq(S) /\ cachedBuf[c] \in Seq(S)
  BY <1>4, Types1
<1> DEFINE r == data'[c]
           t == fromRemote'[c]
<1>6. r = SubSeq(f, 1, k) /\ t = SubSeq(f, k + 1, Len(f))
  BY <1>4, FlowFunctions DEF Put
<1>7. r # <<>> /\ r \o t = f /\ \A b \in Seq(S) : (b \o r) \o t = b \o f
  <2> HIDE DEF r, t, f
  <2>1. r \in Seq(S) /\ t \in Seq(S) /\ r # <<>> /\ r \o t = f
    <3>1. f \in Seq(S) /\ k \in 1 .. Len(f)
      BY <1>5
    <3> HIDE DEF S
    <3>2. /\ SubSeq(f, 1, k) \in Seq(S) /\ SubSeq(f, k + 1, Len(f)) \in Seq(S)
          /\ SubSeq(f, 1, k) # <<>> /\ SubSeq(f, 1, k) \o SubSeq(f, k + 1, Len(f)) = f
      BY <3>1, ReadJoins
    <3> QED BY <1>6, <3>2
  <2>2. \A a, b, h \in Seq(S) : (a \o b) \o h = a \o (b \o h)
    BY JoinsInOrder
  <2>3. ASSUME NEW b \in Seq(S) PROVE (b \o r) \o t = b \o f
    BY <2>1, <2>2
  <2> QED BY <2>1, <2>3
<1>8. \A n : Reply(c, n)' = Reply(c, n) /\ Buffer(c, n)' = Buffer(c, n)
  BY <1>2, ReplySame
<1>9. Quitting(c)' = Quitting(c) /\ Last1(c)' = Last1(c)
  BY <1>2 DEF Quitting, Last1
<1>10. Made(c) \/ Returning(c)
  BY <1>2, <1>3, <1>5, Stations
<1>11. data[c] = <<>> /\ c2r[c] = "read" /\ toProxy[c] = <<>> /\ toRemote[c] = <<>>
  BY <1>2, <1>10 DEF Made, Returning, InChannel, Free
<1>12. ~Waiting(c)'
  BY <1>2, <1>11, WaitsNoMore
<1>13. Coming(c)' = Coming(c)
  <2> DEFINE a == inbox[c] \o toClient[c] \o hit[c]
  <2>1. inbox[c] \in Seq(S) /\ toClient[c] \in Seq(S) /\ hit[c] \in Seq(S)
    BY Types1
  <2>2. inbox[c] \o toClient[c] \in Seq(S)
    BY <2>1, ConcatProperties
  <2>3. a \in Seq(S)
    BY <2>1, <2>2, ConcatProperties
  <2>4. Coming(c) = (a \o <<>>) \o f /\ Coming(c)' = (a \o r) \o t
    BY <1>2, <1>11 DEF Coming
  <2> HIDE DEF a, r, t, f
  <2>5. (a \o r) \o t = a \o f
    BY <1>7, <2>3
  <2> QED BY <2>3, <2>4, <2>5, ConcatEmptySeq
<1> HIDE DEF r, t, f
<1>14. ASSUME Made(c) PROVE StationAt(c)' /\ TidyAt(c)'
  <2> DEFINE x == chan[c][1]
  <2>1. /\ chan[c] # <<>> /\ Head(chan[c]) = x /\ Tail(chan[c]) = <<>> /\ x.n = Last1(c)
        /\ x \in Ctxs /\ CtxOf(c, x)
    <3>1. chan[c] # <<>> /\ chan[c] \in Seq(Ctxs) /\ Len(chan[c]) <= 1 /\ x.n = Last1(c)
      BY <1>14, Types1 DEF Made, InChannel
    <3>2. 1 \in DOMAIN chan[c] /\ Head(chan[c]) = x /\ Head(chan[c]) \in Ctxs /\ Tail(chan[c]) = <<>>
      BY <3>1, AtMostOne
    <3> QED BY <1>3, <3>1, <3>2 DEF TidyAt
  <2> HIDE DEF x
  <2>2. Last1(c) \in Nat \ {0} /\ Last1(c) \in executed[c] /\ f = Reply(c, Last1(c))
    BY <1>14, <2>1, Types1 DEF CtxOf, Made, Last1, f
  <2>3. chan'[c] = <<>>
    BY <2>1, FlowFunctions DEF R2CRead, Takes, Put
  <2>4. CASE cachedCtx[c] # NoCtx
    <3>1. /\ newCtx'[c] = x /\ r2c'[c] = "finish"
          /\ UNCHANGED <<cachedCtx, cachedBuf>>
      BY <2>1, <2>4, FlowFunctions DEF R2CRead, Takes, Put
    <3>2. Replied(c) \in 1 .. Last1(c) - 1
      <4>1. Replied(c) \in DOMAIN reqs[c]
        BY <1>3, <2>4 DEF TidyAt, CtxOf, Replied
      <4>2. Replied(c) # Last1(c)
        BY <1>14 DEF Made
      <4> QED BY <4>1, <4>2, Types1 DEF Last1
    <3>3. FlushesLast(c)'
      BY <1>2, <1>7, <1>8, <1>9, <1>11, <1>14, <2>1, <2>2, <2>3, <3>1, <3>2
         DEF FlushesLast, Made, InChannel, Free, Flushing, Replied, Last1, r, t
    <3>4. TidyAt(c)'
      BY <1>2, <1>3, <1>9, <2>1, <2>3, <3>1 DEF TidyAt, CtxOf, Flushing, Replied
    <3> QED BY <3>3, <3>4 DEF StationAt
  <2>5. CASE cachedCtx[c] = NoCtx
    <3>1. /\ cachedCtx'[c] = x /\ r2c'[c] \in {"respond", "write"}
          /\ cachedBuf'[c] = cachedBuf[c] \o r
      <4>1. /\ cachedCtx' = Put(cachedCtx, c, x)
            /\ cachedBuf' = Put(cachedBuf, c, cachedBuf[c] \o r)
        BY <2>1, <2>5 DEF R2CRead, Takes, r
      <4>2. r2c' = Put(r2c, c, IF cachedCtx'[c] = NoCtx THEN "write" ELSE "respond")
        BY <2>1, <2>5 DEF R2CRead, Takes
      <4> QED BY <4>1, <4>2, FlowFunctions, Functions1 DEF Put
    <3>2. Replied(c) = 0 /\ Last1(c) = 1
      BY <1>14, <2>2, <2>5 DEF Made, Replied, NoCtx, NewCtx
    <3>3. cachedBuf[c] = Reply(c, 0)
      BY <1>14, <3>2 DEF Made, Buffer
    <3>4. cachedBuf'[c] \o t = Buffer(c, 1)
      BY <1>5, <1>7, <2>2, <3>1, <3>2, <3>3 DEF Buffer
    <3>5. Returning(c)'
      BY <1>2, <1>7, <1>8, <1>9, <1>11, <1>14, <2>1, <2>2, <2>3, <3>1, <3>2, <3>4
         DEF Returning, Made, InChannel, Free, Replied, Last1, r, t
    <3>6. TidyAt(c)'
      BY <1>2, <1>3, <1>9, <2>1, <2>2, <2>3, <3>1 DEF TidyAt, CtxOf, Flushing, Replied
    <3> QED BY <3>5, <3>6 DEF StationAt
  <2> QED BY <2>4, <2>5
<1>15. ASSUME Returning(c) PROVE StationAt(c)' /\ TidyAt(c)'
  <2>1. chan[c] = <<>>
    BY <1>15 DEF Returning, Free
  <2>2. /\ UNCHANGED chan /\ cachedCtx' = cachedCtx
        /\ cachedBuf' = Put(cachedBuf, c, cachedBuf[c] \o r)
        /\ r2c' = Put(r2c, c, IF cachedCtx'[c] = NoCtx THEN "write" ELSE "respond")
    BY <2>1 DEF R2CRead, Takes, r
  <2>3. cachedBuf'[c] = cachedBuf[c] \o r /\ r2c'[c] \in {"respond", "write"}
    BY <2>2, FlowFunctions, Functions1 DEF Put
  <2>4. Returning(c)'
    BY <1>2, <1>5, <1>7, <1>8, <1>9, <1>11, <1>15, <2>1, <2>2, <2>3
       DEF Returning, Free, Replied, r, t, f
  <2>5. TidyAt(c)'
    BY <1>2, <1>3, <1>9, <2>2, <2>3 DEF TidyAt, CtxOf, Flushing, Replied
  <2> QED BY <2>4, <2>5 DEF StationAt
<1>16. Orderly'
  BY <1>1, <1>2, <1>10, <1>12, <1>13, <1>14, <1>15, OrderlySame
<1> QED BY <1>13, <1>16

\* A step of the flush: the context before goes on to be logged, or is replaced.
LEMMA FlushOn ==
  ASSUME IInv, IInv', Orderly, NEW c \in Conns, conn[c] = "open", Flushing(c),
         \A d \in Conns \ {c} : ServiceState(d)' = ServiceState(d),
         \/ r2c'[c] \in {"task", "log"} /\ UNCHANGED <<newCtx[c], cachedCtx[c], cachedBuf[c]>>
         \/ r2c'[c] = "respond" /\ cachedCtx'[c] = newCtx[c] /\ cachedBuf'[c] = data[c],
         UNCHANGED redis, TasksWhole',
         UNCHANGED <<reqs[c], toProxy[c], rbuf[c], toRemote[c], executed[c], fromRemote[c],
                     data[c], c2r[c], ctx[c], chan[c]>>,
         UNCHANGED <<conn[c], clientUp[c], answered[c], inbox[c], hit[c], toClient[c]>>
  PROVE  Orderly'
<1>1. StationAt(c) /\ TidyAt(c) /\ OwedAt(c)
  BY DEF Orderly
<1>2. FlushesLast(c)
  BY <1>1, Stations
<1>3. \A n : Reply(c, n)' = Reply(c, n) /\ Buffer(c, n)' = Buffer(c, n)
  BY ReplySame
<1>4. Quitting(c)' = Quitting(c) /\ Last1(c)' = Last1(c) /\ Outstanding(c)' = Outstanding(c)
  BY DEF Quitting, Last1, Outstanding, Awaited
<1>5. StationAt(c)' /\ TidyAt(c)'
  <2>1. CASE r2c'[c] \in {"task", "log"} /\ UNCHANGED <<newCtx[c], cachedCtx[c], cachedBuf[c]>>
    <3>1. FlushesLast(c)'
      BY <1>2, <1>3, <1>4, <2>1 DEF FlushesLast, Free, Flushing, Replied
    <3>2. TidyAt(c)'
      BY <1>1, <1>4, <2>1 DEF TidyAt, CtxOf, Flushing, Replied
    <3> QED BY <3>1, <3>2 DEF StationAt
  <2>2. CASE r2c'[c] = "respond" /\ cachedCtx'[c] = newCtx[c] /\ cachedBuf'[c] = data[c]
    <3>1. Replied(c)' = Last1(c) /\ Last1(c) # 1 /\ Last1(c) \in executed[c]
      <4>1. Replied(c) \in 1 .. Last1(c) - 1 /\ Last1(c) \in Nat
        BY <1>2, Types1 DEF FlushesLast, Last1
      <4> QED BY <1>2, <2>2, <4>1 DEF FlushesLast, Replied
    <3>2. cachedBuf'[c] \o fromRemote[c] = Buffer(c, Last1(c))
      BY <1>2, <2>2, <3>1 DEF FlushesLast, Buffer
    <3>3. Returning(c)'
      BY <1>2, <1>3, <1>4, <2>2, <3>1, <3>2 DEF FlushesLast, Returning, Free
    <3>4. TidyAt(c)'
      BY <1>1, <1>2, <1>4, <2>2, <3>1 DEF TidyAt, CtxOf, Flushing, Replied, FlushesLast
    <3> QED BY <3>3, <3>4 DEF StationAt
  <2> QED BY <2>1, <2>2
<1>6. \A d \in Conns : Grows(d) /\ executed[d] \subseteq executed'[d]
  <2> TAKE d \in Conns
  <2>1. CASE d = c
    BY <2>1 DEF Grows
  <2>2. CASE d # c
    BY <2>2, StateParts DEF Grows
  <2> QED BY <2>1, <2>2
<1>7. ~Waiting(c)' /\ Coming(c)' = Coming(c)
  BY <1>2, WaitsNoMore, ComingSame DEF FlushesLast, Free
<1>8. OwedAt(c)'
  BY <1>1, <1>4, <1>6, <1>7, OwedStays
<1>9. RedisWhole'
  <2>1. \A d \in Conns : TidyAt(d)
    BY DEF Orderly
  <2> QED BY <1>6, <2>1, KeptStays DEF Orderly, RedisWhole
<1> QED BY <1>5, <1>6, <1>8, <1>9, OrderlyNext

\* What log-or-install does.
LEMMA LogOrInstallDoes ==
  ASSUME IInv, NEW c \in Conns, LogOrInstall(c) \/ Install(c)
  PROVE  \/ r2c'[c] \in {"task", "log"} /\ UNCHANGED <<newCtx[c], cachedCtx[c], cachedBuf[c]>>
         \/ r2c'[c] = "respond" /\ cachedCtx'[c] = newCtx[c] /\ cachedBuf'[c] = data[c]
BY FlowFunctions, Functions1 DEF LogOrInstall, Install, Replace, Goto, Put

\* What is queued to be stored stays whole when nothing is queued, and no request made.
LEMMA TasksStay ==
  ASSUME IInv, IInv', Orderly, UNCHANGED <<reqs, executed, tasks>>
  PROVE  TasksWhole'
<1>1. \A d \in Conns : TidyAt(d) /\ Grows(d) /\ executed[d] \subseteq executed'[d]
  BY DEF Orderly, Grows
<1> QED BY <1>1, KeptStays DEF Orderly, TasksWhole

LEMMA FinishOrderly ==
  ASSUME IInv, IInv', Orderly, NEW c \in Conns, R2CFinish(c)
  PROVE  Orderly'
<1>1. \A d \in Conns \ {c} : ServiceState(d)' = ServiceState(d)
  BY Elsewhere1 DEF R2C
<1>2. /\ conn[c] = "open" /\ Flushing(c)
      /\ UNCHANGED <<conn, clientUp, reqs, answered, inbox, executed, c2r, rbuf, ctx, hit, data>>
      /\ UNCHANGED <<toProxy, toRemote, fromRemote, toClient, chan, redis, tasks>>
  BY DEF R2CFinish, At, Flushing, clientVars, remoteVars, c2rVars, sockets, jobVars
<1>3. \/ r2c'[c] \in {"task", "log"} /\ UNCHANGED <<newCtx[c], cachedCtx[c], cachedBuf[c]>>
      \/ r2c'[c] = "respond" /\ cachedCtx'[c] = newCtx[c] /\ cachedBuf'[c] = data[c]
  BY LogOrInstallDoes, FlowFunctions DEF R2CFinish, Goto, Put
<1>4. TasksWhole'
  BY <1>2, TasksStay
<1> QED BY <1>1, <1>2, <1>3, <1>4, FlushOn

LEMMA RemoteLogOrderly ==
  ASSUME IInv, IInv', Orderly, NEW c \in Conns, R2CLog(c)
  PROVE  Orderly'
<1>1. \A d \in Conns \ {c} : ServiceState(d)' = ServiceState(d)
  BY Elsewhere1 DEF R2C
<1>2. /\ conn[c] = "open" /\ Flushing(c)
      /\ UNCHANGED <<conn, clientUp, reqs, answered, inbox, executed, c2r, rbuf, ctx, hit, data>>
      /\ UNCHANGED <<toProxy, toRemote, fromRemote, toClient, chan, redis, tasks>>
  BY DEF R2CLog, SendLog, At, Flushing, clientVars, remoteVars, c2rVars, sockets
<1>3. \/ r2c'[c] \in {"task", "log"} /\ UNCHANGED <<newCtx[c], cachedCtx[c], cachedBuf[c]>>
      \/ r2c'[c] = "respond" /\ cachedCtx'[c] = newCtx[c] /\ cachedBuf'[c] = data[c]
  BY LogOrInstallDoes DEF R2CLog
<1>4. TasksWhole'
  BY <1>2, TasksStay
<1> QED BY <1>1, <1>2, <1>3, <1>4, FlushOn

\* The reply that is queued to be stored is whole, and that of a statement which is
\* not the login.
LEMMA TaskOrderly ==
  ASSUME OneAtATime, IInv, IInv', Orderly, NEW c \in Conns, R2CTask(c)
  PROVE  Orderly'
<1>1. \A d \in Conns \ {c} : ServiceState(d)' = ServiceState(d)
  BY Elsewhere1 DEF R2C
<1>2. /\ conn[c] = "open" /\ r2c[c] = "task"
      /\ UNCHANGED <<conn, clientUp, reqs, answered, inbox, executed, c2r, rbuf, ctx, hit, data>>
      /\ UNCHANGED <<toProxy, toRemote, fromRemote, toClient, chan, redis>>
      /\ tasks' = Append(tasks, Task(cachedCtx[c], cachedBuf[c]))
  BY DEF R2CTask, SendTask, At, clientVars, remoteVars, c2rVars, sockets
<1>3. \/ r2c'[c] \in {"task", "log"} /\ UNCHANGED <<newCtx[c], cachedCtx[c], cachedBuf[c]>>
      \/ r2c'[c] = "respond" /\ cachedCtx'[c] = newCtx[c] /\ cachedBuf'[c] = data[c]
  BY LogOrInstallDoes DEF R2CTask
<1>4. StationAt(c) /\ TidyAt(c) /\ Flushing(c)
  BY <1>2 DEF Orderly, Flushing
<1>5. FlushesLast(c)
  BY <1>2, <1>4, Stations
<1> DEFINE n == Replied(c)
           task == Task(cachedCtx[c], cachedBuf[c])
<1>6. Kept(task)
  <2>1. n \in 1 .. Last1(c) - 1 /\ cachedBuf[c] = Buffer(c, n)
    BY <1>5 DEF FlushesLast
  <2>2. cachedCtx[c].sql = reqs[c][n] /\ n \in executed[c]
    <3>1. cachedCtx[c] # NoCtx
      BY <2>1 DEF Replied, NoCtx, NewCtx
    <3> QED BY <1>4, <3>1 DEF TidyAt, CtxOf, Replied
  <2>3. reqs[c][n] \in Cacheable
    BY <1>2, <2>2 DEF IInv, CacheableOnly, CacheableAt, Storable
  <2>4. reqs[c] # <<>>
    BY <2>1, Types1 DEF Last1
  <2>5. n # 1
    BY <1>4, <2>3, <2>4 DEF TidyAt, OneAtATime
  <2>6. n < Len(reqs[c])
    BY <2>1, Types1 DEF Last1
  <2>7. task.key = StoreKey[reqs[c][n]] /\ task.body = Reply(c, n)
    BY <2>1, <2>2, <2>5 DEF Task, Buffer
  <2> HIDE DEF task, n
  <2> QED BY <2>2, <2>3, <2>6, <2>7 DEF Kept
<1>7. TasksWhole'
  <2> HIDE DEF task
  <2>1. \A d \in Conns : TidyAt(d) /\ Grows(d) /\ executed[d] \subseteq executed'[d]
    BY <1>2 DEF Orderly, Grows
  <2>2. \A i \in DOMAIN tasks' : (i \in DOMAIN tasks /\ tasks'[i] = tasks[i]) \/ tasks'[i] = task
    <3> DEFINE T == [key : Keys, body : Seq(PartSet)]
    <3>1. tasks \in Seq(T) /\ tasks' \in Seq(T) /\ tasks' = Append(tasks, task)
      BY <1>2 DEF IInv, TypeOK, JobsTypeOK, task
    <3> HIDE DEF T
    <3>2. /\ DOMAIN tasks = 1 .. Len(tasks) /\ Len(tasks) \in Nat
          /\ DOMAIN tasks' = 1 .. Len(tasks) + 1
      BY <3>1, LenProperties
    <3> QED BY <3>1, <3>2
  <2>3. \A i \in DOMAIN tasks' : Kept(tasks'[i])
    BY <1>6, <2>2 DEF Orderly, TasksWhole
  <2> QED BY <2>1, <2>3, KeptStays DEF TasksWhole
<1> QED BY <1>1, <1>2, <1>3, <1>4, <1>7, FlushOn

LEMMA RespondOrderly ==
  ASSUME IInv, IInv', Orderly, NEW c \in Conns, R2CRespond(c)
  PROVE  Orderly'
<1>1. \A d \in Conns \ {c} : ServiceState(d)' = ServiceState(d)
  BY Elsewhere1 DEF R2C
<1>2. /\ conn[c] = "open" /\ r2c[c] = "respond" /\ r2c'[c] = "write"
      /\ UNCHANGED <<conn, clientUp, reqs, answered, inbox, executed, c2r, rbuf, ctx, hit, data,
                     newCtx, cachedCtx, cachedBuf>>
      /\ UNCHANGED <<toProxy, toRemote, fromRemote, toClient, chan, redis, tasks>>
  BY FlowFunctions DEF R2CRespond, At, Goto, Put, clientVars, remoteVars, c2rVars, sockets,
     jobVars
<1>3. StationAt(c) /\ TidyAt(c)
  BY DEF Orderly
<1>4. Returning(c)
  BY <1>2, <1>3, Stations
<1>5. \A n : Buffer(c, n)' = Buffer(c, n)
  BY <1>2, ReplySame
<1>6. Returning(c)'
  BY <1>2, <1>4, <1>5 DEF Returning, Free, Quitting, Last1, Replied
<1>7. TidyAt(c)'
  BY <1>2, <1>3 DEF TidyAt, CtxOf, Last1, Flushing, Replied
<1>8. ~Waiting(c)' /\ Coming(c)' = Coming(c)
  BY <1>2, <1>4, WaitsNoMore, ComingSame DEF Returning, Free
<1> QED BY <1>1, <1>2, <1>6, <1>7, <1>8, OrderlySame DEF StationAt

\* A client that is there gets what is written, and one that has left with all its
\* answers is written nothing.
LEMMA RemoteWriteOrderly ==
  ASSUME IInv, IInv', Orderly, NEW c \in Conns, R2CWrite(c)
  PROVE  Orderly' /\ (Present(c) => Coming(c)' = Coming(c))
<1>1. \A d \in Conns \ {c} : ServiceState(d)' = ServiceState(d)
  BY Elsewhere1 DEF R2C
<1>2. /\ conn[c] = "open" /\ r2c[c] = "write" /\ r2c'[c] = "read" /\ data'[c] = <<>>
      /\ toClient'[c] = IF clientUp[c] THEN toClient[c] \o data[c] ELSE toClient[c]
      /\ UNCHANGED <<conn, clientUp, reqs, answered, inbox, executed, c2r, rbuf, ctx, hit,
                     newCtx, cachedCtx, cachedBuf>>
      /\ UNCHANGED <<toProxy, toRemote, fromRemote, chan, redis, tasks>>
  BY FlowFunctions, Functions1 DEF R2CWrite, At, Goto, Put, ToClient, clientVars, remoteVars,
     c2rVars, shared, jobVars
<1>3. StationAt(c) /\ TidyAt(c) /\ OwedAt(c)
  BY DEF Orderly
<1>4. Returning(c) /\ data[c] # <<>> /\ hit[c] = <<>>
  BY <1>2, <1>3, Stations DEF Returning, Free
<1>5. \A n : Buffer(c, n)' = Buffer(c, n)
  BY <1>2, ReplySame
<1>6. StationAt(c)'
  <2>1. CASE fromRemote[c] # <<>>
    <3>1. Returning(c)'
      BY <1>2, <1>4, <1>5, <2>1 DEF Returning, Free, Quitting, Last1, Replied
    <3> QED BY <3>1 DEF StationAt
  <2>2. CASE fromRemote[c] = <<>>
    <3>1. cachedBuf[c] = Buffer(c, Last1(c))
      <4>1. cachedBuf[c] \o <<>> = cachedBuf[c]
        BY Types1, ConcatEmptySeq
      <4> QED BY <1>4, <2>2, <4>1 DEF Returning
    <3>2. Replied(c) = 0 => Last1(c) <= 1
      BY <1>4 DEF Returning
    <3>3. Resting(c)'
      BY <1>2, <1>4, <1>5, <2>2, <3>1, <3>2 DEF Resting, Returning, Replied, Last1
    <3>4. Served(c)'
      BY <1>2, <1>4, <3>3 DEF Served, Returning, Free, Replied, Last1
    <3> QED BY <3>4 DEF StationAt
  <2> QED BY <2>1, <2>2
<1>7. TidyAt(c)'
  BY <1>2, <1>3 DEF TidyAt, CtxOf, Last1, Flushing, Replied
<1>8. ~Waiting(c)'
  BY <1>2, <1>4, WaitsNoMore DEF Returning, Free
<1>9. ASSUME Present(c) PROVE Coming(c)' = Coming(c)
  <2>1. clientUp[c]
    BY <1>3, <1>4, <1>9, ComingEmpty, Types1 DEF OwedAt
  <2>2. Coming(c)' = inbox[c] \o (toClient[c] \o data[c]) \o <<>> \o <<>> \o fromRemote[c]
    BY <1>2, <1>4, <2>1 DEF Coming
  <2>3. inbox[c] \o (toClient[c] \o data[c]) \o <<>> \o <<>>
          = inbox[c] \o toClient[c] \o <<>> \o data[c]
    <3> DEFINE a == inbox[c]
               b == toClient[c]
               h == data[c]
    <3>1. a \in Seq(PartSet) /\ b \in Seq(PartSet) /\ h \in Seq(PartSet)
      BY Types1
    <3> HIDE DEF a, b, h
    <3>2. a \o (b \o h) \o <<>> \o <<>> = a \o b \o <<>> \o h
      BY <3>1, ComingMoves
    <3> QED BY <3>2 DEF a, b, h
  <2> QED BY <1>4, <2>2, <2>3 DEF Coming
<1>10. Orderly'
  BY <1>1, <1>2, <1>6, <1>7, <1>8, <1>9, OrderlySame
<1> QED BY <1>9, <1>10
-----------------------------------------------------------------------------
(***************************************************************************)
(* The steps of the peers and of the jobs.                                 *)
(***************************************************************************)
\* An answer alone on its way is all that is coming.
LEMMA ComingAlone ==
  ASSUME NEW S, NEW f \in Seq(S)
  PROVE  <<>> \o <<>> \o <<>> \o <<>> \o f = f
<1>1. <<>> \o <<>> \o <<>> \o <<>> = <<>>
  BY EmptySeq, ConcatEmptySeq
<1> QED BY <1>1, ConcatEmptySeq

\* The greeting is the first answer.
LEMMA AcceptOrderly ==
  ASSUME IInv, IInv', Orderly, NEW c \in Conns, Accept(c)
  PROVE  Orderly' /\ (Coming(c)' = Coming(c) \/ Coming(c)' = Reply(c, 0))
<1>1. \A d \in Conns \ {c} : ServiceState(d)' = ServiceState(d)
  BY Elsewhere1
<1>2. /\ conn[c] = "new"
      /\ UNCHANGED <<clientUp, reqs, answered, inbox, executed, c2r, rbuf, ctx, hit, r2c,
                     data, newCtx, cachedCtx, cachedBuf>>
      /\ UNCHANGED <<toProxy, toRemote, toClient, chan, redis, tasks>>
  BY DEF Accept, clientVars, remoteVars, c2rVars, r2cVars, shared, jobVars
<1>3. StationAt(c) /\ TidyAt(c) /\ OwedAt(c) /\ Unborn(c) /\ Waiting(c)
  BY <1>2 DEF Orderly, TidyAt, Waiting
<1>4. CASE UNCHANGED <<conn, fromRemote>>
  <2>1. Orderly'
    BY <1>2, <1>4, OrderlyStays DEF ServiceState, FlowState
  <2>2. Coming(c)' = Coming(c)
    BY <1>2, <1>4, ComingSame
  <2> QED BY <2>1, <2>2
<1>5. CASE Close(c) /\ UNCHANGED fromRemote
  <2>1. conn'[c] = "closed"
    BY <1>5, Functions1 DEF Close
  <2>2. Unborn(c)'
    BY <1>2, <1>3, <1>5, <2>1 DEF Unborn, Free, NoCtx, NewCtx
  <2>3. TidyAt(c)'
    BY <1>2, <1>3, <1>5, <2>1 DEF TidyAt, CtxOf, Last1, Flushing, Replied
  <2>4. Coming(c)' = Coming(c)
    BY <1>2, <1>5, ComingSame
  <2>5. Orderly'
    BY <1>1, <1>2, <1>3, <2>2, <2>3, <2>4, OrderlySame DEF StationAt
  <2> QED BY <2>4, <2>5
<1>6. CASE conn' = Put(conn, c, "open") /\ fromRemote' = Put(fromRemote, c, Reply(c, 0))
  <2>1. conn'[c] = "open" /\ fromRemote'[c] = Reply(c, 0)
    BY <1>6, FlowFunctions, Functions1 DEF Put
  <2>2. Reply(c, 0) \in Seq(PartSet) /\ Reply(c, 0) # <<>>
    BY ReplyType DEF IInv, TypeOK
  <2>3. Reply(c, 0)' = Reply(c, 0) /\ Buffer(c, 0)' = Buffer(c, 0) /\ Buffer(c, 0) = Reply(c, 0)
    BY <1>2, ReplySame DEF Buffer
  <2>4. Last1(c)' = 0 /\ ~Quitting(c)' /\ Replied(c)' = 0
    BY <1>2, <1>3, EmptySeq DEF Unborn, Last1, Quitting, Replied, NoCtx, NewCtx
  <2>5. <<>> \o Reply(c, 0) = Reply(c, 0)
    BY <2>2, ConcatEmptySeq
  <2>6. Returning(c)'
    BY <1>2, <1>3, <2>1, <2>2, <2>3, <2>4, <2>5 DEF Unborn, Returning, Free
  <2>7. TidyAt(c)'
    BY <1>2, <1>3, <2>1 DEF TidyAt, CtxOf, Last1, Flushing, Replied
  <2>8. ~Waiting(c)'
    BY <1>2, <1>3, <2>1, WaitsNoMore DEF Unborn, Free
  <2>9. Coming(c)' = Reply(c, 0)
    <3>1. Coming(c)' = <<>> \o <<>> \o <<>> \o <<>> \o Reply(c, 0)
      BY <1>2, <1>3, <2>1 DEF Unborn, Coming, Free
    <3> QED BY <2>2, <3>1, ComingAlone
  <2>10. IsAnswer(Coming(c))'
    BY <2>3, <2>9 DEF IsAnswer
  <2>11. Outstanding(c)' = Outstanding(c) /\ Present(c)' = Present(c)
    BY <1>2 DEF Outstanding, Awaited, Present
  <2>12. OwedAt(c)'
    BY <1>2, <1>3, <2>4, <2>8, <2>10, <2>11 DEF OwedAt
  <2>13. Grows(c) /\ executed[c] \subseteq executed'[c]
    BY <1>2 DEF Grows
  <2>14. Orderly'
    BY <1>1, <1>2, <2>6, <2>7, <2>12, <2>13, OrderlyQuiet DEF StationAt
  <2> QED BY <2>9, <2>14
<1> QED BY <1>4, <1>5, <1>6 DEF Accept

\* The answers a client waits for can be counted.
LEMMA AwaitedCounted ==
  ASSUME IInv, NEW c \in Conns
  PROVE  IsFiniteSet(Awaited(c)) /\ Cardinality(Awaited(c)) \in Nat
<1>1. Awaited(c) \subseteq 1 .. Len(reqs[c]) /\ Len(reqs[c]) \in Nat
  BY Types1 DEF Awaited
<1>2. \A n \in Nat : 1 \in Int /\ n \in Int /\ IsFiniteSet(1 .. n)
  BY FS_Interval
<1>3. IsFiniteSet(Awaited(c))
  BY <1>1, <1>2, FS_Subset
<1> QED BY <1>3, FS_CardinalityType

\* A client waits for an answer more with each request that has one.
LEMMA AwaitsMore ==
  ASSUME IInv, NEW c \in Conns, NEW s \in Stmts, reqs'[c] = Append(reqs[c], s),
         answered'[c] = answered[c]
  PROVE  Outstanding(c)' = IF s \in Mute \cup Quits THEN Outstanding(c) ELSE Outstanding(c) + 1
<1>1. /\ Len(reqs[c]) \in Nat /\ DOMAIN reqs[c] = 1 .. Len(reqs[c])
      /\ DOMAIN reqs'[c] = 1 .. Len(reqs[c]) + 1
      /\ \A n \in DOMAIN reqs[c] : reqs'[c][n] = reqs[c][n]
      /\ reqs'[c][Len(reqs[c]) + 1] = s
  BY Types1, AppendProperties, LenProperties
<1>2. IsFiniteSet(Awaited(c))
  BY AwaitedCounted
<1>3. Cardinality(Awaited(c)) \in Nat /\ answered[c] \in Nat
  BY AwaitedCounted, Types1
<1>4. CASE s \in Mute \cup Quits
  <2>1. Awaited(c)' = Awaited(c)
    BY <1>1, <1>4 DEF Awaited
  <2> QED BY <1>4, <2>1 DEF Outstanding
<1>5. CASE s \notin Mute \cup Quits
  <2>1. Awaited(c)' = Awaited(c) \cup {Len(reqs[c]) + 1} /\ Len(reqs[c]) + 1 \notin Awaited(c)
    BY <1>1, <1>5 DEF Awaited
  <2>2. Cardinality(Awaited(c)') = Cardinality(Awaited(c)) + 1
    BY <1>2, <2>1, FS_AddElement
  <2> QED BY <1>3, <1>5, <2>2 DEF Outstanding
<1> QED BY <1>4, <1>5

\* A client only sends when no request of its is open.
LEMMA SendsWhenServed ==
  ASSUME OneAtATime, IInv, Orderly, NEW c \in Conns, NEW s \in Stmts, ClientSend(c, s)
  PROVE  Served(c) /\ Outstanding(c) = 0 /\ Coming(c) = <<>>
<1>1. /\ conn[c] = "open" /\ clientUp[c] /\ ~\E n \in DOMAIN reqs[c] : reqs[c][n] \in Quits
      /\ Outstanding(c) < 1
  BY DEF ClientSend, OneAtATime
<1>2. StationAt(c) /\ TidyAt(c) /\ OwedAt(c) /\ Present(c)
  BY <1>1 DEF Orderly, Present
<1>3. Outstanding(c) = 0 /\ Coming(c) = <<>> /\ ~Waiting(c)
  BY <1>1, <1>2 DEF OwedAt
<1>4. hit[c] = <<>> /\ data[c] = <<>> /\ fromRemote[c] = <<>>
  BY <1>3, ComingEmpty
<1>5. ~Quitting(c)
  <2>1. Last1(c) # 0 => Last1(c) \in DOMAIN reqs[c]
    BY Types1 DEF Last1
  <2> QED BY <1>1, <2>1 DEF Quitting
<1>6. ~Unborn(c) /\ ~Asked(c) /\ ~Held(c) /\ ~Passed(c) /\ ~AtMySQL(c) /\ ~Left(c)
  BY <1>1, <1>3, <1>4, <1>5 DEF Waiting, Unborn, Held, Left
<1>7. ~Made(c)
  <2>1. SUFFICES ASSUME Made(c) PROVE FALSE
    OBVIOUS
  <2>2. Last1(c) \in DOMAIN reqs[c]
    BY <1>2, <2>1 DEF Made, TidyAt
  <2>3. Reply(c, Last1(c)) # <<>>
    BY <2>2, Types1, ReplyType DEF IInv, TypeOK
  <2> QED BY <1>4, <2>1, <2>3 DEF Made
<1>8. ~FlushesLast(c) /\ ~Returning(c)
  BY <1>4 DEF FlushesLast, Returning
<1> QED BY <1>2, <1>3, <1>6, <1>7, <1>8 DEF StationAt

LEMMA ClientSendOrderly ==
  ASSUME OneAtATime, IInv, IInv', Orderly, NEW c \in Conns, NEW s \in Stmts, ClientSend(c, s)
  PROVE  Orderly'
<1>1. \A d \in Conns \ {c} : ServiceState(d)' = ServiceState(d)
  BY Elsewhere1 DEF Client
<1>2. /\ conn[c] = "open" /\ clientUp[c] /\ ~\E n \in DOMAIN reqs[c] : reqs[c][n] \in Quits
      /\ s = Login <=> reqs[c] = <<>>
      /\ reqs'[c] = Append(reqs[c], s)
      /\ toProxy'[c] = toProxy[c] \o [i \in DOMAIN Frames[s] |-> [n |-> Len(reqs[c]) + 1, i |-> i]]
      /\ UNCHANGED <<conn, clientUp, answered, inbox, executed, c2r, rbuf, ctx, hit, r2c,
                     data, newCtx, cachedCtx, cachedBuf>>
      /\ UNCHANGED <<toRemote, fromRemote, toClient, chan, redis, tasks>>
  BY FlowFunctions DEF ClientSend, Put, remoteVars, c2rVars, r2cVars, shared, jobVars
<1>3. StationAt(c) /\ TidyAt(c) /\ OwedAt(c) /\ Present(c)
  BY <1>2 DEF Orderly, Present
<1>4. Served(c) /\ Outstanding(c) = 0 /\ Coming(c) = <<>>
  BY SendsWhenServed
<1> DEFINE K == Last1(c)
<1>5. /\ K \in Nat /\ DOMAIN reqs[c] = 1 .. K /\ Last1(c)' = K + 1 /\ DOMAIN reqs'[c] = 1 .. K + 1
      /\ \A n \in DOMAIN reqs[c] : reqs'[c][n] = reqs[c][n]
      /\ reqs'[c][K + 1] = s
  BY <1>2, Types1, AppendProperties, LenProperties DEF Last1
<1>6. Grows(c)
  BY <1>5 DEF Grows
<1> HIDE DEF K
<1>7. toProxy'[c] = Packet1(K + 1)
  <2> DEFINE p == [i \in DOMAIN Frames[s] |-> [n |-> Len(reqs[c]) + 1, i |-> i]]
  <2>1. Len(Frames[s]) = 1 /\ Frames[s] \in Seq(FrameTypes)
    BY SessionAssumption DEF OneAtATime, SessionAssumption
  <2>2. DOMAIN Frames[s] = {1}
    BY <2>1, LenProperties
  <2>3. p = Packet1(K + 1)
    BY <2>2 DEF Packet1, K, Last1
  <2>4. p \in Seq(Units)
    <3>1. Len(reqs[c]) + 1 \in Nat
      BY Types1
    <3>2. p = [i \in DOMAIN Frames[s] |-> [n |-> Len(reqs[c]) + 1, i |-> i]]
      OBVIOUS
    <3> HIDE DEF p
    <3> QED BY <2>1, <3>1, <3>2, NewPacket
  <2> HIDE DEF p
  <2>5. toProxy[c] = <<>>
    BY <1>4 DEF Served
  <2>6. <<>> \o p = p
    BY <2>4, ConcatEmptySeq
  <2> QED BY <1>2, <2>3, <2>5, <2>6 DEF p
<1>8. Buffer(c, Replied(c))' = Buffer(c, Replied(c)) /\ Replied(c)' = Replied(c)
  <2>1. Replied(c) = 0 \/ Replied(c) \in DOMAIN reqs[c]
    BY <1>3 DEF TidyAt, CtxOf, Replied, NoCtx, NewCtx
  <2>2. Replied(c) = 1 => Reply(c, 0)' = Reply(c, 0)
    BY <1>6, ReplyStays
  <2>3. Replied(c)' = Replied(c)
    BY <1>2 DEF Replied
  <2>4. Reply(c, Replied(c))' = Reply(c, Replied(c))
    BY <1>6, <2>1, <2>3, ReplyStays
  <2> QED BY <2>2, <2>3, <2>4 DEF Buffer
<1>9. Asked(c)'
  <2>1. K + 1 \notin executed[c]
    BY <1>3, <1>5 DEF TidyAt
  <2>2. Resting(c)'
    BY <1>2, <1>4, <1>5, <1>8 DEF Served, Resting, K
  <2> QED BY <1>2, <1>4, <1>5, <1>7, <2>1, <2>2 DEF Asked, Served, Free
<1>10. TidyAt(c)'
  <2>1. reqs'[c][1] = Login
    <3>1. CASE reqs[c] = <<>>
      <4>1. K = 0
        BY <3>1, EmptySeq DEF K, Last1
      <4> QED BY <1>2, <1>5, <3>1, <4>1
    <3>2. CASE reqs[c] # <<>>
      <4>1. 1 \in DOMAIN reqs[c]
        BY <3>2, Types1, EmptySeq
      <4> QED BY <1>3, <1>5, <3>2, <4>1 DEF TidyAt
    <3> QED BY <3>1, <3>2
  <2>2. \A n \in DOMAIN reqs'[c] : reqs'[c][n] \in Quits => n = K + 1
    BY <1>2, <1>5
  <2>3. \A x : CtxOf(c, x) => CtxOf(c, x)'
    BY <1>5 DEF CtxOf
  <2>4. executed'[c] \subseteq DOMAIN reqs'[c]
    BY <1>2, <1>3, <1>5 DEF TidyAt
  <2>5. /\ c2r[c] \in {"lock", "exists", "get", "send", "reply"} => CtxOf(c, ctx[c])'
        /\ \A i \in DOMAIN chan[c] : CtxOf(c, chan[c][i])'
        /\ Flushing(c) => CtxOf(c, newCtx[c])'
        /\ cachedCtx[c] = NoCtx \/ (CtxOf(c, cachedCtx[c])' /\ Replied(c) \in executed[c])
    BY <1>2, <1>3, <2>3 DEF TidyAt
  <2>6. Flushing(c)' = Flushing(c)
    BY <1>2 DEF Flushing
  <2> QED BY <1>2, <1>3, <1>5, <1>8, <2>1, <2>2, <2>4, <2>5, <2>6 DEF TidyAt
<1>11. Outstanding(c)' = IF s \in Quits THEN 0 ELSE 1
  BY <1>2, <1>4, AwaitsMore DEF OneAtATime
<1>12. Quitting(c)' <=> s \in Quits
  BY <1>5 DEF Quitting
<1>13. Coming(c)' = <<>>
  BY <1>2, <1>4, ComingSame
<1>14. OwedAt(c)'
  BY <1>2, <1>11, <1>12, <1>13 DEF OwedAt, Waiting
<1> QED BY <1>1, <1>2, <1>6, <1>9, <1>10, <1>14, OrderlyQuiet DEF StationAt

LEMMA JoinKeeps ==
  ASSUME NEW S, NEW u \in Seq(S), NEW v \in Seq(S), NEW i \in 1 .. Len(u)
  PROVE  /\ u \o v \in Seq(S) /\ Len(u \o v) = Len(u) + Len(v) /\ (u \o v)[i] = u[i]
         /\ i \in 1 .. Len(u \o v)
<1>1. Len(u) \in Nat /\ Len(v) \in Nat
  BY LenProperties
<1> QED BY <1>1, ConcatProperties

\* The first part that is coming, read by the client, is the one after those it has
\* read; if it is the last one, nothing is left to come.
LEMMA FirstComing ==
  ASSUME IInv, NEW c \in Conns, toClient[c] # <<>>
  PROVE  LET a == inbox[c]
             b == toClient[c]
             all == Coming(c)
         IN /\ Len(a) + 1 \in DOMAIN all /\ all[Len(a) + 1] = Head(b)
            /\ Len(all) = Len(a) + 1 => Tail(b) = <<>> /\ hit[c] = <<>> /\ data[c] = <<>>
                                        /\ fromRemote[c] = <<>>
            /\ Append(a, Head(b)) \o Tail(b) = a \o b
<1> DEFINE S == PartSet
           a == inbox[c]
           b == toClient[c]
           h == hit[c]
           d == data[c]
           f == fromRemote[c]
<1>0. /\ a \in Seq(S) /\ b \in Seq(S) /\ b # <<>> /\ h \in Seq(S) /\ d \in Seq(S)
      /\ f \in Seq(S)
  BY Types1
<1> DEFINE coming == a \o b \o h \o d \o f
<1>c. Coming(c) = coming
  BY DEF Coming
<1> HIDE DEF S, a, b, h, d, f
<1> USE <1>0
<1> DEFINE ab == a \o b
           abh == ab \o h
           abhd == abh \o d
           all == abhd \o f
           k == Len(a) + 1
<1>1. /\ Len(a) \in Nat /\ Len(b) \in Nat \ {0} /\ Len(h) \in Nat /\ Len(d) \in Nat
      /\ Len(f) \in Nat
  BY EmptySeq, LenProperties
<1>2. /\ ab \in Seq(S) /\ Len(ab) = Len(a) + Len(b) /\ ab[k] = b[1]
      /\ k \in 1 .. Len(ab)
  <2>1. /\ ab \in Seq(S) /\ Len(ab) = Len(a) + Len(b)
        /\ \A i \in 1 .. Len(a) + Len(b) :
             ab[i] = IF i <= Len(a) THEN a[i] ELSE b[i - Len(a)]
    BY ConcatProperties
  <2> HIDE DEF ab
  <2>2. k \in 1 .. Len(a) + Len(b) /\ ~(k <= Len(a)) /\ k - Len(a) = 1
    BY <1>1
  <2> HIDE DEF k
  <2> QED BY <2>1, <2>2
<1> HIDE DEF k
<1> HIDE DEF ab
<1>3. /\ abh \in Seq(S) /\ Len(abh) = Len(ab) + Len(h) /\ abh[k] = b[1]
      /\ k \in 1 .. Len(abh)
  <2>1. ab \in Seq(S) /\ k \in 1 .. Len(ab)
    BY <1>2
  <2>2. /\ abh \in Seq(S) /\ Len(abh) = Len(ab) + Len(h) /\ abh[k] = ab[k]
        /\ k \in 1 .. Len(abh)
    BY <2>1, JoinKeeps
  <2> HIDE DEF abh
  <2> QED BY <1>2, <2>2
<1> HIDE DEF abh
<1>4. /\ abhd \in Seq(S) /\ Len(abhd) = Len(abh) + Len(d) /\ abhd[k] = b[1]
      /\ k \in 1 .. Len(abhd)
  <2>1. abh \in Seq(S) /\ k \in 1 .. Len(abh)
    BY <1>3
  <2>2. /\ abhd \in Seq(S) /\ Len(abhd) = Len(abh) + Len(d) /\ abhd[k] = abh[k]
        /\ k \in 1 .. Len(abhd)
    BY <2>1, JoinKeeps
  <2> HIDE DEF abhd
  <2> QED BY <1>3, <2>2
<1> HIDE DEF abhd
<1>5. /\ all \in Seq(S) /\ Len(all) = Len(abhd) + Len(f) /\ all[k] = b[1]
      /\ k \in 1 .. Len(all)
  <2>1. abhd \in Seq(S) /\ k \in 1 .. Len(abhd)
    BY <1>4
  <2>2. /\ all \in Seq(S) /\ Len(all) = Len(abhd) + Len(f) /\ all[k] = abhd[k]
        /\ k \in 1 .. Len(all)
    BY <2>1, JoinKeeps
  <2> HIDE DEF all
  <2> QED BY <1>4, <2>2
<1> HIDE DEF all
<1>6. k \in DOMAIN all
  BY <1>5, LenProperties
<1>7. ASSUME Len(all) = k
      PROVE  Tail(b) = <<>> /\ h = <<>> /\ d = <<>> /\ f = <<>>
  <2> DEFINE la == Len(a)
             lb == Len(b)
             lh == Len(h)
             ld == Len(d)
             lf == Len(f)
  <2>1. la \in Nat /\ lb \in Nat \ {0} /\ lh \in Nat /\ ld \in Nat /\ lf \in Nat
    BY <1>1
  <2>2. la + lb + lh + ld + lf = la + 1
    BY <1>2, <1>3, <1>4, <1>5, <1>7 DEF k
  <2> HIDE DEF la, lb, lh, ld, lf
  <2>3. lb = 1 /\ lh = 0 /\ ld = 0 /\ lf = 0
    BY <2>1, <2>2
  <2>4. Len(Tail(b)) = 0 /\ Tail(b) \in Seq(S)
    BY <2>3, HeadTailProperties DEF lb
  <2> QED BY <2>3, <2>4, EmptySeq DEF lh, ld, lf
<1>8. Append(a, Head(b)) \o Tail(b) = ab
  <2> DEFINE l == Append(a, Head(b)) \o Tail(b)
             p == Append(a, Head(b))
  <2>1. /\ Head(b) = b[1] /\ Head(b) \in S /\ Tail(b) \in Seq(S) /\ Len(Tail(b)) = Len(b) - 1
        /\ \A i \in 1 .. Len(Tail(b)) : Tail(b)[i] = b[i + 1]
    BY HeadTailProperties
  <2>2. /\ p \in Seq(S) /\ Len(p) = Len(a) + 1 /\ \A i \in 1 .. Len(a) : p[i] = a[i]
        /\ p[Len(a) + 1] = b[1]
    BY <2>1, AppendProperties
  <2> HIDE DEF p
  <2>3. /\ l \in Seq(S) /\ Len(l) = Len(a) + Len(b)
        /\ \A i \in 1 .. Len(l) : l[i] = IF i <= Len(a) + 1 THEN p[i] ELSE Tail(b)[i - Len(p)]
    BY <1>1, <2>1, <2>2, ConcatProperties DEF p
  <2>4. \A i \in 1 .. Len(ab) : ab[i] = IF i <= Len(a) THEN a[i] ELSE b[i - Len(a)]
    BY <1>1, <1>2, ConcatProperties DEF ab
  <2> HIDE DEF l
  <2>5. ASSUME NEW i \in 1 .. Len(l) PROVE l[i] = ab[i]
    <3> DEFINE pi == p[i]
               ti == Tail(b)[i - Len(p)]
    <3>0. l[i] = IF i <= Len(a) + 1 THEN pi ELSE ti
      BY <2>3
    <3> HIDE DEF pi, ti
    <3>1. CASE i <= Len(a)
      <4>1. i \in 1 .. Len(a) /\ i \in 1 .. Len(ab) /\ i <= Len(a) + 1
        BY <1>1, <1>2, <2>3, <3>1
      <4>2. p[i] = a[i] /\ ab[i] = a[i]
        BY <2>2, <2>4, <4>1, <3>1
      <4> QED BY <3>0, <4>1, <4>2 DEF pi
    <3>2. CASE i = Len(a) + 1
      <4>1. i <= Len(a) + 1 /\ ~(i <= Len(a)) /\ i - Len(a) = 1 /\ i \in 1 .. Len(ab)
        BY <1>1, <1>2, <2>3, <3>2
      <4>2. l[i] = b[1]
        BY <2>2, <3>0, <3>2, <4>1 DEF pi
      <4>3. ab[i] = b[1]
        BY <2>4, <4>1
      <4> QED BY <4>2, <4>3
    <3>3. CASE i > Len(a) + 1
      <4>1. /\ i - Len(a) - 1 \in 1 .. Len(Tail(b)) /\ (i - Len(a) - 1) + 1 = i - Len(a)
            /\ i \in 1 .. Len(ab)
        BY <1>1, <1>2, <2>1, <2>3, <3>3
      <4>2. Tail(b)[i - Len(a) - 1] = b[i - Len(a)]
        BY <2>1, <4>1
      <4>3. i - Len(p) = i - Len(a) - 1
        BY <1>1, <2>2
      <4>4. l[i] = Tail(b)[i - Len(p)]
        <5>1. ~(i <= Len(a) + 1)
          BY <1>1, <2>3, <3>3
        <5> QED BY <3>0, <5>1 DEF ti
      <4>5. ab[i] = b[i - Len(a)]
        BY <1>1, <2>4, <3>3, <4>1
      <4> QED BY <4>2, <4>3, <4>4, <4>5
    <3> QED BY <1>1, <3>1, <3>2, <3>3
  <2>6. l = ab
    BY <1>2, <2>3, <2>5, SeqEqual
  <2> QED BY <2>6 DEF l, p
<1>9. coming = all
  BY DEF coming, all, abhd, abh, ab
<1>10. b[1] = Head(b)
  BY HeadTailProperties
<1>11. /\ Len(a) + 1 \in DOMAIN coming /\ coming[Len(a) + 1] = Head(b)
       /\ Len(coming) = Len(a) + 1 => Tail(b) = <<>> /\ h = <<>> /\ d = <<>> /\ f = <<>>
       /\ Append(a, Head(b)) \o Tail(b) = a \o b
  BY <1>5, <1>6, <1>7, <1>8, <1>9, <1>10 DEF ab, k
<1> QED BY <1>c, <1>11 DEF a, b, h, d, f


LEMMA NothingComes == <<>> \o <<>> \o <<>> \o <<>> \o <<>> = <<>>
<1>1. <<>> \o <<>> = <<>>
  BY EmptySeq, ConcatEmptySeq
<1> QED BY <1>1

\* A client reads one part of its answer; the last one completes it.
LEMMA ClientRecvOrderly ==
  ASSUME IInv, IInv', Orderly, NEW c \in Conns, ClientRecv(c)
  PROVE  /\ Orderly' /\ Coming(c) # <<>> /\ Outstanding(c) = 1
         /\ \/ Coming(c)' = Coming(c) /\ Outstanding(c)' = 1
            \/ Coming(c)' = <<>> /\ Outstanding(c)' = 0
<1>1. \A d \in Conns \ {c} : ServiceState(d)' = ServiceState(d)
  BY Elsewhere1 DEF Client
<1> DEFINE p == Head(toClient[c])
           last == p.i = Len(Reply(p.c, p.n))
<1>2. /\ conn[c] = "open" /\ clientUp[c] /\ toClient[c] # <<>>
      /\ UNCHANGED <<conn, clientUp, reqs, executed, c2r, rbuf, ctx, hit, r2c, data, newCtx,
                     cachedCtx, cachedBuf>>
      /\ UNCHANGED <<toProxy, toRemote, fromRemote, chan, redis, tasks>>
  BY DEF ClientRecv, remoteVars, c2rVars, r2cVars, shared, jobVars
<1>3. /\ toClient'[c] = Tail(toClient[c])
      /\ last => inbox'[c] = <<>> /\ answered'[c] = answered[c] + 1
      /\ ~last => inbox'[c] = Append(inbox[c], p) /\ answered'[c] = answered[c]
  BY Functions1 DEF ClientRecv, Put
<1>4. StationAt(c) /\ TidyAt(c) /\ OwedAt(c) /\ Present(c)
  BY <1>2 DEF Orderly, Present
<1>5. FlowState(c)' = FlowState(c)
  BY <1>2 DEF FlowState
<1>6. /\ Asked(c)' = Asked(c) /\ Held(c)' = Held(c) /\ Passed(c)' = Passed(c)
      /\ AtMySQL(c)' = AtMySQL(c) /\ Made(c)' = Made(c) /\ Left(c)' = Left(c)
      /\ FlushesLast(c)' = FlushesLast(c) /\ Returning(c)' = Returning(c)
      /\ Served(c)' = Served(c) /\ Quitting(c)' = Quitting(c)
  BY <1>2, <1>5, PlacesSame
<1>7. StationAt(c)'
  BY <1>2, <1>4, <1>6 DEF StationAt, Unborn
<1>8. TidyAt(c)'
  BY <1>2, <1>4 DEF TidyAt, CtxOf, Last1, Flushing, Replied
<1>9. Coming(c) # <<>> /\ IsAnswer(Coming(c))
  BY <1>2, <1>4, ComingEmpty DEF OwedAt
<1>10. Outstanding(c) = 1 /\ ~Waiting(c)
  BY <1>4, <1>9 DEF OwedAt
<1>11. ~Waiting(c)'
  BY <1>2, <1>6, <1>10 DEF Waiting
<1>12. Outstanding(c)' = IF last THEN 0 ELSE 1
  <2>1. Awaited(c)' = Awaited(c)
    BY <1>2 DEF Awaited
  <2> DEFINE m == Cardinality(Awaited(c))
  <2>2. m \in Nat /\ answered[c] \in Nat
    BY AwaitedCounted, Types1
  <2>3. Outstanding(c) = 1 + m - answered[c] /\ Outstanding(c)' = 1 + m - answered'[c]
    BY <2>1 DEF Outstanding
  <2> HIDE DEF m
  <2> QED BY <1>3, <1>10, <2>2, <2>3
<1> DEFINE S == PartSet
           a == inbox[c]
           b == toClient[c]
           h == hit[c]
           d == data[c]
           f == fromRemote[c]
           all == a \o b \o h \o d \o f
<1>13. /\ a \in Seq(S) /\ b \in Seq(S) /\ b # <<>> /\ h \in Seq(S) /\ d \in Seq(S)
       /\ f \in Seq(S)
  BY <1>2, Types1
<1>14. Coming(c) = all
  BY DEF Coming
<1>15. /\ Len(a) + 1 \in DOMAIN all /\ all[Len(a) + 1] = p
       /\ Len(all) = Len(a) + 1 => Tail(b) = <<>> /\ h = <<>> /\ d = <<>> /\ f = <<>>
       /\ Append(a, p) \o Tail(b) = a \o b
  BY <1>2, <1>14, FirstComing
<1>16. last => Coming(c)' = <<>>
  <2> SUFFICES ASSUME last PROVE Coming(c)' = <<>>
    OBVIOUS
  <2>1. PICK e \in Conns : \E n \in {0} \cup DOMAIN reqs[e] : Coming(c) = Reply(e, n)
    BY <1>9 DEF IsAnswer
  <2>2. PICK n \in {0} \cup DOMAIN reqs[e] : Coming(c) = Reply(e, n)
    BY <2>1
  <2>3. Reply(e, n) = all
    BY <1>14, <2>2
  <2> HIDE DEF all, a
  <2>4. p.c = e /\ p.n = n /\ p.i = Len(a) + 1
    <3>1. Len(a) + 1 \in DOMAIN Reply(e, n) /\ Reply(e, n)[Len(a) + 1] = p
      BY <1>15, <2>3
    <3> HIDE DEF p
    <3> QED BY <3>1 DEF Reply
  <2>5. Len(all) = Len(a) + 1
    BY <2>3, <2>4
  <2>6. Tail(b) = <<>> /\ h = <<>> /\ d = <<>> /\ f = <<>>
    BY <1>15, <2>5
  <2>7. /\ inbox'[c] = <<>> /\ toClient'[c] = <<>> /\ hit'[c] = <<>> /\ data'[c] = <<>>
        /\ fromRemote'[c] = <<>>
    BY <1>2, <1>3, <2>6
  <2> QED BY <2>7, NothingComes DEF Coming
<1>17. ~last => Coming(c)' = Coming(c)
  <2> SUFFICES ASSUME ~last PROVE Coming(c)' = Coming(c)
    OBVIOUS
  <2>1. Coming(c)' = Append(a, p) \o Tail(b) \o h \o d \o f
    BY <1>2, <1>3 DEF Coming
  <2> HIDE DEF a, b, h, d, f, p
  <2> QED BY <1>14, <1>15, <2>1
<1> HIDE DEF p, last, S, a, b, h, d, f, all
<1>18. IsAnswer(Coming(c))'  \/ Coming(c)' = <<>>
  <2>1. \A e \in Conns : Grows(e)
    BY <1>2 DEF Grows
  <2>2. ~last => IsAnswer(Coming(c))'
    <3>1. IsAnswer(Coming(c))' = (\E e \in Conns : \E n \in {0} \cup DOMAIN reqs'[e] :
                                    Coming(c)' = Reply(e, n)')
      BY DEF IsAnswer
    <3>2. PICK e \in Conns : \E n \in {0} \cup DOMAIN reqs[e] : Coming(c) = Reply(e, n)
      BY <1>9 DEF IsAnswer
    <3>3. PICK n \in {0} \cup DOMAIN reqs[e] : Coming(c) = Reply(e, n)
      BY <3>2
    <3>4. Reply(e, n)' = Reply(e, n)
      BY <2>1, ReplyStays
    <3> QED BY <1>2, <1>17, <3>1, <3>3, <3>4
  <2> QED BY <1>16, <2>2
<1>19. OwedAt(c)'
  BY <1>2, <1>4, <1>6, <1>10, <1>11, <1>12, <1>16, <1>18 DEF OwedAt
<1>20. Grows(c) /\ executed[c] \subseteq executed'[c]
  BY <1>2 DEF Grows
<1>21. Orderly'
  BY <1>1, <1>2, <1>7, <1>8, <1>19, <1>20, OrderlyQuiet
<1> QED BY <1>9, <1>10, <1>12, <1>16, <1>17, <1>21

\* A client that has all its answers may leave, and so may any that is reset.
LEMMA ClientCloseOrderly ==
  ASSUME IInv, IInv', Orderly, NEW c \in Conns, ClientClose(c)
  PROVE  Orderly'
<1>1. \A d \in Conns \ {c} : ServiceState(d)' = ServiceState(d)
  BY Elsewhere1 DEF Client
<1>2. /\ conn[c] = "open" /\ clientUp[c] /\ clientUp'[c] = FALSE
      /\ Idle(c) \/ "reset" \in Faults
      /\ inbox'[c] = <<>> /\ toClient'[c] = <<>>
      /\ UNCHANGED <<conn, reqs, answered, executed, c2r, rbuf, ctx, hit, r2c, data, newCtx,
                     cachedCtx, cachedBuf>>
      /\ UNCHANGED <<toProxy, toRemote, fromRemote, chan, redis, tasks>>
  BY Functions1 DEF ClientClose, Put, remoteVars, c2rVars, r2cVars, shared, jobVars
<1>3. StationAt(c) /\ TidyAt(c) /\ OwedAt(c) /\ Present(c)
  BY <1>2 DEF Orderly, Present
<1>4. FlowState(c)' = FlowState(c)
  BY <1>2 DEF FlowState
<1>5. /\ Asked(c)' = Asked(c) /\ Held(c)' = Held(c) /\ Passed(c)' = Passed(c)
      /\ AtMySQL(c)' = AtMySQL(c) /\ Made(c)' = Made(c) /\ Left(c)' = Left(c)
      /\ FlushesLast(c)' = FlushesLast(c) /\ Returning(c)' = Returning(c)
      /\ Served(c)' = Served(c) /\ Quitting(c)' = Quitting(c)
  BY <1>2, <1>4, PlacesSame
<1>6. StationAt(c)'
  BY <1>2, <1>3, <1>5 DEF StationAt, Unborn
<1>7. TidyAt(c)'
  BY <1>2, <1>3 DEF TidyAt, CtxOf, Last1, Flushing, Replied
<1>8. Waiting(c)' = Waiting(c) /\ Outstanding(c)' = Outstanding(c)
  BY <1>2, <1>5 DEF Waiting, Outstanding, Awaited
<1>9. OwedAt(c)'
  <2> SUFFICES ASSUME Present(c)' PROVE OwedAt(c)'
    BY DEF OwedAt
  <2>1. Outstanding(c) = 0
    BY <1>2 DEF Present, Idle
  <2>2. Coming(c) = <<>> /\ ~Waiting(c)
    BY <1>3, <2>1 DEF OwedAt
  <2>3. Coming(c)' = <<>>
    BY <1>2, <2>2, ComingEmpty, NothingComes DEF Coming
  <2> QED BY <1>8, <2>1, <2>2, <2>3 DEF OwedAt
<1>10. Grows(c) /\ executed[c] \subseteq executed'[c]
  BY <1>2 DEF Grows
<1> QED BY <1>1, <1>2, <1>6, <1>7, <1>9, <1>10, OrderlyQuiet

\* MySQL closes a connection, and the session finds out later.
LEMMA RemoteCloseOrderly ==
  ASSUME IInv, IInv', Orderly, NEW c \in Conns, RemoteClose(c)
  PROVE  Orderly'
BY OrderlyStays DEF RemoteClose, ServiceState, FlowState, clientVars, c2rVars, r2cVars,
   sockets, shared, jobVars

\* MySQL executes the request that is with it, once, and answers it or, on COM_QUIT,
\* closes the connection.
LEMMA RemoteExecDoes ==
  ASSUME OneAtATime, IInv, Orderly, NEW c \in Conns, RemoteExec(c)
  PROVE  LET n == Last1(c) IN
         /\ conn[c] = "open" /\ AtMySQL(c) /\ n # 0 /\ n \in DOMAIN reqs[c]
         /\ n \notin executed[c] /\ executed'[c] = executed[c] \cup {n}
         /\ toRemote'[c] = <<>> /\ fromRemote[c] = <<>>
         /\ fromRemote'[c] = IF Quitting(c) THEN <<>> ELSE Reply(c, n)
         /\ UNCHANGED <<conn, clientUp, reqs, answered, inbox, c2r, rbuf, ctx, hit, r2c, data,
                        newCtx, cachedCtx, cachedBuf>>
         /\ UNCHANGED <<toProxy, toClient, chan, redis, tasks>>
<1> DEFINE n == Last1(c)
<1>1. /\ conn[c] = "open" /\ toRemote[c] # <<>> /\ StationAt(c) /\ TidyAt(c)
      /\ UNCHANGED <<conn, clientUp, reqs, answered, inbox, c2r, rbuf, ctx, hit, r2c, data,
                     newCtx, cachedCtx, cachedBuf>>
      /\ UNCHANGED <<toProxy, toClient, chan, redis, tasks>>
  BY DEF RemoteExec, Orderly, clientVars, c2rVars, r2cVars, shared, jobVars
<1>2. AtMySQL(c)
  BY <1>1, Stations
<1>3. toRemote[c] = Packet1(n) /\ fromRemote[c] = <<>> /\ chan[c][1].n = n /\ Len(chan[c]) = 1
  BY <1>2 DEF AtMySQL, InChannel, Resting
<1>4. n \in DOMAIN reqs[c] /\ n # 0
  <2>1. 1 \in DOMAIN chan[c]
    BY <1>3, Types1, LenProperties
  <2> QED BY <1>1, <1>3, <2>1, Types1 DEF TidyAt, CtxOf
<1>5. Packet(c, n) = Packet1(n)
  BY <1>4, OnePacket
<1>6. toRemote[c][1].n = n /\ Len(NextPacket(c)) = 1
  BY <1>3, <1>5 DEF Packet1, NextPacket
<1>7. /\ n \notin executed[c] /\ executed'[c] = executed[c] \cup {n}
      /\ toRemote'[c] = SubSeq(toRemote[c], 2, Len(toRemote[c]))
      /\ fromRemote'[c] = IF reqs[c][n] \in Mute \cup Quits THEN fromRemote[c]
                          ELSE fromRemote[c] \o Reply(c, n)
  <2> HIDE DEF n
  <2> QED BY <1>6, FlowFunctions DEF RemoteExec, Put
<1>8. toRemote'[c] = <<>>
  <2>1. Len(toRemote[c]) = 1 /\ toRemote[c] \in Seq(Units)
    BY <1>3, Types1 DEF Packet1
  <2> QED BY <1>7, <2>1, OneSplit
<1>9. Quitting(c) <=> reqs[c][n] \in Quits
  BY <1>4 DEF Quitting
<1>10. <<>> \o Reply(c, n) = Reply(c, n)
  <2>1. Reply(c, n) \in Seq(PartSet)
    BY <1>4, Types1, ReplyType DEF IInv, TypeOK
  <2> QED BY <2>1, ConcatEmptySeq
<1>11. fromRemote'[c] = IF Quitting(c) THEN <<>> ELSE Reply(c, n)
  BY <1>3, <1>7, <1>9, <1>10 DEF OneAtATime
<1> QED BY <1>1, <1>2, <1>3, <1>4, <1>7, <1>8, <1>11

LEMMA RemoteExecOrderly ==
  ASSUME OneAtATime, IInv, IInv', Orderly, NEW c \in Conns, RemoteExec(c)
  PROVE  /\ Orderly'
         /\ Quitting(c) => Coming(c)' = Coming(c)
         /\ Present(c) /\ ~Quitting(c) => /\ Outstanding(c) = 1 /\ Coming(c) = <<>>
                                          /\ Coming(c)' = Reply(c, Last1(c))
<1>1. \A d \in Conns \ {c} : ServiceState(d)' = ServiceState(d)
  BY Elsewhere1 DEF Remote
<1> DEFINE n == Last1(c)
<1>2. /\ conn[c] = "open" /\ AtMySQL(c) /\ n # 0 /\ n \in DOMAIN reqs[c]
      /\ n \notin executed[c] /\ executed'[c] = executed[c] \cup {n}
      /\ toRemote'[c] = <<>> /\ fromRemote[c] = <<>>
      /\ fromRemote'[c] = IF Quitting(c) THEN <<>> ELSE Reply(c, n)
      /\ UNCHANGED <<conn, clientUp, reqs, answered, inbox, c2r, rbuf, ctx, hit, r2c, data,
                     newCtx, cachedCtx, cachedBuf>>
      /\ UNCHANGED <<toProxy, toClient, chan, redis, tasks>>
  BY RemoteExecDoes
<1>3. StationAt(c) /\ TidyAt(c) /\ OwedAt(c)
  BY DEF Orderly
<1>4. n' = n /\ Quitting(c)' = Quitting(c) /\ Replied(c)' = Replied(c)
  BY <1>2 DEF Last1, Quitting, Replied
<1>5. \A m : Reply(c, m)' = Reply(c, m) /\ Buffer(c, m)' = Buffer(c, m)
  BY <1>2, ReplySame
<1>6. InChannel(c)' /\ c2r'[c] = "read"
  BY <1>2, <1>4 DEF AtMySQL, InChannel, Last1
<1>7. TidyAt(c)'
  <2>1. executed'[c] \subseteq DOMAIN reqs'[c]
    BY <1>2, <1>3 DEF TidyAt
  <2>2. cachedCtx'[c] = NoCtx \/ (CtxOf(c, cachedCtx[c]) /\ Replied(c) \in executed'[c])
    BY <1>2, <1>3 DEF TidyAt
  <2> QED BY <1>2, <1>3, <2>1, <2>2 DEF TidyAt, CtxOf, Last1, Flushing, Replied
<1>8. ~Waiting(c)'
  <2>1. c2r'[c] = "read" /\ toProxy'[c] = <<>>
    BY <1>2, <1>6 DEF AtMySQL, InChannel
  <2> QED BY <1>2, <2>1, WaitsNoMore
<1>9. Outstanding(c)' = Outstanding(c) /\ Present(c)' = Present(c)
  BY <1>2 DEF Outstanding, Awaited, Present
<1>10. Grows(c) /\ executed[c] \subseteq executed'[c]
  BY <1>2 DEF Grows
<1>11. Resting(c)
  BY <1>2 DEF AtMySQL
<1>12. CASE Quitting(c)
  <2>1. Coming(c)' = Coming(c)
    BY <1>2, <1>12, ComingSame
  <2>2. Resting(c)'
    BY <1>2, <1>11, <1>12, RestsOn
  <2>3. Left(c)'
    BY <1>2, <1>4, <1>6, <1>12, <2>2 DEF Left
  <2>4. \A d \in Conns : Grows(d)
    BY <1>1, <1>10, StateParts DEF Grows
  <2>5. OwedAt(c)'
    BY <1>2, <1>3, <1>4, <1>8, <1>9, <2>1, <2>4, OwedStays
  <2>6. Orderly'
    BY <1>1, <1>2, <1>7, <1>10, <2>3, <2>5, OrderlyQuiet DEF StationAt
  <2> QED BY <1>12, <2>1, <2>6
<1>13. CASE ~Quitting(c)
  <2>1. Replied(c) # n
    <3>1. cachedCtx[c] = NoCtx \/ Replied(c) \in executed[c]
      BY <1>3 DEF TidyAt
    <3> QED BY <1>2, <3>1 DEF Replied, NoCtx, NewCtx
  <2>2. Made(c)'
    BY <1>2, <1>4, <1>5, <1>6, <1>11, <1>13, <2>1 DEF Made, Resting, Last1
  <2>3. Waiting(c)
    BY <1>2, <1>13 DEF Waiting
  <2>4. ASSUME Present(c)
        PROVE  /\ Outstanding(c) = 1 /\ Coming(c) = <<>> /\ clientUp[c]
               /\ Coming(c)' = Reply(c, n)
    <3>1. Outstanding(c) = 1 /\ Coming(c) = <<>> /\ clientUp[c]
      BY <1>3, <2>3, <2>4 DEF OwedAt
    <3>2. inbox[c] = <<>> /\ toClient[c] = <<>> /\ hit[c] = <<>> /\ data[c] = <<>>
      BY <3>1, ComingEmpty
    <3>3. Coming(c)' = <<>> \o <<>> \o <<>> \o <<>> \o Reply(c, n)
      BY <1>2, <1>13, <3>2 DEF Coming
    <3>4. Reply(c, n) \in Seq(PartSet)
      BY <1>2, Types1, ReplyType DEF IInv, TypeOK
    <3> QED BY <3>1, <3>3, <3>4, ComingAlone
  <2>5. Present(c) => IsAnswer(Coming(c))'
    BY <1>2, <1>5, <2>4 DEF IsAnswer
  <2>6. OwedAt(c)'
    BY <1>2, <1>4, <1>8, <1>9, <1>13, <2>4, <2>5 DEF OwedAt
  <2>7. Orderly'
    BY <1>1, <1>2, <1>7, <1>10, <2>2, <2>6, OrderlyQuiet DEF StationAt
  <2> QED BY <1>13, <2>4, <2>7
<1> QED BY <1>12, <1>13
-----------------------------------------------------------------------------
(***************************************************************************)
(* The jobs, the initial state, and all steps.                             *)
(***************************************************************************)
\* The parts of a session.
LEMMA SessionsSame ==
  ASSUME UNCHANGED sessionVars
  PROVE  /\ UNCHANGED <<reqs, executed>>
         /\ \A d \in Conns : ServiceState(d)' = ServiceState(d)
BY DEF sessionVars, clientVars, remoteVars, c2rVars, r2cVars, sockets, shared, ServiceState,
   FlowState

\* The cache job stores one of the whole replies that are queued.
LEMMA CacheTaskOrderly ==
  ASSUME IInv, IInv', Orderly, CacheTaskJob, UNCHANGED sessionVars
  PROVE  Orderly'
<1>1. /\ tasks # <<>> /\ tasks' = Tail(tasks)
      /\ \/ redis' = [redis EXCEPT ![Head(tasks).key] = Head(tasks).body]
         \/ UNCHANGED redis
  BY DEF CacheTaskJob
<1>2. UNCHANGED <<reqs, executed>> /\ \A d \in Conns : ServiceState(d)' = ServiceState(d)
  BY SessionsSame
<1>3. \A d \in Conns : TidyAt(d) /\ Grows(d) /\ executed[d] \subseteq executed'[d]
  BY <1>2 DEF Orderly, Grows
<1> DEFINE T == [key : Keys, body : Seq(PartSet)]
           task == Head(tasks)
<1>4. tasks \in Seq(T) /\ redis \in [Keys -> Seq(PartSet)]
  BY DEF IInv, TypeOK, JobsTypeOK
<1>5. /\ 1 \in DOMAIN tasks /\ task = tasks[1]
      /\ \A i \in DOMAIN tasks' : i + 1 \in DOMAIN tasks /\ tasks'[i] = tasks[i + 1]
  <2> HIDE DEF T
  <2>1. /\ DOMAIN tasks = 1 .. Len(tasks) /\ Len(tasks) \in Nat \ {0}
        /\ Tail(tasks) \in Seq(T) /\ Len(Tail(tasks)) = Len(tasks) - 1
        /\ \A i \in 1 .. Len(Tail(tasks)) : Tail(tasks)[i] = tasks[i + 1]
        /\ task = tasks[1]
    BY <1>1, <1>4, HeadTailProperties, EmptySeq, LenProperties
  <2>2. DOMAIN tasks' = 1 .. Len(tasks) - 1
    BY <1>1, <2>1, LenProperties
  <2> QED BY <1>1, <2>1, <2>2
<1>6. \A i \in DOMAIN tasks : Kept(tasks[i])
  BY DEF Orderly, TasksWhole
<1> HIDE DEF task
<1>7. TasksWhole'
  <2>1. \A i \in DOMAIN tasks' : Kept(tasks'[i])
    BY <1>5, <1>6
  <2> QED BY <1>3, <2>1, KeptStays DEF TasksWhole
<1>8. RedisWhole'
  <2>1. Kept(task)
    BY <1>5, <1>6
  <2>2. IsReplyFor(task.body, task.key)
    <3>1. PICK c \in Conns : \E n \in executed[c] :
             /\ n < Len(reqs[c]) /\ reqs[c][n] \in Cacheable
             /\ task.key = StoreKey[reqs[c][n]] /\ task.body = Reply(c, n)
      BY <2>1 DEF Kept
    <3>2. executed[c] \subseteq DOMAIN reqs[c]
      BY <1>3 DEF TidyAt
    <3> QED BY <3>1, <3>2 DEF IsReplyFor
  <2>3. \A k \in Keys : redis'[k] = redis[k] \/ (k = task.key /\ redis'[k] = task.body)
    BY <1>1, <1>4 DEF task
  <2>4. \A k \in Keys : redis'[k] # <<>> => IsReplyFor(redis'[k], k)
    BY <2>2, <2>3 DEF Orderly, RedisWhole
  <2> QED BY <1>3, <2>4, KeptStays DEF RedisWhole
<1> QED BY <1>2, <1>7, <1>8, OrderlyJobs

LEMMA JobsOrderly ==
  ASSUME IInv, IInv', Orderly, Jobs
  PROVE  Orderly'
<1>1. UNCHANGED sessionVars /\ AssistantNext
  BY DEF Jobs
<1>2. UNCHANGED <<reqs, executed>> /\ \A d \in Conns : ServiceState(d)' = ServiceState(d)
  BY <1>1, SessionsSame
<1>3. CASE CacheTaskJob
  BY <1>1, <1>3, CacheTaskOrderly
<1>4. CASE MetricsTick \/ RegisterDone
  BY <1>2, <1>4, OrderlyStays DEF MetricsTick, RegisterDone
<1>5. ASSUME NEW key \in Keys, RedisExpire(key) PROVE Orderly'
  <2>1. redis' = [redis EXCEPT ![key] = <<>>] /\ UNCHANGED tasks
    BY <1>5 DEF RedisExpire
  <2>2. \A d \in Conns : TidyAt(d) /\ Grows(d) /\ executed[d] \subseteq executed'[d]
    BY <1>2 DEF Orderly, Grows
  <2>3. \A k \in Keys : redis'[k] = redis[k] \/ redis'[k] = <<>>
    BY <2>1 DEF IInv, TypeOK, JobsTypeOK
  <2>4. RedisWhole'
    BY <2>2, <2>3, KeptStays DEF Orderly, RedisWhole
  <2>5. TasksWhole'
    BY <1>2, <2>1, TasksStay
  <2> QED BY <1>2, <2>4, <2>5, OrderlyJobs
<1> QED BY <1>1, <1>3, <1>4, <1>5 DEF AssistantNext

LEMMA InitOrderly == OneAtATime /\ Init => Orderly
<1> SUFFICES ASSUME OneAtATime, Init PROVE Orderly
  OBVIOUS
<1>1. RedisWhole /\ TasksWhole
  BY DEF Init, AssistantInit, RedisWhole, TasksWhole
<1>2. ASSUME NEW c \in Conns PROVE StationAt(c) /\ TidyAt(c) /\ OwedAt(c)
  <2> USE DEF Init, Empty
  <2>1. Unborn(c)
    BY DEF Unborn, Free
  <2>2. TidyAt(c)
    BY <2>1 DEF TidyAt, Flushing
  <2>3. Awaited(c) = {}
    BY DEF Awaited
  <2>4. Outstanding(c) = 1
    BY <2>3, FS_EmptySet DEF Outstanding
  <2>5. Coming(c) = <<>>
    BY NothingComes DEF Coming
  <2>6. ~Quitting(c) /\ clientUp[c]
    BY DEF Quitting, Last1
  <2> QED BY <2>1, <2>2, <2>4, <2>5, <2>6 DEF StationAt, OwedAt
<1> QED BY <1>1, <1>2 DEF Orderly

LEMMA SessionOrderly ==
  ASSUME OneAtATime, IInv, IInv', Orderly, NEW c \in Conns,
         Accept(c) \/ C2R(c) \/ R2C(c) \/ Client(c) \/ Remote(c)
  PROVE  Orderly'
<1>1. ~C2RRaw(c)
  BY Stations DEF C2RRaw, At, Orderly
<1>2. CASE C2R(c)
  BY <1>1, <1>2, ReadOrderly, ShortOrderly, EofOrderly, RequestOrderly, ExistsOrderly,
     GetOrderly, ReplyOrderly, LogOrderly, SendOrderly, WriteOrderly DEF C2R
<1>3. CASE R2C(c)
  BY <1>3, RemoteReadOrderly, EofOrderly, FinishOrderly, TaskOrderly, RemoteLogOrderly,
     RespondOrderly, RemoteWriteOrderly DEF R2C
<1>4. CASE Client(c)
  BY <1>4, ClientSendOrderly, ClientRecvOrderly, ClientCloseOrderly DEF Client
<1>5. CASE Remote(c)
  BY <1>5, RemoteExecOrderly, RemoteCloseOrderly DEF Remote
<1>6. CASE Accept(c)
  BY <1>6, AcceptOrderly
<1> QED BY <1>2, <1>3, <1>4, <1>5, <1>6

\* Orderly is inductive, relative to IInv.
LEMMA NextOrderly == OneAtATime /\ IInv /\ Orderly /\ [Next]_vars => Orderly'
<1> SUFFICES ASSUME OneAtATime, IInv, Orderly, [Next]_vars PROVE Orderly'
  OBVIOUS
<1>1. IInv'
  BY NextPreserves
<1>2. ASSUME NEW c \in Conns, Accept(c) \/ C2R(c) \/ R2C(c) \/ Client(c) \/ Remote(c)
      PROVE  Orderly'
  BY <1>1, <1>2, SessionOrderly
<1>3. CASE Jobs
  BY <1>1, <1>3, JobsOrderly
<1>4. CASE UNCHANGED vars
  <2>1. UNCHANGED sessionVars /\ UNCHANGED <<redis, tasks>>
    BY <1>4 DEF vars, jobVars
  <2>2. \A d \in Conns : ServiceState(d)' = ServiceState(d)
    BY <2>1, SessionsSame
  <2> QED BY <1>1, <2>1, <2>2, OrderlyStays
<1> QED BY <1>2, <1>3, <1>4 DEF Next, Terminated
-----------------------------------------------------------------------------
(***************************************************************************)
(* The steps, as those of QueryService.                                    *)
(***************************************************************************)
\* A step of connection c, as its client sees it.
LEMMA ServiceView ==
  ASSUME IInv, IInv', NEW c \in Conns,
         \A d \in Conns \ {c} : ServiceState(d)' = ServiceState(d)
  PROVE  /\ \A v : reqs'[c] = v => reqs' = [reqs EXCEPT ![c] = v]
         /\ \A v : executed'[c] = v => executed' = [executed EXCEPT ![c] = v]
         /\ \A v : (~Idle(c)') = v =>
              [d \in Conns |-> ~Idle(d)'] = [[d \in Conns |-> ~Idle(d)] EXCEPT ![c] = v]
         /\ \A v : Coming(c)' = v =>
              [d \in Conns |-> Coming(d)'] = [[d \in Conns |-> Coming(d)] EXCEPT ![c] = v]
<1>1. ASSUME NEW d \in Conns, d # c
      PROVE  /\ reqs'[d] = reqs[d] /\ executed'[d] = executed[d]
             /\ Coming(d)' = Coming(d) /\ Idle(d)' = Idle(d)
  <2>1. Coming(d)' = Coming(d) /\ Outstanding(d)' = Outstanding(d)
    BY <1>1, StationStays
  <2> QED BY <1>1, <2>1, StateParts DEF Idle
<1>2. reqs' = [d \in Conns |-> reqs'[d]] /\ executed' = [d \in Conns |-> executed'[d]]
  BY DEF IInv, TypeOK, SessionTypeOK
<1>3. reqs = [d \in Conns |-> reqs[d]] /\ executed = [d \in Conns |-> executed[d]]
  BY FlowFunctions
<1>4. \A v : reqs'[c] = v => reqs' = [reqs EXCEPT ![c] = v]
  BY <1>1, <1>2, <1>3
<1>5. \A v : executed'[c] = v => executed' = [executed EXCEPT ![c] = v]
  BY <1>1, <1>2, <1>3
<1>6. ASSUME NEW v, (~Idle(c)') = v
      PROVE  [d \in Conns |-> ~Idle(d)'] = [[d \in Conns |-> ~Idle(d)] EXCEPT ![c] = v]
  BY <1>1, <1>6
<1>7. ASSUME NEW v, Coming(c)' = v
      PROVE  [d \in Conns |-> Coming(d)'] = [[d \in Conns |-> Coming(d)] EXCEPT ![c] = v]
  BY <1>1, <1>7
<1> QED BY <1>4, <1>5, <1>6, <1>7

\* Nothing that QueryService has changes.
Unseen(c) ==
  UNCHANGED <<reqs[c], executed[c], answered[c], redis>> /\ Coming(c)' = Coming(c)

LEMMA UnseenStep ==
  ASSUME IInv, IInv', NEW c \in Conns, Unseen(c),
         \A d \in Conns \ {c} : ServiceState(d)' = ServiceState(d)
  PROVE  UNCHANGED Service!service
<1>1. \A d \in Conns : Idle(d)' = Idle(d) /\ Coming(d)' = Coming(d)
  <2>1. Idle(c)' = Idle(c)
    BY DEF Unseen, Idle, Outstanding, Awaited
  <2>2. \A d \in Conns \ {c} : Idle(d)' = Idle(d) /\ Coming(d)' = Coming(d)
    BY StationStays DEF Idle
  <2> QED BY <2>1, <2>2 DEF Unseen
<1>2. /\ [d \in Conns |-> ~Idle(d)'] = [d \in Conns |-> ~Idle(d)]
      /\ [d \in Conns |-> Coming(d)'] = [d \in Conns |-> Coming(d)]
  BY <1>1
<1>3. reqs' = reqs
  <2>1. reqs'[c] = reqs[c]
    BY DEF Unseen
  <2>2. reqs' = [reqs EXCEPT ![c] = reqs[c]]
    BY <2>1, ServiceView
  <2> QED BY <2>2, FlowFunctions
<1>4. executed' = executed
  <2>1. executed'[c] = executed[c]
    BY DEF Unseen
  <2>2. executed' = [executed EXCEPT ![c] = executed[c]]
    BY <2>1, ServiceView
  <2> QED BY <2>2, FlowFunctions
<1> QED BY <1>2, <1>3, <1>4 DEF Service!service, Unseen

\* The answer to a connection is the greeting.
LEMMA GreetStep ==
  ASSUME "reset" \notin Faults, IInv, IInv', Orderly, NEW c \in Conns, Accept(c),
         Coming(c)' = Reply(c, 0)
  PROVE  Service!Greet(c)
<1>1. \A d \in Conns \ {c} : ServiceState(d)' = ServiceState(d)
  BY Elsewhere1
<1>2. conn[c] = "new" /\ UNCHANGED <<reqs, executed, answered, redis>>
  BY DEF Accept, clientVars, remoteVars, jobVars
<1>3. Unborn(c) /\ Waiting(c) /\ OwedAt(c) /\ Present(c)
  BY <1>2 DEF Orderly, TidyAt, Waiting, Present
<1>4. Outstanding(c) = 1 /\ Coming(c) = <<>> /\ reqs[c] = <<>>
  BY <1>3 DEF OwedAt, Unborn
<1>5. ~Idle(c) /\ (~Idle(c)') = TRUE
  BY <1>2, <1>4 DEF Idle, Outstanding, Awaited
<1>6. [d \in Conns |-> ~Idle(d)'] = [d \in Conns |-> ~Idle(d)]
  <2>1. [d \in Conns |-> ~Idle(d)'] = [[d \in Conns |-> ~Idle(d)] EXCEPT ![c] = TRUE]
    BY <1>1, <1>5, ServiceView
  <2> QED BY <1>5, <2>1
<1>7. [d \in Conns |-> Coming(d)'] = [[d \in Conns |-> Coming(d)] EXCEPT ![c] = Reply(c, 0)]
  BY <1>1, ServiceView
<1> QED BY <1>2, <1>4, <1>5, <1>6, <1>7 DEF Service!Greet, Service!Waits, Service!Answer, Reply

\* A client asks when it waits for nothing.
LEMMA AskStep ==
  ASSUME OneAtATime, IInv, IInv', Orderly, NEW c \in Conns, NEW s \in Stmts, ClientSend(c, s)
  PROVE  Service!Ask(c, s)
<1>1. \A d \in Conns \ {c} : ServiceState(d)' = ServiceState(d)
  BY Elsewhere1 DEF Client
<1>2. /\ reqs'[c] = Append(reqs[c], s)
      /\ UNCHANGED <<inbox, toClient, hit, data, fromRemote, answered, executed, redis>>
  BY FlowFunctions DEF ClientSend, Put, remoteVars, c2rVars, r2cVars, jobVars
<1>3. Outstanding(c) = 0
  BY SendsWhenServed
<1>4. Outstanding(c)' = IF s \in Mute \cup Quits THEN 0 ELSE 1
  BY <1>2, <1>3, AwaitsMore
<1>5. Idle(c) /\ ((~Idle(c)') = (s \notin Mute \cup Quits))
  BY <1>3, <1>4 DEF Idle
<1>6. [d \in Conns |-> ~Idle(d)']
        = [[d \in Conns |-> ~Idle(d)] EXCEPT ![c] = (s \notin Mute \cup Quits)]
  BY <1>1, <1>5, ServiceView
<1>7. reqs' = [reqs EXCEPT ![c] = Append(reqs[c], s)]
  BY <1>1, <1>2, ServiceView
<1>8. [d \in Conns |-> Coming(d)'] = [d \in Conns |-> Coming(d)]
  BY <1>2, ComingSame
<1> QED BY <1>2, <1>5, <1>6, <1>7, <1>8 DEF Service!Ask

\* MySQL makes the answer.
LEMMA MakeStep ==
  ASSUME OneAtATime, "reset" \notin Faults, IInv, IInv', Orderly, NEW c \in Conns,
         RemoteExec(c)
  PROVE  Service!Make(c)
<1>1. \A d \in Conns \ {c} : ServiceState(d)' = ServiceState(d)
  BY Elsewhere1 DEF Remote
<1> DEFINE n == Last1(c)
<1>2. /\ n # 0 /\ n \in DOMAIN reqs[c] /\ n \notin executed[c]
      /\ executed'[c] = executed[c] \cup {n}
      /\ UNCHANGED <<reqs, answered, redis>>
  BY RemoteExecDoes
<1>3. n = Len(reqs[c]) /\ n > 0
  BY <1>2, Types1 DEF Last1
<1>4. Idle(c)' = Idle(c)
  BY <1>2 DEF Idle, Outstanding, Awaited
<1>5. [d \in Conns |-> ~Idle(d)'] = [d \in Conns |-> ~Idle(d)]
  <2>1. \A d \in Conns \ {c} : Idle(d)' = Idle(d)
    BY <1>1, StationStays DEF Idle
  <2> QED BY <1>4, <2>1
<1>6. executed' = [executed EXCEPT ![c] = executed[c] \cup {n}]
  BY <1>1, <1>2, ServiceView
<1>7. Quitting(c) <=> reqs[c][n] \in Quits
  BY <1>2 DEF Quitting
<1>8. CASE Quitting(c)
  <2>1. Coming(c)' = Coming(c)
    BY <1>8, RemoteExecOrderly
  <2>2. \A d \in Conns \ {c} : Coming(d)' = Coming(d)
    BY <1>1, StationStays
  <2>3. [d \in Conns |-> Coming(d)'] = [d \in Conns |-> Coming(d)]
    BY <2>1, <2>2
  <2>4. reqs[c][n] \in Mute \cup Quits
    BY <1>7, <1>8
  <2> HIDE DEF n
  <2> QED BY <1>2, <1>3, <1>5, <1>6, <2>3, <2>4 DEF Service!Make
<1>9. CASE ~Quitting(c)
  <2>1. Outstanding(c) = 1 /\ Coming(c) = <<>> /\ Coming(c)' = Reply(c, n)
    BY <1>9, RemoteExecOrderly DEF Present
  <2>2. [d \in Conns |-> Coming(d)'] = [[d \in Conns |-> Coming(d)] EXCEPT ![c] = Reply(c, n)]
    BY <1>1, <2>1, ServiceView
  <2>3. reqs[c][n] \notin Mute \cup Quits
    BY <1>7, <1>9 DEF OneAtATime
  <2>4. ~Idle(c)
    BY <2>1 DEF Idle
  <2>5. Reply(c, n) = Service!Answer(c, n)
    BY DEF Reply, Service!Answer
  <2> HIDE DEF n
  <2> QED BY <1>2, <1>3, <1>5, <1>6, <2>1, <2>2, <2>3, <2>4, <2>5
          DEF Service!Make, Service!Waits
<1> QED BY <1>8, <1>9

\* The cache answers instead.
LEMMA HitStep ==
  ASSUME IInv, IInv', Orderly, NEW c \in Conns, C2RGet(c), HitGiven(c)
  PROVE  Service!Hit(c)
<1>1. \A d \in Conns \ {c} : ServiceState(d)' = ServiceState(d)
  BY Elsewhere1 DEF C2R
<1>2. UNCHANGED <<reqs, executed, answered, redis>>
  BY DEF C2RGet, clientVars, remoteVars, jobVars
<1> DEFINE n == Len(reqs[c])
<1>3. ctx[c].n = n /\ n \notin executed[c] /\ n \in DOMAIN reqs[c] /\ ctx[c].sql = reqs[c][n]
  BY DEF HitGiven, Held, CtxOf, Last1
<1>4. n > 0
  BY <1>3, Types1
<1>5. [d \in Conns |-> ~Idle(d)'] = [d \in Conns |-> ~Idle(d)]
  BY <1>2 DEF Idle, Outstanding, Awaited
<1>6. /\ ~Idle(c) /\ Coming(c) = <<>> /\ reqs[c][n] \in Cacheable
      /\ redis[LookupKey[reqs[c][n]]] # <<>>
      /\ Coming(c)' = redis[LookupKey[reqs[c][n]]]
  BY <1>3 DEF HitGiven, Cached, Idle
<1>7. [d \in Conns |-> Coming(d)']
        = [[d \in Conns |-> Coming(d)] EXCEPT ![c] = redis[LookupKey[reqs[c][n]]]]
  BY <1>1, <1>6, ServiceView
<1> HIDE DEF n
<1> QED BY <1>2, <1>3, <1>4, <1>5, <1>6, <1>7 DEF Service!Hit, Service!Waits, n

\* The client has its answer, with the last part of it.
LEMMA RecvStep ==
  ASSUME IInv, IInv', Orderly, NEW c \in Conns, ClientRecv(c)
  PROVE  Service!Get(c) \/ UNCHANGED Service!service
<1>1. \A d \in Conns \ {c} : ServiceState(d)' = ServiceState(d)
  BY Elsewhere1 DEF Client
<1>2. UNCHANGED <<reqs, executed, redis>>
  BY DEF ClientRecv, remoteVars, jobVars
<1>3. /\ Coming(c) # <<>> /\ Outstanding(c) = 1
      /\ \/ Coming(c)' = Coming(c) /\ Outstanding(c)' = 1
         \/ Coming(c)' = <<>> /\ Outstanding(c)' = 0
  BY ClientRecvOrderly
<1>4. CASE Coming(c)' = Coming(c) /\ Outstanding(c)' = 1
  <2>1. \A d \in Conns : Idle(d)' = Idle(d) /\ Coming(d)' = Coming(d)
    BY <1>1, <1>3, <1>4, StationStays DEF Idle
  <2>2. /\ [d \in Conns |-> ~Idle(d)'] = [d \in Conns |-> ~Idle(d)]
        /\ [d \in Conns |-> Coming(d)'] = [d \in Conns |-> Coming(d)]
    BY <2>1
  <2> QED BY <1>2, <2>2 DEF Service!service
<1>5. CASE Coming(c)' = <<>> /\ Outstanding(c)' = 0
  <2>1. (~Idle(c)') = FALSE
    BY <1>5 DEF Idle
  <2>2. [d \in Conns |-> ~Idle(d)'] = [[d \in Conns |-> ~Idle(d)] EXCEPT ![c] = FALSE]
    BY <1>1, <2>1, ServiceView
  <2>3. [d \in Conns |-> Coming(d)'] = [[d \in Conns |-> Coming(d)] EXCEPT ![c] = <<>>]
    BY <1>1, <1>5, ServiceView
  <2> QED BY <1>2, <1>3, <2>2, <2>3 DEF Service!Get
<1> QED BY <1>3, <1>4, <1>5

\* All other steps of a session and its peers are hidden from the client.
LEMMA HiddenC2R ==
  ASSUME OneAtATime, "reset" \notin Faults, IInv, IInv', Orderly, NEW c \in Conns,
         C2R(c), ~C2RGet(c)
  PROVE  Unseen(c)
<1> USE DEF clientVars, remoteVars, c2rVars, r2cVars, sockets, shared, jobVars, sessionVars,
            Unseen
<1>1. CASE C2RRead(c)
  BY <1>1, ComingSame, FlowFunctions DEF C2RRead
<1>2. CASE C2RShort(c) \/ C2REof(c)
  BY <1>2, ComingSame DEF C2RShort, C2REof
<1>3. CASE C2RRequest(c) \/ C2RExists(c)
  BY <1>3, ComingSame DEF C2RRequest, C2RExists
<1>4. CASE C2RReply(c)
  <2>1. Coming(c)' = Coming(c)
    BY <1>4, ReplyOrderly DEF Present
  <2> QED BY <1>4, <2>1 DEF C2RReply
<1>5. CASE C2RLog(c)
  BY <1>5, ComingSame DEF C2RLog, SendLog
<1>6. CASE C2RSend(c) \/ C2RWrite(c)
  BY <1>6, ComingSame DEF C2RSend, C2RWrite
<1>7. ~C2RRaw(c)
  BY Stations DEF C2RRaw, At, Orderly
<1> QED BY <1>1, <1>2, <1>3, <1>4, <1>5, <1>6, <1>7 DEF C2R

LEMMA HiddenR2C ==
  ASSUME OneAtATime, "reset" \notin Faults, IInv, IInv', Orderly, NEW c \in Conns, R2C(c)
  PROVE  Unseen(c)
<1> USE DEF clientVars, remoteVars, c2rVars, r2cVars, sockets, shared, jobVars, Unseen
<1>1. CASE R2CRead(c)
  <2>1. Coming(c)' = Coming(c)
    BY <1>1, RemoteReadOrderly
  <2> QED BY <1>1, <2>1 DEF R2CRead
<1>2. CASE R2CEof(c) \/ R2CFinish(c)
  BY <1>2, ComingSame DEF R2CEof, R2CFinish
<1>3. CASE R2CTask(c) \/ R2CLog(c)
  BY <1>3, ComingSame DEF R2CTask, R2CLog, SendTask, SendLog
<1>4. CASE R2CRespond(c)
  BY <1>4, ComingSame DEF R2CRespond
<1>5. CASE R2CWrite(c)
  <2>1. Coming(c)' = Coming(c)
    BY <1>5, RemoteWriteOrderly DEF Present
  <2> QED BY <1>5, <2>1 DEF R2CWrite
<1> QED BY <1>1, <1>2, <1>3, <1>4, <1>5 DEF R2C

LEMMA HiddenClose ==
  ASSUME "reset" \notin Faults, IInv, IInv', Orderly, NEW c \in Conns,
         ClientClose(c) \/ RemoteClose(c)
  PROVE  Unseen(c)
<1>1. CASE ClientClose(c)
  <2>1. /\ Idle(c) /\ inbox'[c] = <<>> /\ toClient'[c] = <<>>
        /\ UNCHANGED <<reqs, answered, executed, hit, data, fromRemote, redis>>
    BY <1>1, Functions1 DEF ClientClose, Put, remoteVars, c2rVars, r2cVars, jobVars
  <2>2. Coming(c) = <<>>
    BY <2>1 DEF Orderly, OwedAt, Present, Idle
  <2>3. Coming(c)' = <<>>
    BY <2>1, <2>2, ComingEmpty, NothingComes DEF Coming
  <2> QED BY <2>1, <2>2, <2>3 DEF Unseen
<1>2. CASE RemoteClose(c)
  BY <1>2, ComingSame DEF RemoteClose, Unseen, clientVars, c2rVars, r2cVars, sockets, jobVars
<1> QED BY <1>1, <1>2

\* The cache job keeps an answer, and redis forgets one.
LEMMA JobsStep ==
  ASSUME IInv, IInv', Orderly, Jobs
  PROVE  Service!Next \/ UNCHANGED Service!service
<1>1. UNCHANGED sessionVars /\ AssistantNext
  BY DEF Jobs
<1>2. UNCHANGED <<reqs, executed>> /\ \A d \in Conns : ServiceState(d)' = ServiceState(d)
  BY <1>1, SessionsSame
<1>3. \A d \in Conns : Idle(d)' = Idle(d) /\ Coming(d)' = Coming(d)
  BY <1>2, StationStays DEF Idle
<1>4. /\ [d \in Conns |-> ~Idle(d)'] = [d \in Conns |-> ~Idle(d)]
      /\ [d \in Conns |-> Coming(d)'] = [d \in Conns |-> Coming(d)]
  BY <1>3
<1>5. CASE UNCHANGED redis
  BY <1>2, <1>4, <1>5 DEF Service!service
<1>6. CASE CacheTaskJob /\ ~UNCHANGED redis
  <2> DEFINE task == Head(tasks)
             T == [key : Keys, body : Seq(PartSet)]
  <2>1. tasks # <<>> /\ redis' = [redis EXCEPT ![task.key] = task.body]
    BY <1>6 DEF CacheTaskJob
  <2>2. 1 \in DOMAIN tasks /\ task = tasks[1]
    <3>1. tasks \in Seq(T)
      BY DEF IInv, TypeOK, JobsTypeOK
    <3> HIDE DEF T
    <3> QED BY <2>1, <3>1, EmptySeq, LenProperties, HeadTailProperties
  <2> HIDE DEF task
  <2>3. Kept(task)
    BY <2>2 DEF Orderly, TasksWhole
  <2>4. PICK c \in Conns : \E n \in executed[c] :
             /\ n < Len(reqs[c]) /\ reqs[c][n] \in Cacheable
             /\ task.key = StoreKey[reqs[c][n]] /\ task.body = Reply(c, n)
    BY <2>3 DEF Kept
  <2>5. PICK n \in executed[c] :
             /\ n < Len(reqs[c]) /\ reqs[c][n] \in Cacheable
             /\ task.key = StoreKey[reqs[c][n]] /\ task.body = Reply(c, n)
    BY <2>4
  <2>6. Reply(c, n) = Service!Answer(c, n)
    BY DEF Reply, Service!Answer
  <2>7. Service!Keep(c, n)
    BY <1>2, <1>4, <2>1, <2>5, <2>6 DEF Service!Keep
  <2> QED BY <2>7 DEF Service!Next
<1>7. ASSUME NEW key \in Keys, RedisExpire(key) PROVE Service!Next
  <2>1. redis' = [redis EXCEPT ![key] = <<>>]
    BY <1>7 DEF RedisExpire
  <2>2. Service!Forget(key)
    BY <1>2, <1>4, <2>1 DEF Service!Forget
  <2> QED BY <2>2 DEF Service!Next
<1>8. MetricsTick \/ RegisterDone => UNCHANGED redis
  BY DEF MetricsTick, RegisterDone
<1> QED BY <1>1, <1>5, <1>6, <1>7, <1>8 DEF AssistantNext

LEMMA SessionStep ==
  ASSUME OneAtATime, "reset" \notin Faults, IInv, IInv', Orderly, NEW c \in Conns,
         Accept(c) \/ C2R(c) \/ R2C(c) \/ Client(c) \/ Remote(c)
  PROVE  Service!Next \/ UNCHANGED Service!service
<1>1. \A d \in Conns \ {c} : ServiceState(d)' = ServiceState(d)
  BY Elsewhere1
<1>2. Unseen(c) => UNCHANGED Service!service
  BY <1>1, UnseenStep
<1>3. ASSUME Accept(c) PROVE Service!Greet(c) \/ Unseen(c)
  <2>1. Coming(c)' = Coming(c) \/ Coming(c)' = Reply(c, 0)
    BY <1>3, AcceptOrderly
  <2>2. UNCHANGED <<reqs, executed, answered, redis>>
    BY <1>3 DEF Accept, clientVars, remoteVars, jobVars
  <2> QED BY <1>3, <2>1, <2>2, GreetStep DEF Unseen
<1>4. ASSUME C2RGet(c) PROVE Service!Hit(c) \/ Unseen(c)
  <2>1. HitGiven(c) \/ Coming(c)' = Coming(c)
    BY <1>4, GetOrderly DEF Present
  <2>2. UNCHANGED <<reqs, executed, answered, redis>>
    BY <1>4 DEF C2RGet, clientVars, remoteVars, jobVars
  <2> QED BY <1>4, <2>1, <2>2, HitStep DEF Unseen
<1>5. C2R(c) /\ ~C2RGet(c) => Unseen(c)
  BY HiddenC2R
<1>6. R2C(c) => Unseen(c)
  BY HiddenR2C
<1>7. ASSUME Client(c) PROVE \/ \E s \in Stmts : Service!Ask(c, s)
                             \/ Service!Get(c) \/ UNCHANGED Service!service
  BY <1>2, <1>7, AskStep, RecvStep, HiddenClose DEF Client
<1>8. Remote(c) => Service!Make(c) \/ Unseen(c)
  BY MakeStep, HiddenClose DEF Remote
<1> QED BY <1>2, <1>3, <1>4, <1>5, <1>6, <1>7, <1>8 DEF Service!Next

LEMMA InitService == OneAtATime /\ Init => Service!Init
<1> SUFFICES ASSUME OneAtATime, Init PROVE Service!Init
  OBVIOUS
<1>1. ASSUME NEW c \in Conns PROVE (~Idle(c)) = TRUE /\ Coming(c) = <<>>
  <2> USE DEF Init, Empty
  <2>1. Awaited(c) = {} /\ answered[c] = 0
    BY DEF Awaited
  <2>2. Outstanding(c) = 1
    BY <2>1, FS_EmptySet DEF Outstanding
  <2>3. Coming(c) = <<>>
    BY NothingComes DEF Coming
  <2> QED BY <2>2, <2>3 DEF Idle
<1>2. /\ [c \in Conns |-> ~Idle(c)] = [c \in Conns |-> TRUE]
      /\ [c \in Conns |-> Coming(c)] = [c \in Conns |-> <<>>]
  BY <1>1
<1> QED BY <1>2 DEF Service!Init, Init, Empty, AssistantInit
-----------------------------------------------------------------------------
(***************************************************************************)
(* The theorems, for clients that wait for each answer.                    *)
(***************************************************************************)
LEMMA OrderlyAlways == OneAtATime => (Spec => [](IInv /\ Orderly))
<1> SUFFICES ASSUME OneAtATime PROVE Spec => [](IInv /\ Orderly)
  OBVIOUS
<1>1. Init => IInv /\ Orderly
  BY InitIInv, InitOrderly
<1>2. IInv /\ Orderly /\ [Next]_vars => (IInv /\ Orderly)'
  BY NextPreserves, NextOrderly
<1> QED BY <1>1, <1>2, PTL DEF Spec

\* When a context is logged or stored, cached_buf holds all of its reply and nothing
\* else, in every interleaving of the two halves and with every fault
\* (serve/mod.rs:178-192).
THEOREM FlushedWhole == OneAtATime => (Spec => []FlushedReplyIsWhole)
<1> SUFFICES ASSUME OneAtATime PROVE Spec => []FlushedReplyIsWhole
  OBVIOUS
<1>1. Orderly => FlushedReplyIsWhole
  <2> SUFFICES ASSUME Orderly, NEW c \in Conns, Flushing(c)
               PROVE  cachedBuf[c] = Buffer(c, Replied(c))
    BY DEF FlushedReplyIsWhole, Flushing, Buffer, Replied
  <2>1. StationAt(c)
    BY DEF Orderly
  <2> QED BY <2>1 DEF StationAt, Unborn, Asked, Held, Passed, AtMySQL, Made, FlushesLast,
             Returning, Served, Left, Resting, Flushing
<1> QED BY <1>1, OrderlyAlways, PTL

\* What is stored under a key, or queued to be stored, is one whole reply to a
\* statement with that key, whichever sessions store and whatever fails
\* (cached_buf, serve/mod.rs:181-192).
THEOREM WholeRepliesCached == OneAtATime => (Spec => []CacheHoldsWholeReplies)
<1> SUFFICES ASSUME OneAtATime PROVE Spec => []CacheHoldsWholeReplies
  OBVIOUS
<1>1. Orderly => CacheHoldsWholeReplies
  <2> SUFFICES ASSUME Orderly, NEW i \in DOMAIN tasks
               PROVE  IsReplyFor(tasks[i].body, tasks[i].key)
    BY DEF CacheHoldsWholeReplies, Orderly, RedisWhole
  <2>1. PICK c \in Conns : \E n \in executed[c] :
             /\ n < Len(reqs[c]) /\ reqs[c][n] \in Cacheable
             /\ tasks[i].key = StoreKey[reqs[c][n]] /\ tasks[i].body = Reply(c, n)
    BY DEF Orderly, TasksWhole, Kept
  <2>2. executed[c] \subseteq DOMAIN reqs[c]
    BY DEF Orderly, TidyAt
  <2> QED BY <2>1, <2>2 DEF IsReplyFor
<1> QED BY <1>1, OrderlyAlways, PTL

\* A client that leaves when it has all its answers never aborts the process: no
\* write to it is still to come, whether MySQL closes connections or refuses them,
\* and whichever answers came from the cache (serve/mod.rs:216-220).
THEOREM ProcessNeverAborts ==
  OneAtATime /\ Faults \subseteq {"backend"} => (Spec => []ProcessSurvives)
<1> SUFFICES ASSUME OneAtATime, Faults \subseteq {"backend"} PROVE Spec => []ProcessSurvives
  OBVIOUS
<1>1. Init => ProcessSurvives
  BY DEF Init, ProcessSurvives
<1>2. ASSUME IInv, Orderly, ProcessSurvives, [Next]_vars PROVE ProcessSurvives'
  <2>0. proc = "up" /\ "redis" \notin Faults /\ "short" \notin Faults /\ "reset" \notin Faults
    BY <1>2 DEF ProcessSurvives
  <2>1. ASSUME NEW c \in Conns, C2R(c) PROVE proc' = proc
    <3>1. CASE C2RRead(c) \/ C2RShort(c) \/ C2REof(c) \/ C2RRaw(c)
      BY <2>0, <3>1 DEF C2RRead, C2RShort, C2REof, C2RRaw
    <3>2. CASE C2RRequest(c) \/ C2RExists(c) \/ C2RGet(c) \/ C2RReply(c)
      BY <3>2 DEF C2RRequest, C2RExists, C2RGet, C2RReply
    <3>3. CASE C2RLog(c) \/ C2RSend(c) \/ C2RWrite(c)
      BY <3>3 DEF C2RLog, C2RSend, C2RWrite
    <3> QED BY <2>1, <3>1, <3>2, <3>3 DEF C2R
  <2>2. ASSUME NEW c \in Conns, R2CWrite(c) PROVE proc' = proc
    <3> SUFFICES ASSUME ~clientUp[c] PROVE FALSE
      BY <2>2 DEF R2CWrite
    <3>1. StationAt(c) /\ OwedAt(c) /\ conn[c] = "open" /\ r2c[c] = "write"
      BY <1>2, <2>2 DEF Orderly, R2CWrite, At
    <3>2. data[c] # <<>>
      BY <3>1, Stations DEF Returning
    <3>3. Coming(c) = <<>>
      BY <2>0, <3>1 DEF OwedAt, Present
    <3> QED BY <1>2, <3>2, <3>3, ComingEmpty
  <2>3. ASSUME NEW c \in Conns, R2C(c) PROVE proc' = proc
    <3>1. CASE R2CRead(c) \/ R2CEof(c) \/ R2CFinish(c)
      BY <3>1 DEF R2CRead, R2CEof, R2CFinish
    <3>2. CASE R2CTask(c) \/ R2CLog(c) \/ R2CRespond(c)
      BY <3>2 DEF R2CTask, R2CLog, R2CRespond
    <3> QED BY <2>2, <2>3, <3>1, <3>2 DEF R2C
  <2>4. ASSUME NEW c \in Conns, Accept(c) \/ Client(c) \/ Remote(c) PROVE proc' = proc
    BY <2>0, <2>4 DEF Accept, Client, ClientSend, ClientRecv, ClientClose, Remote, RemoteExec,
       RemoteClose
  <2>5. CASE Jobs \/ Terminated \/ UNCHANGED vars
    BY <2>0, <2>5 DEF Jobs, Terminated, vars, ProcessSurvives
  <2> QED BY <1>2, <2>0, <2>1, <2>3, <2>4, <2>5 DEF Next, ProcessSurvives
<1>3. IInv /\ Orderly /\ ProcessSurvives /\ [Next]_vars => ProcessSurvives'
  BY <1>2
<1> QED BY <1>1, <1>3, OrderlyAlways, PTL DEF Spec

\* To clients that wait for each answer and for none when they leave, the proxy is
\* the service of QueryService: every step of the two halves of a session, their
\* sockets, buffers and locks, the peers and the jobs is a step of that service or
\* hidden from its clients (serve/mod.rs:74-243).
THEOREM ServiceImplemented ==
  OneAtATime /\ "reset" \notin Faults => (Spec => ImplementsQueryService)
<1> SUFFICES ASSUME OneAtATime, "reset" \notin Faults PROVE Spec => ImplementsQueryService
  OBVIOUS
<1>1. Init => Service!Init
  BY InitService
<1>2. IInv /\ IInv' /\ Orderly /\ [Next]_vars => [Service!Next]_Service!service
  <2> SUFFICES ASSUME IInv, IInv', Orderly, [Next]_vars
               PROVE  Service!Next \/ UNCHANGED Service!service
    OBVIOUS
  <2>1. ASSUME NEW c \in Conns, Accept(c) \/ C2R(c) \/ R2C(c) \/ Client(c) \/ Remote(c)
        PROVE  Service!Next \/ UNCHANGED Service!service
    BY <2>1, SessionStep
  <2>2. CASE Jobs
    BY <2>2, JobsStep
  <2>3. CASE UNCHANGED vars
    <3>1. UNCHANGED sessionVars /\ UNCHANGED redis
      BY <2>3 DEF vars, jobVars
    <3>2. UNCHANGED <<reqs, executed>> /\ \A d \in Conns : ServiceState(d)' = ServiceState(d)
      BY <3>1, SessionsSame
    <3>3. \A d \in Conns : Idle(d)' = Idle(d) /\ Coming(d)' = Coming(d)
      BY <3>2, StationStays DEF Idle
    <3>4. /\ [d \in Conns |-> ~Idle(d)'] = [d \in Conns |-> ~Idle(d)]
          /\ [d \in Conns |-> Coming(d)'] = [d \in Conns |-> Coming(d)]
      BY <3>3
    <3> QED BY <3>1, <3>2, <3>4 DEF Service!service
  <2> QED BY <2>1, <2>2, <2>3 DEF Next, Terminated
<1> QED BY <1>1, <1>2, OrderlyAlways, PTL DEF Spec, ImplementsQueryService, Service!Spec
=============================================================================
