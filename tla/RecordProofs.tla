---------------------------- MODULE RecordProofs ----------------------------
(***************************************************************************)
(* Proofs about the sessions of any clients (pipelining ones included),    *)
(* commands, reads and faults: RecordedOnce, HitStaysOffMySQL,             *)
(* ForwardedOnce, EndsForCause, NoEmbrace.                                 *)
(*                                                                         *)
(* Their invariant follows what the client sends, read by read, to where   *)
(* it ends, MySQL or the cache, and the context of each read to its record *)
(* (Flow); NoEmbrace also needs the order of what is on its way (Ordered). *)
(***************************************************************************)
EXTENDS SessionProofs, FiniteSetTheorems

InOrder(us) == \A i, j \in DOMAIN us : i < j => Before(us[i], us[j])

\* Units are numbered as in Frames.  Those still to be read are in order, and come
\* after all that has been read.
UnitsOK(c) ==
  /\ \A u \in ToSet(toProxy[c]) \cup ToSet(rbuf[c]) \cup ToSet(toRemote[c]) :
       u.n \in DOMAIN reqs[c] /\ u.i \in DOMAIN Frames[reqs[c][u.n]]
  /\ InOrder(toProxy[c])
  /\ \A u \in ToSet(rbuf[c]) \cup ToSet(toRemote[c]), v \in ToSet(toProxy[c]) : Before(u, v)

\* The buffer is kept from read to read when it starts with a rejected packet, and
\* only then; no context is made any more.
StuckOK(c) == Stuck(c) <=> (c2r[c] \in {"read", "raw"} /\ rbuf[c] # <<>>)

\* What MySQL has executed has left the client, and only that has a reply.
ExecutedOK(c) ==
  /\ executed[c] \subseteq DOMAIN reqs[c]
  /\ \A n \in executed[c], v \in ToSet(toProxy[c]) : n < v.n
  /\ \A p \in ToSet(fromRemote[c]) \cup ToSet(data[c]) : p.n = 0 \/ p.n \in executed[c]

\* Unless a packet was rejected, what is on its way to MySQL, or read, is in order,
\* and comes after all that MySQL has executed.
ForwardOK(c) ==
  Stuck(c) \/ /\ InOrder(toRemote[c] \o rbuf[c])
              /\ \A n \in executed[c], u \in ToSet(toRemote[c] \o rbuf[c]) : n < u.n

\* A context of a read, not that before the first.
OfRead(x) == x # NoCtx

\* client_to_remote has a read in hand that is not on its way to MySQL.
InHands == {"lock", "exists", "get", "reply", "log", "send"}

Fresh(c) == c2r[c] \in InHands

FreshOK(c) ==
  /\ c2r[c] \in {"lock", "exists", "get", "send"} => ~ctx[c].from_cache
  /\ Fresh(c) =>
       /\ ctx[c].n \in DOMAIN reqs[c] /\ ctx[c].i \in DOMAIN Frames[reqs[c][ctx[c].n]]
       /\ \A u \in ToSet(toRemote[c]) : Before(u, ctx[c])
       /\ \A n \in executed[c] : n < ctx[c].n
       /\ \A v \in ToSet(toProxy[c]) : Before(ctx[c], v)

\* The contexts that have been sent, and are still to be flushed, one after the other.
Flushing(c) == r2c[c] \in {"finish", "task", "log"}

Pending(c) == ToSet(chan[c]) \cup {cachedCtx[c]} \cup (IF Flushing(c) THEN {newCtx[c]} ELSE {})

PendingOK(c) ==
  \A x \in Pending(c) :
    /\ ~x.from_cache
    /\ OfRead(x) => /\ x.n \in DOMAIN reqs[c]
                    /\ \A v \in ToSet(toProxy[c]) : Before(x, v)
                    /\ Fresh(c) => Before(x, ctx[c])

Follows(y, x) == OfRead(x) /\ OfRead(y) => Before(x, y)

PendingInOrder(c) ==
  /\ \A y \in ToSet(chan[c]) : /\ Follows(y, cachedCtx[c])
                               /\ Flushing(c) => Follows(y, newCtx[c])
  /\ Flushing(c) => Follows(newCtx[c], cachedCtx[c])
  /\ r2c[c] = "log" => OfRead(cachedCtx[c])

\* A recorded read has left the client, and is recorded for good; one that is
\* recorded as answered from the cache never gets to MySQL, so neither does the whole
\* of its request.
RecordsOf(c) == {l \in ToSet(batch) \cup ToSet(logs) : l.c = c}

SameRead(l, x) == l.n = x.n /\ l.i = x.i

RecordsOK(c) ==
  \A l \in RecordsOf(c) :
    /\ l.n \in DOMAIN reqs[c]
    /\ \A v \in ToSet(toProxy[c]) : Before(l, v)
    /\ Fresh(c) => Before(l, ctx[c])
    /\ \A x \in Pending(c) : OfRead(x) => ~SameRead(l, x)
    /\ l.from_cache =>
         /\ l.n \notin executed[c] /\ l.i \in DOMAIN Frames[reqs[c][l.n]]
         /\ \A u \in ToSet(rbuf[c]) \cup ToSet(toRemote[c]) : ~SameRead(l, u)

FlowAt(c) ==
  /\ UnitsOK(c) /\ StuckOK(c) /\ ExecutedOK(c) /\ ForwardOK(c) /\ FreshOK(c)
  /\ PendingOK(c) /\ PendingInOrder(c) /\ RecordsOK(c)

Flow == RecordedOnce /\ \A c \in Conns : FlowAt(c)

\* The state of connection d that FlowAt(d) speaks of, but for the records.
FlowState(d) == <<reqs[d], toProxy[d], rbuf[d], toRemote[d], executed[d], fromRemote[d],
                  data[d], c2r[d], ctx[d], chan[d], r2c[d], cachedCtx[d], newCtx[d]>>
-----------------------------------------------------------------------------
(***************************************************************************)
(* What a step keeps.                                                      *)
(***************************************************************************)
\* A step of c2r, the client or MySQL that passes no context on, and adds nothing.
LEMMA FlowShrinks ==
  ASSUME NEW c \in Conns, FlowAt(c),
         UNCHANGED <<reqs[c], toProxy[c], executed[c]>>,
         ToSet(rbuf'[c]) \subseteq ToSet(rbuf[c]),
         ToSet(toRemote'[c]) \subseteq ToSet(toRemote[c]) \cup ToSet(rbuf[c]),
         \A p \in ToSet(fromRemote'[c]) \cup ToSet(data'[c]) :
           p \in ToSet(fromRemote[c]) \cup ToSet(data[c]) \/ p.n = 0,
         StuckOK(c)', ForwardOK(c)',
         Fresh(c)' => /\ Fresh(c) /\ ctx'[c].n = ctx[c].n /\ ctx'[c].i = ctx[c].i
                      /\ ToSet(toRemote'[c]) \subseteq ToSet(toRemote[c]),
         c2r'[c] \in {"lock", "exists", "get", "send"} => ~ctx'[c].from_cache,
         Pending(c)' \subseteq Pending(c), PendingInOrder(c)',
         RecordsOf(c)' \subseteq RecordsOf(c)
  PROVE  FlowAt(c)'
<1>1. UnitsOK(c)'
  BY DEF FlowAt, UnitsOK
<1>2. ExecutedOK(c)'
  BY DEF FlowAt, ExecutedOK
<1>3. FreshOK(c)'
  BY DEF FlowAt, FreshOK, Before
<1>4. PendingOK(c)'
  BY DEF FlowAt, PendingOK, Before
<1>5. RecordsOK(c)'
  BY DEF FlowAt, RecordsOK, Before
<1> QED BY <1>1, <1>2, <1>3, <1>4, <1>5 DEF FlowAt

\* ... and when r2c goes on with the contexts it has.
LEMMA PendingStays ==
  ASSUME NEW c, UNCHANGED <<chan[c], cachedCtx[c], newCtx[c]>>,
         r2c'[c] = r2c[c] \/ ~Flushing(c)', PendingInOrder(c)
  PROVE  Pending(c)' \subseteq Pending(c) /\ PendingInOrder(c)'
BY DEF Pending, PendingInOrder, Flushing

\* A connection of which nothing changes.
LEMMA FlowStays ==
  ASSUME NEW c \in Conns, FlowAt(c), FlowState(c)' = FlowState(c),
         RecordsOf(c)' \subseteq RecordsOf(c)
  PROVE  FlowAt(c)'
<1>1. /\ reqs'[c] = reqs[c] /\ toProxy'[c] = toProxy[c] /\ rbuf'[c] = rbuf[c]
      /\ toRemote'[c] = toRemote[c] /\ executed'[c] = executed[c]
      /\ fromRemote'[c] = fromRemote[c] /\ data'[c] = data[c] /\ c2r'[c] = c2r[c]
      /\ ctx'[c] = ctx[c] /\ chan'[c] = chan[c] /\ r2c'[c] = r2c[c]
      /\ cachedCtx'[c] = cachedCtx[c] /\ newCtx'[c] = newCtx[c]
  BY DEF FlowState
<1>2. StuckOK(c)' /\ ForwardOK(c)'
  BY <1>1 DEF FlowAt, StuckOK, ForwardOK, Stuck, PacketType
<1>3. Fresh(c)' => Fresh(c)
  BY <1>1 DEF Fresh
<1>4. Pending(c)' \subseteq Pending(c) /\ PendingInOrder(c)'
  BY <1>1, PendingStays DEF FlowAt, Flushing
<1>5. c2r'[c] \in {"lock", "exists", "get", "send"} => ~ctx'[c].from_cache
  BY <1>1 DEF FlowAt, FreshOK
<1> QED BY <1>1, <1>2, <1>3, <1>4, <1>5, FlowShrinks

\* Records that are posted are not recorded again.
LEMMA RecordsStay ==
  ASSUME UNCHANGED <<logs, batch>>
  PROVE  RecordedOnce = RecordedOnce' /\ \A c : RecordsOf(c)' = RecordsOf(c)
BY DEF RecordedOnce, RecordsOf

\* A step of connection c.
LEMMA FlowNext ==
  ASSUME Flow, NEW c \in Conns, FlowAt(c)', RecordedOnce',
         \A d \in Conns \ {c} : /\ FlowState(d)' = FlowState(d)
                                /\ RecordsOf(d)' \subseteq RecordsOf(d)
  PROVE  Flow'
BY FlowStays DEF Flow

\* ... that records nothing.
LEMMA FlowNextQuiet ==
  ASSUME Flow, NEW c \in Conns, UNCHANGED <<logs, batch>>,
         \A d \in Conns \ {c} : FlowState(d)' = FlowState(d), FlowAt(c)'
  PROVE  Flow'
BY FlowNext, RecordsStay DEF Flow
-----------------------------------------------------------------------------
(***************************************************************************)
(* A step of one connection leaves the others alone.                       *)
(***************************************************************************)
LEMMA FlowFunctions ==
  ASSUME IInv
  PROVE  /\ reqs = [d \in Conns |-> reqs[d]] /\ toProxy = [d \in Conns |-> toProxy[d]]
         /\ rbuf = [d \in Conns |-> rbuf[d]] /\ toRemote = [d \in Conns |-> toRemote[d]]
         /\ executed = [d \in Conns |-> executed[d]]
         /\ fromRemote = [d \in Conns |-> fromRemote[d]]
         /\ data = [d \in Conns |-> data[d]] /\ c2r = [d \in Conns |-> c2r[d]]
         /\ ctx = [d \in Conns |-> ctx[d]] /\ chan = [d \in Conns |-> chan[d]]
         /\ r2c = [d \in Conns |-> r2c[d]] /\ cachedCtx = [d \in Conns |-> cachedCtx[d]]
         /\ newCtx = [d \in Conns |-> newCtx[d]]
BY DEF IInv, TypeOK, SessionTypeOK

LEMMA C2RElsewhere ==
  ASSUME IInv, NEW c \in Conns, C2R(c), NEW d \in Conns \ {c}
  PROVE  FlowState(d)' = FlowState(d)
<1> USE FlowFunctions DEF FlowState, Put, Lock, Unlock, Close, NextRequest, Sent, sockets,
        c2rVars, r2cVars, clientVars, remoteVars, shared, jobVars, sessionVars
<1>1. CASE C2RRead(c)
  BY <1>1 DEF C2RRead
<1>2. CASE C2RShort(c) \/ C2REof(c)
  BY <1>2 DEF C2RShort, C2REof
<1>3. CASE C2RRaw(c)
  BY <1>3 DEF C2RRaw
<1>4. CASE C2RRequest(c)
  BY <1>4 DEF C2RRequest
<1>5. CASE C2RExists(c)
  BY <1>5 DEF C2RExists
<1>6. CASE C2RGet(c)
  BY <1>6 DEF C2RGet
<1>7. CASE C2RReply(c)
  BY <1>7 DEF C2RReply
<1>8. CASE C2RLog(c)
  BY <1>8 DEF C2RLog
<1>9. CASE C2RSend(c)
  BY <1>9 DEF C2RSend
<1>10. CASE C2RWrite(c)
  BY <1>10 DEF C2RWrite
<1> QED BY <1>1, <1>2, <1>3, <1>4, <1>5, <1>6, <1>7, <1>8, <1>9, <1>10 DEF C2R

LEMMA R2CElsewhere ==
  ASSUME IInv, NEW c \in Conns, R2C(c), NEW d \in Conns \ {c}
  PROVE  FlowState(d)' = FlowState(d)
<1> USE FlowFunctions DEF FlowState, Put, Close, sockets, c2rVars, r2cVars, clientVars,
        remoteVars, shared, jobVars, sessionVars, Goto, Install, Replace, LogOrInstall
<1>1. CASE R2CRead(c)
  BY <1>1 DEF R2CRead
<1>2. CASE R2CEof(c)
  BY <1>2 DEF R2CEof
<1>3. CASE R2CFinish(c)
  BY <1>3 DEF R2CFinish
<1>4. CASE R2CTask(c)
  BY <1>4 DEF R2CTask
<1>5. CASE R2CLog(c)
  BY <1>5 DEF R2CLog
<1>6. CASE R2CRespond(c)
  BY <1>6 DEF R2CRespond
<1>7. CASE R2CWrite(c)
  BY <1>7 DEF R2CWrite
<1> QED BY <1>1, <1>2, <1>3, <1>4, <1>5, <1>6, <1>7 DEF R2C

LEMMA PeersElsewhere ==
  ASSUME IInv, NEW c \in Conns, Accept(c) \/ Client(c) \/ Remote(c), NEW d \in Conns \ {c}
  PROVE  FlowState(d)' = FlowState(d)
<1> USE FlowFunctions DEF FlowState, Put, Close, sockets, c2rVars, r2cVars, clientVars,
        remoteVars, shared, jobVars, sessionVars
<1>1. CASE Accept(c)
  BY <1>1 DEF Accept
<1>2. ASSUME NEW s \in Stmts, ClientSend(c, s) PROVE FlowState(d)' = FlowState(d)
  BY <1>2 DEF ClientSend
<1>3. CASE ClientRecv(c) \/ ClientClose(c)
  BY <1>3 DEF ClientRecv, ClientClose
<1>4. CASE RemoteExec(c)
  BY <1>4 DEF RemoteExec
<1>5. CASE RemoteClose(c)
  BY <1>5 DEF RemoteClose
<1> QED BY <1>1, <1>2, <1>3, <1>4, <1>5 DEF Client, Remote
-----------------------------------------------------------------------------
(***************************************************************************)
(* The steps that record nothing and pass no context on.                   *)
(***************************************************************************)
LEMMA FlowTypes ==
  ASSUME IInv, NEW c \in Conns
  PROVE  /\ reqs[c] \in Seq(Stmts) /\ executed[c] \subseteq Nat
         /\ toProxy[c] \in Seq(Units) /\ rbuf[c] \in Seq(Units) /\ toRemote[c] \in Seq(Units)
         /\ fromRemote[c] \in Seq(PartSet) /\ data[c] \in Seq(PartSet)
         /\ chan[c] \in Seq(Ctxs) /\ Len(chan[c]) <= 1
         /\ ctx[c] \in Ctxs /\ newCtx[c] \in Ctxs /\ cachedCtx[c] \in Ctxs
BY DEF IInv, TypeOK, SessionTypeOK

\* The elements of two sequences joined, and of the two parts a read splits one into.
LEMMA ToSetJoined ==
  ASSUME NEW S, NEW s \in Seq(S), NEW t \in Seq(S)
  PROVE  ToSet(s \o t) = ToSet(s) \cup ToSet(t)
<1>1. ToSet(s \o t) \subseteq ToSet(s) \cup ToSet(t)
  BY Joined DEF ToSet
<1>2. ToSet(s) \cup ToSet(t) \subseteq ToSet(s \o t)
  <2>1. \A j \in DOMAIN s : \E i \in DOMAIN (s \o t) : (s \o t)[i] = s[j]
    BY Joined
  <2>2. \A j \in DOMAIN t : \E i \in DOMAIN (s \o t) : (s \o t)[i] = t[j]
    BY Joined
  <2> QED BY <2>1, <2>2 DEF ToSet
<1> QED BY <1>1, <1>2

LEMMA ToSetSplit ==
  ASSUME NEW S, NEW s \in Seq(S), NEW k \in 1 .. Len(s)
  PROVE  /\ ToSet(SubSeq(s, 1, k)) \subseteq ToSet(s)
         /\ ToSet(SubSeq(s, k + 1, Len(s))) \subseteq ToSet(s)
BY ReadSplit DEF ToSet

\* Two joined sequences, element by element.
LEMMA JoinedAt ==
  ASSUME NEW S, NEW s \in Seq(S), NEW t \in Seq(S)
  PROVE  /\ s \o t \in Seq(S) /\ DOMAIN (s \o t) = 1 .. Len(s) + Len(t)
         /\ Len(s) \in Nat /\ Len(t) \in Nat
         /\ DOMAIN s = 1 .. Len(s) /\ DOMAIN t = 1 .. Len(t)
         /\ \A i \in DOMAIN (s \o t) :
              IF i <= Len(s) THEN i \in DOMAIN s /\ (s \o t)[i] = s[i]
              ELSE i - Len(s) \in DOMAIN t /\ (s \o t)[i] = t[i - Len(s)]
OBVIOUS

LEMMA JoinedFront ==
  ASSUME NEW S, NEW s \in Seq(S), NEW t \in Seq(S)
  PROVE  \A i \in DOMAIN s : i \in DOMAIN (s \o t) /\ (s \o t)[i] = s[i]
OBVIOUS

LEMMA BeforeIsStrict ==
  ASSUME NEW u, NEW v, v.n \in Nat, v.i \in Nat, Before(u, v)
  PROVE  ~SameRead(u, v) /\ ~SameRead(v, u)
BY DEF Before, SameRead

\* Two sequences in order, one before the other, and what a read leaves of one.
LEMMA JoinedInOrder ==
  ASSUME NEW s \in Seq(Units), NEW t \in Seq(Units), InOrder(s), InOrder(t),
         \A u \in ToSet(s), v \in ToSet(t) : Before(u, v)
  PROVE  InOrder(s \o t)
<1> DEFINE new == s \o t
<1> HIDE DEF new
<1> SUFFICES ASSUME NEW i \in DOMAIN new, NEW j \in DOMAIN new, i < j
             PROVE  Before(new[i], new[j])
  BY DEF InOrder, new
<1>1. /\ Len(s) \in Nat /\ Len(t) \in Nat
      /\ DOMAIN s = 1 .. Len(s) /\ DOMAIN t = 1 .. Len(t)
      /\ DOMAIN new = 1 .. Len(s) + Len(t)
      /\ \A x \in DOMAIN new : new[x] = IF x <= Len(s) THEN s[x] ELSE t[x - Len(s)]
  BY LenProperties, ConcatProperties DEF new
<1>2. CASE j <= Len(s)
  <2>1. i \in DOMAIN s /\ j \in DOMAIN s /\ new[i] = s[i] /\ new[j] = s[j]
    BY <1>1, <1>2
  <2> QED BY <2>1 DEF InOrder
<1>3. CASE i <= Len(s) /\ ~(j <= Len(s))
  <2>1. i \in DOMAIN s /\ j - Len(s) \in DOMAIN t /\ new[i] = s[i] /\ new[j] = t[j - Len(s)]
    BY <1>1, <1>3
  <2> QED BY <2>1 DEF ToSet
<1>4. CASE ~(i <= Len(s))
  <2>1. /\ i - Len(s) \in DOMAIN t /\ j - Len(s) \in DOMAIN t /\ i - Len(s) < j - Len(s)
        /\ new[i] = t[i - Len(s)] /\ new[j] = t[j - Len(s)]
    BY <1>1, <1>4
  <2> QED BY <2>1 DEF InOrder
<1> QED BY <1>2, <1>3, <1>4

Remainder(s, k) == SubSeq(s, k + 1, Len(s))

LEMMA Shifted ==
  ASSUME NEW S, NEW s \in Seq(S), NEW t \in Seq(S), NEW k \in 1 .. Len(s)
  PROVE  \A j \in DOMAIN (Remainder(s, k) \o t) :
           /\ j \in Nat \ {0} /\ j + k \in DOMAIN (s \o t)
           /\ (Remainder(s, k) \o t)[j] = (s \o t)[j + k]
<1> DEFINE r    == Remainder(s, k)
           left == r \o t
           all  == s \o t
<1>1. /\ r \in Seq(S) /\ Len(r) = Len(s) - k
      /\ Len(s) \in Nat /\ Len(t) \in Nat /\ Len(r) \in Nat /\ k \in Nat
  BY LenProperties DEF Remainder
<1>2. \A j \in 1 .. Len(s) - k : r[j] = s[j + k]
  BY LenProperties DEF Remainder
<1> HIDE DEF r
<1>3. /\ DOMAIN left = 1 .. Len(r) + Len(t)
      /\ \A j \in DOMAIN left : left[j] = IF j <= Len(r) THEN r[j] ELSE t[j - Len(r)]
  BY <1>1
<1>4. /\ DOMAIN all = 1 .. Len(s) + Len(t)
      /\ \A j \in DOMAIN all : all[j] = IF j <= Len(s) THEN s[j] ELSE t[j - Len(s)]
  OBVIOUS
<1> HIDE DEF left, all
<1>5. ASSUME NEW j \in DOMAIN left
      PROVE  j \in Nat \ {0} /\ j + k \in DOMAIN all /\ left[j] = all[j + k]
  <2>1. j \in 1 .. Len(r) + Len(t) /\ left[j] = IF j <= Len(r) THEN r[j] ELSE t[j - Len(r)]
    BY <1>3, <1>5
  <2>2. j \in Nat \ {0} /\ j + k \in 1 .. Len(s) + Len(t)
    BY <1>1, <2>1
  <2>3. /\ j + k \in DOMAIN all
        /\ all[j + k] = IF j + k <= Len(s) THEN s[j + k] ELSE t[j + k - Len(s)]
    BY <1>4, <2>2
  <2>4. CASE j <= Len(r)
    <3>1. j + k <= Len(s) /\ j \in 1 .. Len(s) - k
      BY <1>1, <2>2, <2>4
    <3> QED BY <1>2, <2>1, <2>2, <2>3, <2>4, <3>1
  <2>5. CASE ~(j <= Len(r))
    <3>1. j - Len(r) = j + k - Len(s) /\ ~(j + k <= Len(s))
      BY <1>1, <2>2, <2>5
    <3> QED BY <2>1, <2>2, <2>3, <2>5, <3>1
  <2> QED BY <2>4, <2>5
<1> QED BY <1>5 DEF left, all, r

\* A step of client_to_remote, with nothing new to read.
LEMMA C2RStep ==
  ASSUME Flow, NEW c \in Conns, UNCHANGED <<logs, batch>>,
         \A d \in Conns \ {c} : FlowState(d)' = FlowState(d),
         UNCHANGED <<reqs[c], toProxy[c], executed[c], fromRemote[c], data[c], chan[c],
                     r2c[c], cachedCtx[c], newCtx[c]>>,
         ToSet(rbuf'[c]) \subseteq ToSet(rbuf[c]),
         ToSet(toRemote'[c]) \subseteq ToSet(toRemote[c]) \cup ToSet(rbuf[c]),
         StuckOK(c)', ForwardOK(c)',
         Fresh(c)' => /\ Fresh(c) /\ ctx'[c].n = ctx[c].n /\ ctx'[c].i = ctx[c].i
                      /\ ToSet(toRemote'[c]) \subseteq ToSet(toRemote[c]),
         c2r'[c] \in {"lock", "exists", "get", "send"} => ~ctx'[c].from_cache
  PROVE  Flow'
<1>1. FlowAt(c)
  BY DEF Flow
<1>2. Pending(c)' \subseteq Pending(c) /\ PendingInOrder(c)'
  BY <1>1, PendingStays DEF FlowAt, Flushing
<1>3. FlowAt(c)'
  BY <1>1, <1>2, FlowShrinks, RecordsStay
<1> QED BY <1>3, FlowNextQuiet

\* A step of remote_to_client, or of a peer, that leaves client_to_remote alone.
LEMMA R2CStep ==
  ASSUME Flow, NEW c \in Conns, UNCHANGED <<logs, batch>>,
         \A d \in Conns \ {c} : FlowState(d)' = FlowState(d),
         UNCHANGED <<reqs[c], toProxy[c], executed[c], rbuf[c], toRemote[c], c2r[c], ctx[c]>>,
         \A p \in ToSet(fromRemote'[c]) \cup ToSet(data'[c]) :
           p \in ToSet(fromRemote[c]) \cup ToSet(data[c]) \/ p.n = 0,
         Pending(c)' \subseteq Pending(c), PendingInOrder(c)'
  PROVE  Flow'
<1>1. FlowAt(c)
  BY DEF Flow
<1>2. StuckOK(c)' /\ ForwardOK(c)'
  BY <1>1 DEF FlowAt, StuckOK, ForwardOK, Stuck, PacketType
<1>3. /\ Fresh(c)' => Fresh(c)
      /\ c2r'[c] \in {"lock", "exists", "get", "send"} => ~ctx'[c].from_cache
  BY <1>1 DEF Fresh, FlowAt, FreshOK
<1>4. FlowAt(c)'
  BY <1>1, <1>2, <1>3, FlowShrinks, RecordsStay
<1> QED BY <1>4, FlowNextQuiet

\* A step of client_to_remote that neither reads nor forwards, nor starts to.
LEMMA InHandStep ==
  ASSUME NEW c \in Conns, FlowAt(c), c2r[c] \notin {"read", "raw"},
         c2r'[c] \notin {"read", "raw"},
         UNCHANGED <<reqs[c], toRemote[c], executed[c], rbuf[c]>>
  PROVE  StuckOK(c)' /\ ForwardOK(c)'
BY DEF FlowAt, StuckOK, ForwardOK, Stuck, PacketType

\* A step that FlowAt does not notice.
LEMMA QuietStep ==
  ASSUME Flow, NEW c \in Conns, UNCHANGED <<logs, batch>>,
         \A d \in Conns : FlowState(d)' = FlowState(d)
  PROVE  Flow'
<1>1. FlowAt(c)'
  BY FlowStays, RecordsStay DEF Flow
<1> QED BY <1>1, FlowNextQuiet

\* client_to_remote reads too little, or the client has closed.
LEMMA C2REndFlow ==
  ASSUME IInv, Flow, NEW c \in Conns, C2RShort(c) \/ C2REof(c) PROVE Flow'
<1>1. UNCHANGED <<logs, batch>> /\ \A d \in Conns : FlowState(d)' = FlowState(d)
  BY DEF C2RShort, C2REof, FlowState, c2rVars, r2cVars, clientVars, remoteVars, sockets,
         shared, jobVars, sessionVars
<1> QED BY <1>1, QuietStep

\* A rejected packet goes to MySQL, and stays in the buffer.
LEMMA C2RRawFlow ==
  ASSUME IInv, Flow, NEW c \in Conns, C2RRaw(c) PROVE Flow'
<1>1. /\ UNCHANGED <<logs, batch>>
      /\ \A d \in Conns \ {c} : FlowState(d)' = FlowState(d)
      /\ UNCHANGED <<reqs[c], toProxy[c], executed[c], fromRemote[c], data[c], chan[c],
                     r2c[c], cachedCtx[c], newCtx[c], rbuf[c], ctx[c]>>
  BY C2RElsewhere DEF C2RRaw, C2R, c2rVars, r2cVars, clientVars, remoteVars, sockets, shared,
                      jobVars
<1>2. /\ c2r[c] = "raw" /\ c2r'[c] \in {"read", "raw"}
      /\ toRemote'[c] = toRemote[c] \/ toRemote'[c] = toRemote[c] \o rbuf[c]
  BY FlowFunctions DEF C2RRaw, At, Sent, Put
<1>3. ToSet(toRemote'[c]) \subseteq ToSet(toRemote[c]) \cup ToSet(rbuf[c])
  <2>1. ToSet(toRemote[c] \o rbuf[c]) = ToSet(toRemote[c]) \cup ToSet(rbuf[c])
    BY FlowTypes, ToSetJoined
  <2> QED BY <1>2, <2>1
<1>4. StuckOK(c)' /\ ForwardOK(c)'
  <2>1. StuckOK(c) /\ rbuf[c] # <<>>
    BY <1>2 DEF Flow, FlowAt, IInv, InHand, InHandAt
  <2>2. Stuck(c)
    BY <1>2, <2>1 DEF StuckOK
  <2>3. Stuck(c)' <=> Stuck(c)
    BY <1>1 DEF Stuck, PacketType
  <2>4. rbuf'[c] = rbuf[c]
    BY <1>1
  <2> QED BY <1>2, <2>1, <2>2, <2>3, <2>4 DEF StuckOK, ForwardOK
<1>5. ~Fresh(c)'
  BY <1>2 DEF Fresh, InHands
<1> QED BY <1>1, <1>2, <1>3, <1>4, <1>5, C2RStep

\* handle_request decides whether to look the statement up.
LEMMA C2RRequestFlow ==
  ASSUME IInv, Flow, NEW c \in Conns, C2RRequest(c) PROVE Flow'
<1>1. /\ UNCHANGED <<logs, batch>>
      /\ \A d \in Conns \ {c} : FlowState(d)' = FlowState(d)
      /\ UNCHANGED <<reqs[c], toProxy[c], executed[c], fromRemote[c], data[c], chan[c],
                     r2c[c], cachedCtx[c], newCtx[c], rbuf[c], toRemote[c], ctx[c]>>
  BY C2RElsewhere DEF C2RRequest, C2R, c2rVars, r2cVars, clientVars, remoteVars, sockets,
                      shared, jobVars
<1>2. c2r[c] = "lock" /\ c2r'[c] \in {"send", "exists"}
  BY FlowFunctions DEF C2RRequest, At, Put
<1>3. StuckOK(c)' /\ ForwardOK(c)'
  BY <1>1, <1>2, InHandStep DEF Flow
<1>4. (Fresh(c)' => Fresh(c)) /\ ~ctx'[c].from_cache
  BY <1>1, <1>2 DEF Fresh, InHands, Flow, FlowAt, FreshOK
<1> QED BY <1>1, <1>2, <1>3, <1>4, C2RStep

\* EXISTS may mark the reply as one to store.
LEMMA C2RExistsFlow ==
  ASSUME IInv, Flow, NEW c \in Conns, C2RExists(c) PROVE Flow'
<1>1. /\ UNCHANGED <<logs, batch>>
      /\ \A d \in Conns \ {c} : FlowState(d)' = FlowState(d)
      /\ UNCHANGED <<reqs[c], toProxy[c], executed[c], fromRemote[c], data[c], chan[c],
                     r2c[c], cachedCtx[c], newCtx[c], rbuf[c], toRemote[c]>>
  BY C2RElsewhere DEF C2RExists, C2R, c2rVars, r2cVars, clientVars, remoteVars, sockets,
                      shared, jobVars
<1>2. /\ c2r[c] = "exists" /\ c2r'[c] \in {"send", "get"}
      /\ ctx'[c].n = ctx[c].n /\ ctx'[c].i = ctx[c].i
      /\ ctx'[c].from_cache = ctx[c].from_cache
  BY FlowFunctions, FlowTypes DEF C2RExists, At, Put, Ctxs
<1>3. StuckOK(c)' /\ ForwardOK(c)'
  BY <1>1, <1>2, InHandStep DEF Flow
<1>4. (Fresh(c)' => Fresh(c)) /\ ~ctx'[c].from_cache
  BY <1>1, <1>2 DEF Fresh, InHands, Flow, FlowAt, FreshOK
<1> QED BY <1>1, <1>2, <1>3, <1>4, C2RStep

\* GET: an answer from the cache is marked as one.
LEMMA C2RGetFlow ==
  ASSUME IInv, Flow, NEW c \in Conns, C2RGet(c) PROVE Flow'
<1>1. /\ UNCHANGED <<logs, batch>>
      /\ \A d \in Conns \ {c} : FlowState(d)' = FlowState(d)
      /\ UNCHANGED <<reqs[c], toProxy[c], executed[c], fromRemote[c], data[c], chan[c],
                     r2c[c], cachedCtx[c], newCtx[c], rbuf[c], toRemote[c]>>
  BY C2RElsewhere DEF C2RGet, C2R, c2rVars, r2cVars, clientVars, remoteVars, sockets,
                      shared, jobVars
<1>2. /\ c2r[c] = "get" /\ ctx'[c].n = ctx[c].n /\ ctx'[c].i = ctx[c].i
      /\ c2r'[c] = "reply" \/ (c2r'[c] = "send" /\ ctx'[c].from_cache = ctx[c].from_cache)
  BY FlowFunctions, FlowTypes DEF C2RGet, At, Put, Ctxs
<1>3. StuckOK(c)' /\ ForwardOK(c)'
  BY <1>1, <1>2, InHandStep DEF Flow
<1>4. /\ Fresh(c)' => Fresh(c)
      /\ c2r'[c] = "send" => ~ctx'[c].from_cache
  BY <1>1, <1>2 DEF Fresh, InHands, Flow, FlowAt, FreshOK
<1> QED BY <1>1, <1>2, <1>3, <1>4, C2RStep

\* The bytes in hand go nowhere (the client is answered from the cache).
LEMMA Dropped ==
  ASSUME IInv, NEW c \in Conns, FlowAt(c), c2r[c] \notin {"read", "raw"}, rbuf'[c] = <<>>,
         UNCHANGED <<toRemote[c], executed[c]>>
  PROVE  StuckOK(c)' /\ ForwardOK(c)'
<1>1. ~Stuck(c)' /\ ~Stuck(c)
  BY DEF FlowAt, StuckOK, Stuck
<1>2. toRemote[c] \in Seq(Units) /\ rbuf[c] \in Seq(Units)
  BY FlowTypes
<1>3. toRemote'[c] \o rbuf'[c] = toRemote[c]
  BY <1>2, ConcatEmptySeq
<1>4. \A i \in DOMAIN toRemote[c] : /\ i \in DOMAIN (toRemote[c] \o rbuf[c])
                                    /\ (toRemote[c] \o rbuf[c])[i] = toRemote[c][i]
  <2> DEFINE s == toRemote[c]
             t == rbuf[c]
  <2>1. s \in Seq(Units) /\ t \in Seq(Units)
    BY <1>2
  <2> HIDE DEF s, t
  <2>2. \A i \in DOMAIN s : i \in DOMAIN (s \o t) /\ (s \o t)[i] = s[i]
    BY <2>1, JoinedFront
  <2> QED BY <2>2 DEF s, t
<1>5. ToSet(toRemote[c]) \subseteq ToSet(toRemote[c] \o rbuf[c])
  BY <1>4 DEF ToSet
<1>6. InOrder(toRemote[c])
  BY <1>1, <1>4 DEF FlowAt, ForwardOK, InOrder
<1> QED BY <1>1, <1>3, <1>5, <1>6 DEF FlowAt, ForwardOK, StuckOK

\* The client is answered from the cache.
LEMMA C2RReplyFlow ==
  ASSUME IInv, Flow, NEW c \in Conns, C2RReply(c) PROVE Flow'
<1>1. /\ UNCHANGED <<logs, batch>>
      /\ \A d \in Conns \ {c} : FlowState(d)' = FlowState(d)
      /\ UNCHANGED <<reqs[c], toProxy[c], executed[c], fromRemote[c], data[c], chan[c],
                     r2c[c], cachedCtx[c], newCtx[c], ctx[c], toRemote[c]>>
  BY C2RElsewhere DEF C2RReply, C2R, c2rVars, r2cVars, clientVars, remoteVars, sockets,
                      shared, jobVars
<1>2. /\ c2r[c] = "reply"
      /\ \/ c2r'[c] = "log" /\ rbuf'[c] = rbuf[c] /\ ctx[c].sql \in Loggable
         \/ c2r'[c] = "read" /\ rbuf'[c] = <<>>
  BY FlowFunctions DEF C2RReply, At, Put, NextRequest
<1>3. ToSet(rbuf'[c]) \subseteq ToSet(rbuf[c])
  BY <1>2 DEF ToSet
<1>4. StuckOK(c)' /\ ForwardOK(c)'
  BY <1>1, <1>2, InHandStep, Dropped DEF Flow
<1>5. Fresh(c)' => Fresh(c)
  BY <1>2 DEF Fresh, InHands
<1> QED BY <1>1, <1>2, <1>3, <1>4, <1>5, C2RStep

\* The units go to MySQL, and the next ones may be read.
LEMMA C2RWriteFlow ==
  ASSUME IInv, Flow, NEW c \in Conns, C2RWrite(c) PROVE Flow'
<1>1. /\ UNCHANGED <<logs, batch>>
      /\ \A d \in Conns \ {c} : FlowState(d)' = FlowState(d)
      /\ UNCHANGED <<reqs[c], toProxy[c], executed[c], fromRemote[c], data[c], chan[c],
                     r2c[c], cachedCtx[c], newCtx[c], ctx[c]>>
  BY C2RElsewhere DEF C2RWrite, C2R, c2rVars, r2cVars, clientVars, remoteVars, sockets,
                      shared, jobVars
<1>2. /\ c2r[c] = "write"
      /\ \/ c2r'[c] = "read" /\ rbuf'[c] = <<>> /\ toRemote'[c] = toRemote[c] \o rbuf[c]
         \/ c2r'[c] = "write" /\ rbuf'[c] = rbuf[c] /\ toRemote'[c] = toRemote[c]
  BY FlowFunctions DEF C2RWrite, At, Put, NextRequest, Sent
<1>3. /\ ToSet(rbuf'[c]) \subseteq ToSet(rbuf[c])
      /\ ToSet(toRemote'[c]) \subseteq ToSet(toRemote[c]) \cup ToSet(rbuf[c])
  <2>1. ToSet(toRemote[c] \o rbuf[c]) = ToSet(toRemote[c]) \cup ToSet(rbuf[c])
    BY FlowTypes, ToSetJoined
  <2>2. ToSet(<<>>) = {}
    BY DEF ToSet
  <2> QED BY <1>2, <2>1, <2>2
<1>4. StuckOK(c)' /\ ForwardOK(c)'
  <2>1. CASE c2r'[c] = "write" /\ rbuf'[c] = rbuf[c] /\ toRemote'[c] = toRemote[c]
    BY <1>1, <1>2, <2>1, InHandStep DEF Flow
  <2>2. CASE c2r'[c] = "read" /\ rbuf'[c] = <<>> /\ toRemote'[c] = toRemote[c] \o rbuf[c]
    <3>1. ~Stuck(c) /\ ~Stuck(c)'
      BY <1>2, <2>2 DEF Flow, FlowAt, StuckOK, Stuck
    <3>2. toRemote[c] \o rbuf[c] \in Seq(Units)
      BY FlowTypes
    <3>3. toRemote'[c] \o rbuf'[c] = toRemote[c] \o rbuf[c]
      BY <2>2, <3>2, ConcatEmptySeq
    <3> QED BY <1>1, <2>2, <3>1, <3>3 DEF Flow, FlowAt, ForwardOK, StuckOK
  <2> QED BY <1>2, <2>1, <2>2
<1>5. ~Fresh(c)'
  BY <1>2 DEF Fresh, InHands
<1> QED BY <1>1, <1>2, <1>3, <1>4, <1>5, C2RStep

\* remote_to_client reads a piece, and may take the next context.
LEMMA R2CReadFlow ==
  ASSUME IInv, Flow, NEW c \in Conns, R2CRead(c) PROVE Flow'
<1>1. /\ UNCHANGED <<logs, batch>>
      /\ \A d \in Conns \ {c} : FlowState(d)' = FlowState(d)
      /\ UNCHANGED <<reqs[c], toProxy[c], executed[c], rbuf[c], toRemote[c], c2r[c], ctx[c]>>
  BY R2CElsewhere DEF R2CRead, R2C, c2rVars, clientVars, remoteVars, jobVars
<1>2. PICK k \in 1 .. Len(fromRemote[c]) :
        /\ data'[c] = SubSeq(fromRemote[c], 1, k)
        /\ fromRemote'[c] = SubSeq(fromRemote[c], k + 1, Len(fromRemote[c]))
  BY FlowFunctions DEF R2CRead, Put
<1>3. \A p \in ToSet(fromRemote'[c]) \cup ToSet(data'[c]) : p \in ToSet(fromRemote[c])
  BY <1>2, FlowTypes, ToSetSplit
<1>4. ~Flushing(c)
  BY DEF R2CRead, At, Flushing
<1>5. CASE chan[c] = <<>>
  <2>1. /\ UNCHANGED <<chan[c], cachedCtx[c], newCtx[c]>> /\ ~Flushing(c)'
    BY <1>5, FlowFunctions DEF R2CRead, Takes, Put, Flushing
  <2>2. Pending(c)' \subseteq Pending(c) /\ PendingInOrder(c)'
    BY <2>1, PendingStays DEF Flow, FlowAt
  <2> QED BY <1>1, <1>3, <2>2, R2CStep
<1>6. CASE chan[c] # <<>>
  <2>1. /\ Head(chan[c]) = chan[c][1] /\ 1 \in DOMAIN chan[c] /\ Tail(chan[c]) = <<>>
    BY <1>6, FlowTypes, AtMostOne
  <2>2. ToSet(<<>>) = {} /\ Head(chan[c]) \in ToSet(chan[c])
    BY <2>1 DEF ToSet
  <2>3. /\ chan'[c] = <<>>
        /\ \/ /\ cachedCtx'[c] = cachedCtx[c] /\ newCtx'[c] = Head(chan[c])
           \/ /\ cachedCtx'[c] = Head(chan[c]) /\ newCtx'[c] = newCtx[c] /\ ~Flushing(c)'
    BY <1>6, <2>1, FlowFunctions DEF R2CRead, Takes, Put, Flushing
  <2>4. r2c'[c] # "log"
    BY FlowFunctions DEF R2CRead, Put
  <2>5. Pending(c)' \subseteq Pending(c)
    BY <2>2, <2>3 DEF Pending
  <2>6. PendingInOrder(c)'
    BY <2>2, <2>3, <2>4 DEF Flow, FlowAt, PendingInOrder
  <2> QED BY <1>1, <1>3, <2>5, <2>6, R2CStep
<1> QED BY <1>5, <1>6

\* The flushed context gives way to the new one.
LEMMA Installed ==
  ASSUME NEW c, PendingInOrder(c), Flushing(c), chan'[c] = chan[c],
         \/ UNCHANGED <<cachedCtx[c], newCtx[c]>> /\ (r2c'[c] = "log" => OfRead(cachedCtx[c]))
         \/ cachedCtx'[c] = newCtx[c] /\ ~Flushing(c)'
  PROVE  Pending(c)' \subseteq Pending(c) /\ PendingInOrder(c)'
<1>1. CASE UNCHANGED <<cachedCtx[c], newCtx[c]>> /\ (r2c'[c] = "log" => OfRead(cachedCtx[c]))
  BY <1>1 DEF Pending, PendingInOrder
<1>2. CASE cachedCtx'[c] = newCtx[c] /\ ~Flushing(c)'
  <2>1. Pending(c)' \subseteq Pending(c)
    BY <1>2 DEF Pending
  <2>2. PendingInOrder(c)'
    BY <1>2 DEF PendingInOrder, Flushing
  <2> QED BY <2>1, <2>2
<1> QED BY <1>1, <1>2

\* A text with a pattern is that of a read.
LEMMA Patterned ==
  ASSUME NEW x, x.sql \in Loggable PROVE OfRead(x)
BY SessionAssumption DEF SessionAssumption, OfRead, NoCtx, NewCtx

\* A context is flushed without a record.
LEMMA R2CFlushFlow ==
  ASSUME IInv, Flow, NEW c \in Conns, R2CFinish(c) \/ R2CTask(c) PROVE Flow'
<1>1. /\ UNCHANGED <<logs, batch>>
      /\ \A d \in Conns \ {c} : FlowState(d)' = FlowState(d)
      /\ UNCHANGED <<reqs[c], toProxy[c], executed[c], rbuf[c], toRemote[c], c2r[c], ctx[c],
                     chan[c], fromRemote[c], data[c]>>
  BY R2CElsewhere DEF R2CFinish, R2CTask, R2C, SendTask, c2rVars, clientVars, remoteVars,
                      sockets, jobVars
<1>2. /\ Flushing(c)
      /\ \/ /\ UNCHANGED <<cachedCtx[c], newCtx[c]>>
            /\ r2c'[c] = "task" \/ (r2c'[c] = "log" /\ cachedCtx[c].sql \in Loggable)
         \/ cachedCtx'[c] = newCtx[c] /\ r2c'[c] = "respond"
  BY FlowFunctions DEF R2CFinish, R2CTask, At, Goto, LogOrInstall, Install, Replace, Put,
                       Flushing
<1>3. Pending(c)' \subseteq Pending(c) /\ PendingInOrder(c)'
  BY <1>1, <1>2, Installed, Patterned DEF Flow, FlowAt, Flushing
<1> QED BY <1>1, <1>3, R2CStep

\* remote_to_client is done with a piece of a reply, or with the session.
LEMMA R2CRestFlow ==
  ASSUME IInv, Flow, NEW c \in Conns, R2CEof(c) \/ R2CRespond(c) \/ R2CWrite(c) PROVE Flow'
<1>1. /\ UNCHANGED <<logs, batch>>
      /\ \A d \in Conns \ {c} : FlowState(d)' = FlowState(d)
      /\ UNCHANGED <<reqs[c], toProxy[c], executed[c], rbuf[c], toRemote[c], c2r[c], ctx[c],
                     chan[c], cachedCtx[c], newCtx[c], fromRemote[c]>>
  BY R2CElsewhere DEF R2CEof, R2CRespond, R2CWrite, R2C, Goto, c2rVars, r2cVars, clientVars,
                      remoteVars, sockets, shared, jobVars
<1>2. /\ data'[c] = data[c] \/ data'[c] = <<>>
      /\ r2c'[c] = r2c[c] \/ ~Flushing(c)'
  BY FlowFunctions DEF R2CEof, R2CRespond, R2CWrite, Goto, Put, Flushing, r2cVars
<1>3. ToSet(data'[c]) \subseteq ToSet(data[c])
  BY <1>2 DEF ToSet
<1>4. Pending(c)' \subseteq Pending(c) /\ PendingInOrder(c)'
  BY <1>1, <1>2, PendingStays DEF Flow, FlowAt, Flushing
<1> QED BY <1>1, <1>3, <1>4, R2CStep

\* A connection begins with the greeting, which answers no request.
LEMMA AcceptFlow ==
  ASSUME IInv, Flow, NEW c \in Conns, Accept(c) PROVE Flow'
<1>1. /\ UNCHANGED <<logs, batch>>
      /\ \A d \in Conns \ {c} : FlowState(d)' = FlowState(d)
      /\ UNCHANGED <<reqs[c], toProxy[c], executed[c], rbuf[c], toRemote[c], c2r[c], ctx[c],
                     chan[c], cachedCtx[c], newCtx[c], r2c[c], data[c]>>
  BY PeersElsewhere DEF Accept, c2rVars, r2cVars, clientVars, remoteVars, shared, jobVars
<1>2. fromRemote'[c] = fromRemote[c] \/ fromRemote'[c] = Reply(c, 0)
  BY FlowFunctions DEF Accept, Put
<1>3. \A p \in ToSet(Reply(c, 0)) : p.n = 0
  BY DEF ToSet, Reply
<1>4. Pending(c)' \subseteq Pending(c) /\ PendingInOrder(c)'
  BY <1>1, PendingStays DEF Flow, FlowAt, Flushing
<1> QED BY <1>1, <1>2, <1>3, <1>4, R2CStep

\* The client reads or leaves, MySQL leaves.
LEMMA PeersFlow ==
  ASSUME IInv, Flow, NEW c \in Conns, ClientRecv(c) \/ ClientClose(c) \/ RemoteClose(c)
  PROVE  Flow'
<1>1. UNCHANGED <<logs, batch>> /\ \A d \in Conns : FlowState(d)' = FlowState(d)
  BY DEF ClientRecv, ClientClose, RemoteClose, FlowState, c2rVars, r2cVars, clientVars,
         remoteVars, sockets, shared, jobVars
<1> QED BY <1>1, QuietStep

\* What is posted stays among the records, or leaves them.
LEMMA JobsFlow ==
  ASSUME IInv, Flow, Jobs PROVE Flow'
<1>1. \A d \in Conns : FlowState(d)' = FlowState(d)
  BY DEF Jobs, FlowState, c2rVars, r2cVars, clientVars, remoteVars, sockets, shared,
         sessionVars
<1>2. logs \in Seq(Logs) /\ batch \in Seq(Logs)
  BY DEF IInv, TypeOK, JobsTypeOK
<1>3. \/ UNCHANGED <<logs, batch>>
      \/ batch = <<>> /\ batch' = logs /\ logs' = <<>>
      \/ batch' = <<>> /\ logs' = logs
  BY DEF Jobs, AssistantNext, CacheTaskJob, MetricsTick, RegisterDone, RedisExpire
<1>4. /\ ToSet(<<>>) = {}
      /\ <<>> \o logs = logs /\ logs \o <<>> = logs
  BY <1>2, ConcatEmptySeq DEF ToSet
<1>5. \A d \in Conns : RecordsOf(d)' \subseteq RecordsOf(d)
  BY <1>3, <1>4 DEF RecordsOf
<1>6. RecordedOnce'
  <2>1. CASE UNCHANGED <<logs, batch>> \/ (batch = <<>> /\ batch' = logs /\ logs' = <<>>)
    BY <1>4, <2>1 DEF Flow, RecordedOnce
  <2>2. CASE batch' = <<>> /\ logs' = logs
    <3>1. \A i \in DOMAIN logs : /\ i + Len(batch) \in DOMAIN (batch \o logs)
                                 /\ (batch \o logs)[i + Len(batch)] = logs[i]
      BY <1>2
    <3>2. Len(batch) \in Nat /\ DOMAIN logs \subseteq Nat
      BY <1>2
    <3>3. \A i, j \in DOMAIN logs :
            logs[i].c = logs[j].c /\ logs[i].n = logs[j].n /\ logs[i].i = logs[j].i => i = j
      <4> SUFFICES ASSUME NEW i \in DOMAIN logs, NEW j \in DOMAIN logs,
                          logs[i].c = logs[j].c, logs[i].n = logs[j].n, logs[i].i = logs[j].i
                   PROVE  i = j
        OBVIOUS
      <4>1. i + Len(batch) = j + Len(batch)
        BY <3>1 DEF Flow, RecordedOnce
      <4> QED BY <3>2, <4>1
    <3> QED BY <1>4, <2>2, <3>3 DEF RecordedOnce
  <2> QED BY <1>3, <2>1, <2>2
<1> QED BY <1>1, <1>5, <1>6, FlowStays DEF Flow

\* Nothing changes.
LEMMA StutterFlow ==
  ASSUME Flow, UNCHANGED vars PROVE Flow'
<1>1. UNCHANGED <<logs, batch>> /\ \A d \in Conns : FlowState(d)' = FlowState(d)
  BY DEF FlowState, c2rVars, r2cVars, clientVars, remoteVars, sockets, shared, jobVars,
         sessionVars, vars
<1> QED BY <1>1, FlowStays, RecordsStay DEF Flow
-----------------------------------------------------------------------------
(***************************************************************************)
(* The steps that record an execution.                                     *)
(***************************************************************************)
LEMMA RecordAdded ==
  ASSUME IInv, RecordedOnce, NEW l \in Logs, batch' = batch, logs' = Append(logs, l),
         \A r \in RecordsOf(l.c) : ~SameRead(r, l)
  PROVE  /\ RecordedOnce'
         /\ RecordsOf(l.c)' = RecordsOf(l.c) \cup {l}
         /\ \A d \in Conns \ {l.c} : RecordsOf(d)' = RecordsOf(d)
<1> DEFINE sent == batch \o logs
<1>1. logs \in Seq(Logs) /\ batch \in Seq(Logs)
  BY DEF IInv, TypeOK, JobsTypeOK
<1>2. /\ sent \in Seq(Logs) /\ Len(sent) \in Nat /\ DOMAIN sent = 1 .. Len(sent)
      /\ \A i \in DOMAIN sent : sent[i] \in ToSet(batch) \cup ToSet(logs)
  <2>1. ToSet(sent) = ToSet(batch) \cup ToSet(logs)
    BY <1>1, ToSetJoined
  <2>2. \A i \in DOMAIN sent : sent[i] \in ToSet(sent)
    BY DEF ToSet
  <2> QED BY <1>1, <2>1, <2>2
<1>3. batch' \o logs' = Append(sent, l)
  BY <1>1
<1>4. /\ DOMAIN Append(sent, l) = 1 .. Len(sent) + 1 /\ Append(sent, l)[Len(sent) + 1] = l
      /\ \A i \in 1 .. Len(sent) : Append(sent, l)[i] = sent[i]
  BY <1>2
<1>5. \A i \in DOMAIN sent : sent[i].c = l.c => ~SameRead(sent[i], l)
  BY <1>2 DEF RecordsOf
<1>6. RecordedOnce'
  <2>1. \A i, j \in DOMAIN sent : sent[i].c = sent[j].c /\ SameRead(sent[i], sent[j]) => i = j
    BY DEF RecordedOnce, SameRead
  <2>2. \A i, j \in DOMAIN Append(sent, l) :
          /\ Append(sent, l)[i].c = Append(sent, l)[j].c
          /\ SameRead(Append(sent, l)[i], Append(sent, l)[j])
          => i = j
    <3> DEFINE more == Append(sent, l)
    <3>1. /\ DOMAIN more = 1 .. Len(sent) + 1 /\ more[Len(sent) + 1] = l
          /\ \A i \in DOMAIN sent : more[i] = sent[i]
          /\ DOMAIN sent = 1 .. Len(sent) /\ Len(sent) \in Nat
      BY <1>2, <1>4
    <3> HIDE DEF sent, more
    <3> SUFFICES ASSUME NEW i \in DOMAIN more, NEW j \in DOMAIN more,
                        more[i].c = more[j].c, SameRead(more[i], more[j])
                 PROVE  i = j
      BY DEF more
    <3>2. CASE i \in DOMAIN sent /\ j \in DOMAIN sent
      BY <2>1, <3>1, <3>2
    <3>3. CASE i = Len(sent) + 1 /\ j \in DOMAIN sent
      BY <1>5, <3>1, <3>3 DEF SameRead
    <3>4. CASE j = Len(sent) + 1 /\ i \in DOMAIN sent
      BY <1>5, <3>1, <3>4
    <3> QED BY <3>1, <3>2, <3>3, <3>4
  <2>3. \A i, j \in DOMAIN (batch' \o logs') :
          (batch' \o logs')[i].c = (batch' \o logs')[j].c
            /\ SameRead((batch' \o logs')[i], (batch' \o logs')[j]) => i = j
    <3> HIDE DEF sent
    <3> QED BY <1>3, <2>2
  <2> QED BY <2>3 DEF RecordedOnce, SameRead
<1>7. ToSet(logs') = ToSet(logs) \cup {l}
  <2>1. logs' \in Seq(Logs) /\ Len(logs) \in Nat /\ DOMAIN logs = 1 .. Len(logs)
        /\ DOMAIN logs' = 1 .. Len(logs) + 1 /\ logs'[Len(logs) + 1] = l
        /\ \A i \in 1 .. Len(logs) : logs'[i] = logs[i]
    BY <1>1
  <2>2. ToSet(logs') \subseteq ToSet(logs) \cup {l}
    BY <2>1 DEF ToSet
  <2>3. \A i \in DOMAIN logs : i \in DOMAIN logs' /\ logs[i] = logs'[i]
    BY <2>1
  <2>4. Len(logs) + 1 \in DOMAIN logs'
    BY <2>1
  <2> QED BY <2>1, <2>2, <2>3, <2>4 DEF ToSet
<1>8. /\ RecordsOf(l.c)' = RecordsOf(l.c) \cup {l}
      /\ \A d \in Conns \ {l.c} : RecordsOf(d)' = RecordsOf(d)
  BY <1>7 DEF RecordsOf
<1> QED BY <1>6, <1>8

\* An answer from the cache is recorded: its request was the last to be read.
LEMMA C2RLogFlow ==
  ASSUME IInv, Flow, NEW c \in Conns, C2RLog(c) PROVE Flow'
<1> DEFINE l == Log(c, ctx[c])
<1>1. /\ \A d \in Conns \ {c} : FlowState(d)' = FlowState(d)
      /\ UNCHANGED <<reqs[c], toProxy[c], executed[c], fromRemote[c], data[c], chan[c],
                     r2c[c], cachedCtx[c], newCtx[c], ctx[c], toRemote[c]>>
      /\ batch' = batch /\ logs' = Append(logs, l)
      /\ c2r[c] = "log" /\ c2r'[c] = "read" /\ rbuf'[c] = <<>>
  BY C2RElsewhere, FlowFunctions
     DEF C2RLog, C2R, SendLog, NextRequest, At, Put, r2cVars, clientVars, remoteVars, sockets
<1>2. FlowAt(c) /\ RecordedOnce
  BY DEF Flow
<1>3. Fresh(c) /\ ~Fresh(c)'
  BY <1>1, <1>2 DEF FlowAt, FreshOK, Fresh, InHands
<1>4. /\ l \in Logs /\ l.c = c /\ l.n = ctx[c].n /\ l.i = ctx[c].i
      /\ ctx[c].n \in Nat /\ ctx[c].i \in Nat
      /\ \A r \in RecordsOf(c) : Before(r, ctx[c])
  BY <1>2, <1>3, FlowTypes DEF Log, Logs, Ctxs, FlowAt, RecordsOK
<1>5. \A r \in RecordsOf(c) : ~SameRead(r, l)
  BY <1>4, BeforeIsStrict DEF SameRead
<1>6. /\ RecordedOnce' /\ RecordsOf(c)' = RecordsOf(c) \cup {l}
      /\ \A d \in Conns \ {c} : RecordsOf(d)' = RecordsOf(d)
  <2> HIDE DEF l
  <2> QED BY <1>1, <1>2, <1>4, <1>5, RecordAdded
<1>7. Pending(c)' = Pending(c) /\ PendingInOrder(c)'
  BY <1>1, <1>2 DEF Pending, PendingInOrder, Flushing, FlowAt
<1>8. ToSet(<<>>) = {}
  BY DEF ToSet
<1>9. UnitsOK(c)' /\ StuckOK(c)' /\ ExecutedOK(c)' /\ ForwardOK(c)'
  <2>1. UnitsOK(c)' /\ ExecutedOK(c)'
    BY <1>1, <1>2, <1>8 DEF FlowAt, UnitsOK, ExecutedOK
  <2>2. StuckOK(c)' /\ ForwardOK(c)'
    BY <1>1, <1>2, Dropped
  <2> QED BY <2>1, <2>2
<1>10. FreshOK(c)' /\ PendingOK(c)'
  BY <1>1, <1>2, <1>3, <1>7 DEF FlowAt, FreshOK, PendingOK
<1>11. RecordsOK(c)'
  <2> SUFFICES ASSUME NEW r \in RecordsOf(c)'
               PROVE  /\ r.n \in DOMAIN reqs[c]
                      /\ \A v \in ToSet(toProxy[c]) : Before(r, v)
                      /\ \A x \in Pending(c) : OfRead(x) => ~SameRead(r, x)
                      /\ r.from_cache => /\ r.n \notin executed[c]
                                         /\ r.i \in DOMAIN Frames[reqs[c][r.n]]
                                         /\ \A u \in ToSet(toRemote[c]) : ~SameRead(r, u)
    BY <1>1, <1>3, <1>7, <1>8 DEF RecordsOK
  <2>1. CASE r \in RecordsOf(c)
    <3>1. RecordsOK(c)
      BY <1>2 DEF FlowAt
    <3> QED BY <2>1, <3>1 DEF RecordsOK
  <2>2. CASE r = l
    <3>1. r.n = ctx[c].n /\ r.i = ctx[c].i
      BY <1>4, <2>2
    <3>2. /\ ctx[c].n \in DOMAIN reqs[c] /\ ctx[c].i \in DOMAIN Frames[reqs[c][ctx[c].n]]
          /\ \A v \in ToSet(toProxy[c]) : Before(ctx[c], v)
      BY <1>2, <1>3 DEF FlowAt, FreshOK
    <3>3. \A x \in Pending(c) : OfRead(x) => ~SameRead(ctx[c], x)
      <4>1. PendingOK(c)
        BY <1>2 DEF FlowAt
      <4>2. \A x \in Pending(c) : OfRead(x) => Before(x, ctx[c])
        BY <1>3, <4>1 DEF PendingOK
      <4> QED BY <1>4, <4>2, BeforeIsStrict
    <3>4. ctx[c].n \notin executed[c]
      BY <1>2, <1>3, <1>4 DEF FlowAt, FreshOK
    <3>5. \A u \in ToSet(toRemote[c]) : ~SameRead(ctx[c], u)
      BY <1>2, <1>3, <1>4, BeforeIsStrict DEF FlowAt, FreshOK
    <3> QED BY <3>1, <3>2, <3>3, <3>4, <3>5 DEF SameRead, Before
  <2> QED BY <1>6, <2>1, <2>2
<1>12. FlowAt(c)'
  BY <1>7, <1>9, <1>10, <1>11 DEF FlowAt
<1> QED BY <1>1, <1>6, <1>12, FlowNext

\* A flushed context is recorded: it precedes all contexts that stay.
LEMMA R2CLogFlow ==
  ASSUME IInv, Flow, NEW c \in Conns, R2CLog(c) PROVE Flow'
<1> DEFINE l == Log(c, cachedCtx[c])
<1>1. /\ \A d \in Conns \ {c} : FlowState(d)' = FlowState(d)
      /\ UNCHANGED <<reqs[c], toProxy[c], executed[c], fromRemote[c], data[c], chan[c],
                     c2r[c], rbuf[c], ctx[c], toRemote[c]>>
      /\ batch' = batch /\ logs' = Append(logs, l)
      /\ r2c[c] = "log" /\ r2c'[c] = "respond" /\ cachedCtx'[c] = newCtx[c]
  BY R2CElsewhere, FlowFunctions
     DEF R2CLog, R2C, SendLog, Install, Replace, At, Put, c2rVars, clientVars, remoteVars,
         sockets
<1>2. FlowAt(c) /\ RecordedOnce
  BY DEF Flow
<1>3. /\ Flushing(c) /\ ~Flushing(c)' /\ cachedCtx[c] \in Pending(c)
      /\ Fresh(c)' = Fresh(c)
  BY <1>1 DEF Flushing, Pending, Fresh
<1>4. Pending(c)' = ToSet(chan[c]) \cup {newCtx[c]} /\ Pending(c)' \subseteq Pending(c)
  BY <1>1, <1>3 DEF Pending
<1>5. OfRead(cachedCtx[c]) /\ ~cachedCtx[c].from_cache
  BY <1>1, <1>2, <1>3 DEF FlowAt, PendingOK, PendingInOrder
<1>6. /\ l \in Logs /\ l.c = c /\ l.n = cachedCtx[c].n /\ l.i = cachedCtx[c].i
      /\ ~l.from_cache
      /\ \A r \in RecordsOf(c) : ~SameRead(r, l)
  BY <1>2, <1>3, <1>5, FlowTypes DEF Log, Logs, Ctxs, FlowAt, RecordsOK, SameRead
<1>7. /\ RecordedOnce' /\ RecordsOf(c)' = RecordsOf(c) \cup {l}
      /\ \A d \in Conns \ {c} : RecordsOf(d)' = RecordsOf(d)
  <2> HIDE DEF l
  <2> QED BY <1>1, <1>2, <1>6, RecordAdded
<1>8. UnitsOK(c)' /\ StuckOK(c)' /\ ExecutedOK(c)' /\ ForwardOK(c)'
  BY <1>1, <1>2 DEF FlowAt, UnitsOK, StuckOK, ExecutedOK, ForwardOK, Stuck, PacketType
<1>9. FreshOK(c)' /\ PendingOK(c)'
  BY <1>1, <1>2, <1>3, <1>4 DEF FlowAt, FreshOK, PendingOK
<1>10. PendingInOrder(c)'
  BY <1>1, <1>2, <1>3 DEF FlowAt, PendingInOrder
<1>11. RecordsOK(c)'
  <2> SUFFICES ASSUME NEW r \in RecordsOf(c)'
               PROVE  /\ r.n \in DOMAIN reqs[c]
                      /\ \A v \in ToSet(toProxy[c]) : Before(r, v)
                      /\ Fresh(c) => Before(r, ctx[c])
                      /\ \A x \in ToSet(chan[c]) \cup {newCtx[c]} : OfRead(x) => ~SameRead(r, x)
                      /\ r.from_cache => /\ r.n \notin executed[c]
                                         /\ r.i \in DOMAIN Frames[reqs[c][r.n]]
                                         /\ \A u \in ToSet(rbuf[c]) \cup ToSet(toRemote[c]) :
                                              ~SameRead(r, u)
    BY <1>1, <1>3, <1>4 DEF RecordsOK
  <2>1. CASE r \in RecordsOf(c)
    <3>1. RecordsOK(c)
      BY <1>2 DEF FlowAt
    <3> QED BY <1>4, <2>1, <3>1 DEF RecordsOK
  <2>2. CASE r = l
    <3>1. r.n = cachedCtx[c].n /\ r.i = cachedCtx[c].i /\ ~r.from_cache
      BY <1>6, <2>2
    <3>2. /\ cachedCtx[c].n \in DOMAIN reqs[c]
          /\ \A v \in ToSet(toProxy[c]) : Before(cachedCtx[c], v)
          /\ Fresh(c) => Before(cachedCtx[c], ctx[c])
      <4>1. PendingOK(c)
        BY <1>2 DEF FlowAt
      <4> QED BY <1>3, <1>5, <4>1 DEF PendingOK
    <3>3. ASSUME NEW x \in ToSet(chan[c]) \cup {newCtx[c]}, OfRead(x)
          PROVE  ~SameRead(cachedCtx[c], x)
      <4>1. Before(cachedCtx[c], x)
        BY <1>2, <1>3, <1>5, <3>3 DEF FlowAt, PendingInOrder, Follows
      <4>2. x \in Ctxs
        BY FlowTypes DEF ToSet
      <4> QED BY <4>1, <4>2, BeforeIsStrict DEF Ctxs
    <3> QED BY <3>1, <3>2, <3>3 DEF SameRead, Before
  <2> QED BY <1>7, <2>1, <2>2
<1>12. FlowAt(c)'
  BY <1>8, <1>9, <1>10, <1>11 DEF FlowAt
<1> QED BY <1>1, <1>7, <1>12, FlowNext
-----------------------------------------------------------------------------
(***************************************************************************)
(* The steps that bring a request on its way.                              *)
(***************************************************************************)
\* The context of the request in hand is passed on, behind all others.
LEMMA C2RSendFlow ==
  ASSUME IInv, Flow, NEW c \in Conns, C2RSend(c) PROVE Flow'
<1>1. /\ UNCHANGED <<logs, batch>>
      /\ \A d \in Conns \ {c} : FlowState(d)' = FlowState(d)
      /\ UNCHANGED <<reqs[c], toProxy[c], executed[c], fromRemote[c], data[c], rbuf[c],
                     r2c[c], cachedCtx[c], newCtx[c], ctx[c], toRemote[c]>>
  BY C2RElsewhere DEF C2RSend, C2R, r2cVars, clientVars, remoteVars, sockets, jobVars
<1>2. /\ c2r[c] = "send" /\ c2r'[c] = "write" /\ Len(chan[c]) = 0
      /\ chan'[c] = Append(chan[c], ctx[c])
  BY FlowFunctions, FlowTypes DEF C2RSend, At, Put, ChanCap
<1>3. ToSet(chan[c]) = {} /\ ToSet(chan'[c]) = {ctx[c]}
  <2>1. chan[c] = <<>>
    BY <1>2, FlowTypes, EmptySeq
  <2>2. chan'[c] = <<ctx[c]>>
    BY <1>2, <2>1
  <2> QED BY <2>1, <2>2 DEF ToSet
<1>4. FlowAt(c)
  BY DEF Flow
<1>5. /\ Pending(c)' = Pending(c) \cup {ctx[c]}
      /\ cachedCtx[c] \in Pending(c) /\ (Flushing(c) => newCtx[c] \in Pending(c))
      /\ Flushing(c)' = Flushing(c)
  BY <1>1, <1>3 DEF Pending, Flushing
<1>6. ~Fresh(c)' /\ Fresh(c) /\ ~ctx[c].from_cache
  BY <1>2, <1>4 DEF Fresh, InHands, FlowAt, FreshOK
<1>7. UnitsOK(c)' /\ StuckOK(c)' /\ ExecutedOK(c)' /\ ForwardOK(c)'
  BY <1>1, <1>2, <1>4, InHandStep DEF FlowAt, UnitsOK, ExecutedOK
<1>8. FreshOK(c)'
  BY <1>2, <1>6 DEF FreshOK
<1>9. PendingOK(c)'
  <2>1. PendingOK(c) /\ FreshOK(c)
    BY <1>4 DEF FlowAt
  <2> QED BY <1>1, <1>5, <1>6, <2>1 DEF PendingOK, FreshOK
<1>10. PendingInOrder(c)'
  <2>1. \A x \in Pending(c) : Follows(ctx[c], x)
    <3>1. PendingOK(c)
      BY <1>4 DEF FlowAt
    <3> QED BY <1>6, <3>1 DEF PendingOK, Follows
  <2>2. \A y \in ToSet(chan'[c]) : /\ Follows(y, cachedCtx[c])
                                   /\ Flushing(c) => Follows(y, newCtx[c])
    BY <1>3, <1>5, <2>1
  <2> QED BY <1>1, <1>4, <1>5, <2>2 DEF PendingInOrder, FlowAt
<1>11. RecordsOK(c)'
  <2>1. RecordsOf(c)' = RecordsOf(c)
    BY <1>1, RecordsStay
  <2>2. \A l \in RecordsOf(c) : ~SameRead(l, ctx[c])
    <3>1. \A l \in RecordsOf(c) : Before(l, ctx[c])
      BY <1>4, <1>6 DEF FlowAt, RecordsOK
    <3>2. ctx[c].n \in Nat /\ ctx[c].i \in Nat
      BY FlowTypes DEF Ctxs
    <3> QED BY <3>1, <3>2, BeforeIsStrict
  <2> QED BY <1>1, <1>4, <1>5, <1>6, <2>1, <2>2 DEF FlowAt, RecordsOK
<1>12. FlowAt(c)'
  BY <1>7, <1>8, <1>9, <1>10, <1>11 DEF FlowAt
<1> QED BY <1>1, <1>12, FlowNextQuiet

\* What follows the last unit of a request is of later requests.
LEMMA AfterPacket ==
  ASSUME IInv, NEW c \in Conns, NEW n \in DOMAIN reqs[c], NEW u, u.n = n,
         u.i = Len(Frames[reqs[c][n]]), NEW v, v.n \in DOMAIN reqs[c],
         v.i \in DOMAIN Frames[reqs[c][v.n]], Before(u, v)
  PROVE  n < v.n
<1>1. reqs[c][n] \in Stmts /\ n \in Nat /\ v.n \in Nat
  BY FlowTypes
<1>2. Frames[reqs[c][n]] \in Seq(FrameTypes)
  BY <1>1, SessionAssumption DEF SessionAssumption
<1>3. /\ DOMAIN Frames[reqs[c][n]] = 1 .. Len(Frames[reqs[c][n]])
      /\ Len(Frames[reqs[c][n]]) \in Nat
  BY <1>2, LenProperties
<1> QED BY <1>1, <1>3 DEF Before

\* What a read takes, and the context it makes.
LEMMA ReadTakes ==
  ASSUME IInv, NEW c \in Conns, C2RRead(c)
  PROVE  \E k \in 1 .. Len(toProxy[c]) :
           /\ rbuf'[c] = rbuf[c] \o SubSeq(toProxy[c], 1, k)
           /\ toProxy'[c] = SubSeq(toProxy[c], k + 1, Len(toProxy[c]))
           /\ c2r[c] = "read"
           /\ \/ PacketType(c, rbuf'[c]) = "Invalid" /\ c2r'[c] = "raw"
              \/ /\ PacketType(c, rbuf'[c]) # "Invalid" /\ c2r'[c] = "lock"
                 /\ LET u == rbuf'[c][1]
                        s == reqs[c][u.n]
                    IN /\ ctx'[c].n = u.n /\ ctx'[c].i = u.i /\ ~ctx'[c].from_cache
                       /\ ctx'[c].sql \in {NoStmt, s} \cup Scraps[s]
<1> DEFINE us(k) == rbuf[c] \o SubSeq(toProxy[c], 1, k)
<1>1. PICK k \in 1 .. Len(toProxy[c]) :
        LET invalid == PacketType(c, us(k)) = "Invalid"
        IN /\ rbuf' = Put(rbuf, c, us(k))
           /\ toProxy' = Put(toProxy, c, SubSeq(toProxy[c], k + 1, Len(toProxy[c])))
           /\ IF invalid THEN UNCHANGED ctx
              ELSE \E text \in TextsOf(c, us(k)) : ctx' = Put(ctx, c, NewCtx(us(k)[1], text))
           /\ c2r' = Put(c2r, c, IF invalid THEN "raw" ELSE "lock")
           /\ c2r[c] = "read"
  BY DEF C2RRead, At
<1> HIDE DEF us
<1>2. /\ rbuf'[c] = us(k) /\ toProxy'[c] = SubSeq(toProxy[c], k + 1, Len(toProxy[c]))
      /\ c2r'[c] = IF PacketType(c, us(k)) = "Invalid" THEN "raw" ELSE "lock"
      /\ PacketType(c, us(k)) # "Invalid" =>
           \E text \in TextsOf(c, us(k)) : ctx'[c] = NewCtx(us(k)[1], text)
  BY <1>1, FlowFunctions DEF Put
<1>3. \A text \in TextsOf(c, us(k)) :
        LET u == us(k)[1]
            s == reqs[c][u.n]
            x == NewCtx(u, text)
        IN x.n = u.n /\ x.i = u.i /\ ~x.from_cache /\ x.sql \in {NoStmt, s} \cup Scraps[s]
  BY DEF TextsOf, NewCtx
<1> QED BY <1>1, <1>2, <1>3 DEF us

\* client_to_remote reads.  A context made is that of the first unit read.
LEMMA C2RReadFlow ==
  ASSUME IInv, Flow, NEW c \in Conns, C2RRead(c) PROVE Flow'
<1>1. /\ UNCHANGED <<logs, batch>>
      /\ \A d \in Conns \ {c} : FlowState(d)' = FlowState(d)
      /\ UNCHANGED <<reqs[c], toRemote[c], executed[c], fromRemote[c], data[c], chan[c],
                     r2c[c], cachedCtx[c], newCtx[c]>>
  BY C2RElsewhere DEF C2RRead, C2R, r2cVars, clientVars, remoteVars, jobVars
<1>2. FlowAt(c)
  BY DEF Flow
<1> DEFINE all  == toProxy[c]
           us   == rbuf'[c]
           left == toProxy'[c]
<1>3. PICK k \in 1 .. Len(all) :
        /\ us = rbuf[c] \o SubSeq(all, 1, k) /\ left = SubSeq(all, k + 1, Len(all))
        /\ c2r[c] = "read"
        /\ \/ PacketType(c, us) = "Invalid" /\ c2r'[c] = "raw"
           \/ /\ PacketType(c, us) # "Invalid" /\ c2r'[c] = "lock"
              /\ ctx'[c].n = us[1].n /\ ctx'[c].i = us[1].i /\ ~ctx'[c].from_cache
  BY ReadTakes
<1> DEFINE taken == SubSeq(all, 1, k)
<1>4. /\ all \in Seq(Units) /\ taken \in Seq(Units) /\ left \in Seq(Units)
      /\ us = rbuf[c] \o taken /\ taken # <<>>
      /\ \A i \in DOMAIN taken : i \in 1 .. k /\ i \in DOMAIN all /\ taken[i] = all[i]
      /\ \A i \in DOMAIN left : i \in Nat \ {0} /\ i + k \in DOMAIN all /\ left[i] = all[i + k]
  <2>1. all \in Seq(Units)
    BY FlowTypes
  <2>2. /\ taken \in Seq(Units) /\ Len(taken) = k
        /\ \A i \in DOMAIN taken : i \in DOMAIN all /\ taken[i] = all[i]
    BY <2>1, ReadSplit
  <2>3. /\ left \in Seq(Units)
        /\ \A i \in DOMAIN left : i + k \in DOMAIN all /\ left[i] = all[i + k]
    <3>1. left = SubSeq(all, k + 1, Len(all))
      BY <1>3
    <3> HIDE DEF all, left
    <3> QED BY <2>1, <3>1, ReadSplit
  <2>4. us = rbuf[c] \o taken
    BY <1>3
  <2> HIDE DEF all, us, left, taken
  <2>5. taken # <<>> /\ \A i \in DOMAIN taken : i \in 1 .. k
    BY <2>2
  <2>6. \A i \in DOMAIN left : i \in Nat \ {0}
    BY <2>3
  <2> QED BY <2>1, <2>2, <2>3, <2>4, <2>5, <2>6
<1> HIDE DEF all, us, left, taken
<1>5. /\ ToSet(taken) \subseteq ToSet(all) /\ ToSet(left) \subseteq ToSet(all)
      /\ ToSet(us) = ToSet(rbuf[c]) \cup ToSet(taken)
  <2>1. ToSet(rbuf[c] \o taken) = ToSet(rbuf[c]) \cup ToSet(taken)
    BY <1>4, FlowTypes, ToSetJoined
  <2> QED BY <1>4, <2>1 DEF ToSet
<1>6. /\ \A u \in ToSet(taken), v \in ToSet(left) : Before(u, v)
      /\ InOrder(left) /\ InOrder(taken)
  <2>1. \A i, j \in DOMAIN all : i < j => Before(all[i], all[j])
    BY <1>2 DEF FlowAt, UnitsOK, InOrder, all
  <2>2. \A i \in DOMAIN taken, j \in DOMAIN left : Before(taken[i], left[j])
    <3> SUFFICES ASSUME NEW i \in DOMAIN taken, NEW j \in DOMAIN left PROVE i < j + k
      BY <1>4, <2>1
    <3> QED BY <1>4
  <2>3. \A i, j \in DOMAIN left : i < j => Before(left[i], left[j])
    <3> SUFFICES ASSUME NEW i \in DOMAIN left, NEW j \in DOMAIN left, i < j PROVE i + k < j + k
      BY <1>4, <2>1
    <3> QED BY <1>4
  <2>4. \A i, j \in DOMAIN taken : i < j => Before(taken[i], taken[j])
    BY <1>4, <2>1
  <2> QED BY <2>2, <2>3, <2>4 DEF ToSet, InOrder
<1>7. UnitsOK(c)'
  <2>1. \A u \in ToSet(us) \cup ToSet(toRemote[c]), v \in ToSet(left) : Before(u, v)
    BY <1>2, <1>5, <1>6 DEF FlowAt, UnitsOK, all
  <2> QED BY <1>1, <1>2, <1>5, <1>6, <2>1 DEF FlowAt, UnitsOK, all, us, left
<1>8. us # <<>> /\ StuckOK(c)' /\ (Stuck(c)' <=> PacketType(c, us) = "Invalid")
  <2>1. us # <<>>
    <3>1. Len(us) = Len(rbuf[c]) + Len(taken) /\ Len(taken) \in Nat \ {0} /\ Len(rbuf[c]) \in Nat
      BY <1>4, FlowTypes, EmptySeq
    <3> QED BY <3>1
  <2> QED BY <1>1, <1>3, <2>1 DEF StuckOK, Stuck, PacketType, us
<1>9. ExecutedOK(c)'
  BY <1>1, <1>2, <1>5 DEF FlowAt, ExecutedOK, all, left
<1>10. ASSUME c2r'[c] = "lock"
       PROVE  /\ ~Stuck(c) /\ rbuf[c] = <<>> /\ us = taken
              /\ \E f \in ToSet(all) :
                   /\ ctx'[c].n = f.n /\ f.n \in DOMAIN reqs[c]
                   /\ ctx'[c].i = f.i /\ f.i \in DOMAIN Frames[reqs[c][f.n]]
                   /\ \A v \in ToSet(left) : Before(f, v)
                   /\ \A u \in ToSet(toRemote[c]) : Before(u, f)
  <2>1. /\ PacketType(c, us) # "Invalid"
        /\ ctx'[c].n = us[1].n /\ ctx'[c].i = us[1].i
    BY <1>3, <1>10
  <2>2. rbuf[c] = <<>> /\ ~Stuck(c)
    <3> SUFFICES ASSUME rbuf[c] # <<>> PROVE FALSE
      BY DEF Stuck
    <3>1. PacketType(c, rbuf[c]) = "Invalid"
      BY <1>2, <1>3 DEF FlowAt, StuckOK, Stuck
    <3>2. us[1] = rbuf[c][1]
      <4>1. Len(rbuf[c]) \in Nat \ {0} /\ rbuf[c] \in Seq(Units)
        BY FlowTypes, EmptySeq
      <4> QED BY <1>4, <4>1
    <3> QED BY <2>1, <3>1, <3>2 DEF PacketType
  <2>3. us = taken
    BY <1>4, <2>2, ConcatEmptySeq
  <2> DEFINE f == us[1]
  <2>4. f \in ToSet(taken)
    <3>1. Len(taken) \in Nat \ {0}
      BY <1>4, EmptySeq
    <3>2. 1 \in DOMAIN taken
      BY <1>4, <3>1, LenProperties
    <3> QED BY <2>3, <3>2 DEF ToSet
  <2>5. f \in ToSet(all) /\ \A v \in ToSet(left) : Before(f, v)
    BY <1>5, <1>6, <2>4
  <2>6. /\ f.n \in DOMAIN reqs[c] /\ f.i \in DOMAIN Frames[reqs[c][f.n]]
        /\ \A u \in ToSet(toRemote[c]) : Before(u, f)
    BY <1>2, <2>5 DEF FlowAt, UnitsOK, all
  <2> QED BY <2>1, <2>2, <2>3, <2>5, <2>6
<1>11. ForwardOK(c)'
  <2>1. CASE c2r'[c] # "lock"
    BY <1>3, <1>8, <2>1 DEF ForwardOK
  <2>2. CASE c2r'[c] = "lock"
    <3>1. toRemote[c] \in Seq(Units) /\ toRemote[c] \o rbuf[c] = toRemote[c]
      BY <1>10, <2>2, FlowTypes, ConcatEmptySeq
    <3>2. InOrder(toRemote[c]) /\ \A n \in executed[c], u \in ToSet(toRemote[c]) : n < u.n
      BY <1>2, <1>10, <2>2, <3>1 DEF FlowAt, ForwardOK
    <3>3. \A u \in ToSet(toRemote[c]), v \in ToSet(taken) : Before(u, v)
      BY <1>2, <1>5 DEF FlowAt, UnitsOK, all
    <3>4. InOrder(toRemote[c] \o taken)
      BY <1>4, <1>6, <3>1, <3>2, <3>3, JoinedInOrder
    <3>5. ToSet(toRemote[c] \o taken) = ToSet(toRemote[c]) \cup ToSet(taken)
      BY <1>4, <3>1, ToSetJoined
    <3>6. \A n \in executed[c], u \in ToSet(taken) : n < u.n
      BY <1>2, <1>5 DEF FlowAt, ExecutedOK, all
    <3> QED BY <1>1, <1>10, <2>2, <3>2, <3>4, <3>5, <3>6 DEF ForwardOK, us
  <2> QED BY <2>1, <2>2
<1>12. /\ c2r'[c] \in {"raw", "lock"}
       /\ c2r'[c] = "lock" => ~ctx'[c].from_cache
       /\ Fresh(c)' => c2r'[c] = "lock"
       /\ Pending(c)' = Pending(c) /\ RecordsOf(c)' = RecordsOf(c)
  BY <1>1, <1>3, RecordsStay DEF Pending, Flushing, Fresh, InHands
<1>13. FreshOK(c)'
  <2>1. ASSUME Fresh(c)'
        PROVE  /\ ctx'[c].n \in DOMAIN reqs[c]
               /\ ctx'[c].i \in DOMAIN Frames[reqs[c][ctx'[c].n]]
               /\ \A u \in ToSet(toRemote[c]) : Before(u, ctx'[c])
               /\ \A n \in executed[c] : n < ctx'[c].n
               /\ \A v \in ToSet(left) : Before(ctx'[c], v)
    BY <1>2, <1>10, <1>12, <2>1 DEF FlowAt, ExecutedOK, Before, all
  <2> QED BY <1>1, <1>12, <2>1 DEF FreshOK, left
<1>14. PendingOK(c)'
  <2>1. PendingOK(c)
    BY <1>2 DEF FlowAt
  <2>2. \A x \in Pending(c) : OfRead(x) /\ Fresh(c)' => Before(x, ctx'[c])
    <3>1. \A x \in Pending(c) : OfRead(x) => \A v \in ToSet(all) : Before(x, v)
      BY <2>1 DEF PendingOK, all
    <3> QED BY <1>10, <1>12, <3>1 DEF Before
  <2> QED BY <1>1, <1>5, <1>12, <2>1, <2>2 DEF PendingOK, all, left
<1>15. PendingInOrder(c)'
  BY <1>1, <1>2 DEF FlowAt, PendingInOrder, Flushing
<1>16. RecordsOK(c)'
  <2>1. \A l \in RecordsOf(c) : Fresh(c)' => Before(l, ctx'[c])
    BY <1>2, <1>10, <1>12 DEF FlowAt, RecordsOK, Before, all
  <2>2. \A l \in RecordsOf(c), u \in ToSet(us) : l.from_cache => ~SameRead(l, u)
    <3>1. \A l \in RecordsOf(c), u \in ToSet(taken) : Before(l, u) /\ u \in Units
      BY <1>2, <1>4, <1>5 DEF FlowAt, RecordsOK, ToSet, all
    <3>2. \A l \in RecordsOf(c), u \in ToSet(taken) : ~SameRead(l, u)
      BY <3>1, BeforeIsStrict DEF Units
    <3> QED BY <1>2, <1>5, <3>2 DEF FlowAt, RecordsOK
  <2> QED BY <1>1, <1>2, <1>5, <1>12, <2>1, <2>2 DEF FlowAt, RecordsOK, all, us, left
<1>17. FlowAt(c)'
  BY <1>7, <1>8, <1>9, <1>13, <1>14, <1>15, <1>16,
     <1>11 DEF FlowAt
<1> QED BY <1>1, <1>17, FlowNextQuiet

\* The client sends one more statement: its units come after all others.
LEMMA ClientSendFlow ==
  ASSUME IInv, Flow, NEW c \in Conns, NEW s \in Stmts, ClientSend(c, s) PROVE Flow'
<1> DEFINE m == Len(reqs[c]) + 1
           p == [i \in DOMAIN Frames[s] |-> [n |-> m, i |-> i]]
<1>1. /\ UNCHANGED <<logs, batch>>
      /\ \A d \in Conns \ {c} : FlowState(d)' = FlowState(d)
      /\ UNCHANGED <<rbuf[c], toRemote[c], executed[c], fromRemote[c], data[c], chan[c],
                     c2r[c], ctx[c], r2c[c], cachedCtx[c], newCtx[c]>>
      /\ reqs'[c] = Append(reqs[c], s) /\ toProxy'[c] = toProxy[c] \o p
  <2>1. UNCHANGED <<logs, batch, rbuf, toRemote, executed, fromRemote, data, chan, c2r, ctx,
                    r2c, cachedCtx, newCtx>>
    BY DEF ClientSend, c2rVars, r2cVars, remoteVars, shared, jobVars
  <2>2. \A d \in Conns \ {c} : FlowState(d)' = FlowState(d)
    BY PeersElsewhere DEF Client
  <2>3. /\ reqs' = Put(reqs, c, Append(reqs[c], s))
        /\ toProxy' = Put(toProxy, c, toProxy[c] \o p)
    BY DEF ClientSend
  <2> HIDE DEF m, p
  <2>4. reqs'[c] = Append(reqs[c], s) /\ toProxy'[c] = toProxy[c] \o p
    BY <2>3, FlowFunctions DEF Put
  <2> QED BY <2>1, <2>2, <2>4
<1>2. FlowAt(c)
  BY DEF Flow
<1>3. /\ m \in Nat \ {0} /\ DOMAIN reqs[c] = 1 .. m - 1 /\ DOMAIN reqs'[c] = 1 .. m
      /\ reqs'[c][m] = s /\ \A n \in DOMAIN reqs[c] : reqs'[c][n] = reqs[c][n]
      /\ \A n \in DOMAIN reqs[c] : n < m /\ n \in DOMAIN reqs'[c]
  <2> DEFINE old == reqs[c]
             new == reqs'[c]
  <2>1. old \in Seq(Stmts) /\ new = Append(old, s) /\ m = Len(old) + 1
    BY <1>1, FlowTypes
  <2> HIDE DEF m, old, new
  <2>2. /\ m \in Nat \ {0} /\ DOMAIN old = 1 .. m - 1 /\ DOMAIN new = 1 .. m
        /\ Len(new) = m /\ new[m] = s
        /\ \A n \in DOMAIN old : new[n] = old[n] /\ n < m /\ n \in DOMAIN new
    BY <2>1, OneMore
  <2> QED BY <2>2 DEF old, new
<1>4. Frames[s] \in Seq(FrameTypes)
  BY SessionAssumption DEF SessionAssumption
<1>5. p \in Seq(Units) /\ DOMAIN p = DOMAIN Frames[s]
  BY <1>3, <1>4, NewPacket
<1>6. \A i \in DOMAIN p : p[i].n = m /\ p[i].i = i
  OBVIOUS
<1> DEFINE old == toProxy[c]
           new == toProxy'[c]
<1> HIDE DEF m, p, old, new
<1>7. /\ old \in Seq(Units) /\ new = old \o p
      /\ ToSet(new) = ToSet(old) \cup ToSet(p)
      /\ \A u \in ToSet(p) : u.n = m /\ u.i \in DOMAIN Frames[s]
  <2>1. old \in Seq(Units) /\ new = old \o p
    BY <1>1, FlowTypes DEF old, new
  <2>2. ToSet(new) = ToSet(old) \cup ToSet(p)
    BY <1>5, <2>1, ToSetJoined
  <2>3. \A u \in ToSet(p) : u.n = m /\ u.i \in DOMAIN Frames[s]
    BY <1>5, <1>6 DEF ToSet
  <2> QED BY <2>1, <2>2, <2>3
<1>8. \A u \in ToSet(old) \cup ToSet(rbuf[c]) \cup ToSet(toRemote[c]) :
        u.n \in DOMAIN reqs[c] /\ u.i \in DOMAIN Frames[reqs[c][u.n]]
  BY <1>2 DEF FlowAt, UnitsOK, old
<1>9. UnitsOK(c)'
  <2>1. \A u \in ToSet(new) \cup ToSet(rbuf[c]) \cup ToSet(toRemote[c]) :
          u.n \in DOMAIN reqs'[c] /\ u.i \in DOMAIN Frames[reqs'[c][u.n]]
    <3>1. m \in DOMAIN reqs'[c]
      BY <1>3
    <3> QED BY <1>3, <1>7, <1>8, <3>1
  <2>2. \A u \in ToSet(old) \cup ToSet(rbuf[c]) \cup ToSet(toRemote[c]), v \in ToSet(p) :
          Before(u, v)
    BY <1>3, <1>7, <1>8 DEF Before
  <2>3. \A u \in ToSet(rbuf[c]) \cup ToSet(toRemote[c]), v \in ToSet(new) : Before(u, v)
    BY <1>2, <1>7, <2>2 DEF FlowAt, UnitsOK, old
  <2>4. InOrder(new)
    <3>1. InOrder(old) /\ \A u \in ToSet(old), v \in ToSet(p) : Before(u, v)
      BY <1>2, <2>2 DEF FlowAt, UnitsOK, old
    <3>2. InOrder(p)
      BY <1>6 DEF InOrder, Before
    <3> QED BY <1>5, <1>7, <3>1, <3>2, JoinedInOrder
  <2> QED BY <1>1, <2>1, <2>3, <2>4 DEF UnitsOK, new
<1>10. StuckOK(c)' /\ ForwardOK(c)'
  <2>1. Stuck(c)' <=> Stuck(c)
    <3>1. CASE rbuf[c] = <<>>
      BY <1>1, <3>1 DEF Stuck
    <3>2. CASE rbuf[c] # <<>>
      <4>1. Len(rbuf[c]) \in Nat \ {0} /\ DOMAIN rbuf[c] = 1 .. Len(rbuf[c])
        BY <3>2, FlowTypes, EmptySeq, LenProperties
      <4>2. rbuf[c][1] \in ToSet(rbuf[c])
        BY <4>1 DEF ToSet
      <4> QED BY <1>1, <1>3, <1>8, <4>2 DEF Stuck, PacketType
    <3> QED BY <3>1, <3>2
  <2> QED BY <1>1, <1>2, <2>1 DEF FlowAt, StuckOK, ForwardOK
<1>11. ExecutedOK(c)'
  <2>1. executed[c] \subseteq DOMAIN reqs[c] /\ \A n \in executed[c], v \in ToSet(old) : n < v.n
    BY <1>2 DEF FlowAt, ExecutedOK, old
  <2>2. \A n \in executed[c] : n \in DOMAIN reqs'[c] /\ \A v \in ToSet(new) : n < v.n
    BY <1>3, <1>7, <2>1
  <2> QED BY <1>1, <1>2, <2>2 DEF FlowAt, ExecutedOK, new
<1>12. /\ Pending(c)' = Pending(c) /\ RecordsOf(c)' = RecordsOf(c) /\ Fresh(c)' = Fresh(c)
       /\ PendingInOrder(c)'
  BY <1>1, <1>2, RecordsStay DEF Pending, PendingInOrder, Flushing, Fresh, FlowAt
<1>13. FreshOK(c)'
  <2>1. Fresh(c) => /\ ctx[c].n \in DOMAIN reqs'[c]
                    /\ ctx[c].i \in DOMAIN Frames[reqs'[c][ctx[c].n]]
                    /\ \A v \in ToSet(new) : Before(ctx[c], v)
    BY <1>2, <1>3, <1>7 DEF FlowAt, FreshOK, Before, old
  <2> QED BY <1>1, <1>2, <1>12, <2>1 DEF FlowAt, FreshOK, new
<1>14. PendingOK(c)'
  <2>1. PendingOK(c)
    BY <1>2 DEF FlowAt
  <2>2. ASSUME NEW x \in Pending(c), OfRead(x)
        PROVE  x.n \in DOMAIN reqs'[c] /\ \A v \in ToSet(new) : Before(x, v)
    <3>1. x.n \in DOMAIN reqs[c] /\ \A v \in ToSet(old) : Before(x, v)
      BY <2>1, <2>2 DEF PendingOK, old
    <3>2. x.n < m /\ x.n \in DOMAIN reqs'[c]
      BY <1>3, <3>1
    <3>3. \A v \in ToSet(p) : Before(x, v)
      BY <1>7, <3>2 DEF Before
    <3> QED BY <1>7, <3>1, <3>2, <3>3
  <2>3. (\A x \in Pending(c) : ~x.from_cache) /\ (Fresh(c) => ctx'[c] = ctx[c])
    BY <1>1, <2>1 DEF PendingOK
  <2>4. ASSUME NEW x \in Pending(c), OfRead(x), Fresh(c) PROVE Before(x, ctx[c])
    BY <2>1, <2>4 DEF PendingOK
  <2> QED BY <1>1, <1>12, <2>2, <2>3, <2>4 DEF PendingOK, new
<1>15. RecordsOK(c)'
  <2>1. \A l \in RecordsOf(c) :
          /\ l.n \in DOMAIN reqs'[c] /\ \A v \in ToSet(new) : Before(l, v)
          /\ l.from_cache => l.i \in DOMAIN Frames[reqs'[c][l.n]]
    BY <1>2, <1>3, <1>7 DEF FlowAt, RecordsOK, Before, old
  <2> QED BY <1>1, <1>2, <1>12, <2>1 DEF FlowAt, RecordsOK, new
<1>16. FlowAt(c)'
  BY <1>9, <1>10, <1>11, <1>12, <1>13, <1>14, <1>15 DEF FlowAt
<1> QED BY <1>1, <1>16, FlowNextQuiet

\* MySQL takes a packet whole, so the client has nothing of it left to send.
LEMMA RemoteExecFlow ==
  ASSUME IInv, Flow, NEW c \in Conns, RemoteExec(c) PROVE Flow'
<1> DEFINE us == toRemote[c]
           f  == us[1]
           n  == f.n
           p  == NextPacket(c)
<1>1. /\ UNCHANGED <<logs, batch>>
      /\ \A d \in Conns \ {c} : FlowState(d)' = FlowState(d)
      /\ UNCHANGED <<reqs[c], toProxy[c], rbuf[c], data[c], chan[c],
                     c2r[c], ctx[c], r2c[c], cachedCtx[c], newCtx[c]>>
      /\ us # <<>> /\ IsPrefix(p, us)
      /\ executed'[c] = executed[c] \cup {n}
      /\ toRemote'[c] = SubSeq(us, Len(p) + 1, Len(us))
      /\ fromRemote'[c] = fromRemote[c] \/ fromRemote'[c] = fromRemote[c] \o Reply(c, n)
  BY PeersElsewhere, FlowFunctions
     DEF RemoteExec, Remote, Put, c2rVars, r2cVars, clientVars, shared, jobVars
<1>2. FlowAt(c)
  BY DEF Flow
<1>3. us \in Seq(Units) /\ Len(us) \in Nat \ {0} /\ f \in ToSet(us) /\ f \in Units
  <2>1. us \in Seq(Units) /\ Len(us) \in Nat \ {0} /\ DOMAIN us = 1 .. Len(us)
    BY <1>1, FlowTypes, EmptySeq, LenProperties
  <2> QED BY <2>1 DEF ToSet
<1>4. n \in DOMAIN reqs[c] /\ n \in Nat
  BY <1>2, <1>3, FlowTypes DEF FlowAt, UnitsOK
<1>5. /\ p \in Seq(Units) /\ Len(p) \in 1 .. Len(us) /\ Len(p) = Len(Frames[reqs[c][n]])
      /\ \A i \in 1 .. Len(p) : us[i] = [n |-> n, i |-> i]
  <2>1. /\ p \in Seq(Units) /\ Len(p) >= 1 /\ Len(p) = Len(Frames[reqs[c][n]])
    BY <1>4, PacketUnits DEF IInv, TypeOK, NextPacket
  <2>2. Len(p) \in 1 .. Len(us)
    BY <1>1, <1>4, PacketPrefix DEF IInv, TypeOK
  <2>3. SubSeq(p, 1, Len(p)) = SubSeq(us, 1, Len(p))
    BY <1>1 DEF IsPrefix
  <2>4. \A i \in 1 .. Len(p) : SubSeq(p, 1, Len(p))[i] = p[i] /\ SubSeq(us, 1, Len(p))[i] = us[i]
    <3> HIDE DEF p, us
    <3> QED BY <1>3, <2>1, <2>2
  <2>5. \A i \in 1 .. Len(p) : p[i] = [n |-> n, i |-> i]
    <3>1. DOMAIN p = 1 .. Len(p)
      BY <2>1, LenProperties
    <3> QED BY <3>1 DEF NextPacket, Packet
  <2> QED BY <2>1, <2>2, <2>3, <2>4, <2>5
<1> DEFINE last == us[Len(p)]
<1>6. /\ last.n = n /\ last.i = Len(Frames[reqs[c][n]]) /\ last \in ToSet(us)
      /\ \A v \in ToSet(toProxy[c]) : n < v.n
  <2>1. last \in ToSet(us) /\ last.n = n /\ last.i = Len(Frames[reqs[c][n]])
    <3>1. last = [n |-> n, i |-> Len(p)]
      <4> HIDE DEF p, us, n
      <4>1. Len(p) \in 1 .. Len(p)
        BY <1>5
      <4> QED BY <1>5, <4>1
    <3>2. last \in ToSet(us)
      <4> HIDE DEF p, us
      <4> QED BY <1>3, <1>5 DEF ToSet
    <3>3. Len(p) = Len(Frames[reqs[c][n]])
      BY <1>5
    <3> HIDE DEF last, p, n, us
    <3> QED BY <3>1, <3>2, <3>3
  <2>2. \A v \in ToSet(toProxy[c]) :
          Before(last, v) /\ v.n \in DOMAIN reqs[c] /\ v.i \in DOMAIN Frames[reqs[c][v.n]]
    BY <1>2, <2>1 DEF FlowAt, UnitsOK
  <2> HIDE DEF last, n, f, p
  <2> QED BY <1>4, <2>1, <2>2, AfterPacket
<1>7. ToSet(toRemote'[c]) \subseteq ToSet(us)
  BY <1>1, <1>3, <1>5, ToSetSplit
<1>8. \A q \in ToSet(fromRemote'[c]) : q \in ToSet(fromRemote[c]) \/ q.n = n
  <2>1. Reply(c, n) \in Seq(PartSet)
    BY <1>4, ReplyType DEF IInv, TypeOK
  <2>2. ToSet(fromRemote[c] \o Reply(c, n)) = ToSet(fromRemote[c]) \cup ToSet(Reply(c, n))
    BY <2>1, FlowTypes, ToSetJoined
  <2>3. \A q \in ToSet(Reply(c, n)) : q.n = n
    <3> HIDE DEF n
    <3>1. \A i \in DOMAIN Reply(c, n) : Reply(c, n)[i].n = n
      BY DEF Reply
    <3> QED BY <3>1 DEF ToSet
  <2> QED BY <1>1, <2>2, <2>3
<1> HIDE DEF n, f, p, last
<1>9. UnitsOK(c)'
  BY <1>1, <1>2, <1>7 DEF FlowAt, UnitsOK
<1>10. StuckOK(c)' /\ ForwardOK(c)'
  <2>1. Stuck(c)' = Stuck(c) /\ StuckOK(c)'
    BY <1>1, <1>2 DEF FlowAt, StuckOK, Stuck, PacketType
  <2> SUFFICES ASSUME ~Stuck(c) PROVE ForwardOK(c)'
    BY <2>1 DEF ForwardOK
  <2> DEFINE all  == us \o rbuf[c]
             left == toRemote'[c] \o rbuf[c]
  <2>2. InOrder(all) /\ \A m \in executed[c], u \in ToSet(all) : m < u.n
    BY <1>2 DEF FlowAt, ForwardOK
  <2>3. \A j \in DOMAIN left : /\ j \in Nat \ {0} /\ j + Len(p) \in DOMAIN all
                               /\ left[j] = all[j + Len(p)]
    <3>1. toRemote'[c] = SubSeq(us, Len(p) + 1, Len(us)) /\ Len(p) \in 1 .. Len(us)
      BY <1>1, <1>5
    <3> HIDE DEF us, left
    <3>2. left = Remainder(us, Len(p)) \o rbuf[c]
      BY <3>1 DEF left, Remainder
    <3>3. rbuf[c] \in Seq(Units) /\ us \in Seq(Units)
      BY <1>3, FlowTypes
    <3> DEFINE r == rbuf[c]
               k == Len(p)
    <3> HIDE DEF r, k
    <3>4. k \in 1 .. Len(us) /\ us \in Seq(Units) /\ r \in Seq(Units)
      BY <3>1, <3>3 DEF r, k
    <3>5. \A j \in DOMAIN (Remainder(us, k) \o r) :
            /\ j \in Nat \ {0} /\ j + k \in DOMAIN (us \o r)
            /\ (Remainder(us, k) \o r)[j] = (us \o r)[j + k]
      BY <3>4, Shifted
    <3> QED BY <3>2, <3>5 DEF r, k
  <2>4. Len(p) \in Nat \ {0} /\ Len(p) \in DOMAIN all /\ all[Len(p)] = last
    <3>1. Len(p) \in 1 .. Len(us)
      BY <1>5
    <3> HIDE DEF us
    <3> QED BY <1>3, <3>1, FlowTypes, Joined, LenProperties DEF last
  <2>5. \A u \in ToSet(all) : u.n \in DOMAIN reqs[c] /\ u.i \in DOMAIN Frames[reqs[c][u.n]]
    <3>1. ToSet(all) = ToSet(us) \cup ToSet(rbuf[c])
      BY <1>3, FlowTypes, ToSetJoined
    <3> QED BY <1>2, <3>1 DEF FlowAt, UnitsOK
  <2> HIDE DEF all, left
  <2>6. InOrder(left)
    <3> SUFFICES ASSUME NEW i \in DOMAIN left, NEW j \in DOMAIN left, i < j
                 PROVE  Before(left[i], left[j])
      BY DEF InOrder
    <3>1. i + Len(p) < j + Len(p)
      BY <2>3, <2>4
    <3> QED BY <2>2, <2>3, <3>1 DEF InOrder
  <2>7. ASSUME NEW u \in ToSet(left) PROVE u \in ToSet(all) /\ n < u.n
    <3>1. PICK j \in DOMAIN left : u = left[j]
      BY <2>7 DEF ToSet
    <3>2. u = all[j + Len(p)] /\ j + Len(p) \in DOMAIN all /\ Len(p) < j + Len(p)
      BY <2>3, <2>4, <3>1
    <3>3. Before(last, u) /\ u \in ToSet(all)
      BY <2>2, <2>4, <3>2 DEF InOrder, ToSet
    <3> QED BY <1>4, <1>6, <2>5, <3>3, AfterPacket
  <2> QED BY <1>1, <2>2, <2>6, <2>7 DEF ForwardOK, left
<1>11. ExecutedOK(c)'
  BY <1>1, <1>2, <1>4, <1>6, <1>8 DEF FlowAt, ExecutedOK
<1>12. /\ Pending(c)' = Pending(c) /\ RecordsOf(c)' = RecordsOf(c) /\ Fresh(c)' = Fresh(c)
       /\ PendingInOrder(c)'
  BY <1>1, <1>2, RecordsStay DEF Pending, PendingInOrder, Flushing, Fresh, FlowAt
<1>13. FreshOK(c)'
  <2>1. ASSUME Fresh(c) PROVE n < ctx[c].n
    <3>1. /\ Before(last, ctx[c]) /\ ctx[c].n \in DOMAIN reqs[c]
          /\ ctx[c].i \in DOMAIN Frames[reqs[c][ctx[c].n]]
      BY <1>2, <1>6, <2>1 DEF FlowAt, FreshOK
    <3> QED BY <1>4, <1>6, <3>1, AfterPacket
  <2> QED BY <1>1, <1>2, <1>7, <1>12, <2>1 DEF FlowAt, FreshOK
<1>14. PendingOK(c)'
  BY <1>1, <1>2, <1>12 DEF FlowAt, PendingOK
<1>15. RecordsOK(c)'
  <2>1. ASSUME NEW l \in RecordsOf(c), l.from_cache, l.n = n PROVE FALSE
    <3>1. l.i \in DOMAIN Frames[reqs[c][n]] /\ \A u \in ToSet(us) : ~SameRead(l, u)
      BY <1>2, <2>1 DEF FlowAt, RecordsOK
    <3>2. DOMAIN Frames[reqs[c][n]] = 1 .. Len(Frames[reqs[c][n]])
      <4>1. reqs[c][n] \in Stmts
        BY <1>4, FlowTypes
      <4> QED BY <4>1, SessionAssumption, LenProperties DEF SessionAssumption
    <3>3. l.i \in 1 .. Len(p) /\ us[l.i] = [n |-> n, i |-> l.i]
      BY <1>5, <3>1, <3>2
    <3>4. us[l.i] \in ToSet(us)
      <4> HIDE DEF us
      <4> QED BY <1>3, <1>5, <3>3 DEF ToSet
    <3> QED BY <2>1, <3>1, <3>3, <3>4 DEF SameRead
  <2> QED BY <1>1, <1>2, <1>7, <1>12, <2>1 DEF FlowAt, RecordsOK
<1>16. FlowAt(c)'
  BY <1>9, <1>10, <1>11, <1>12, <1>13, <1>14, <1>15 DEF FlowAt
<1> QED BY <1>1, <1>16, FlowNextQuiet
-----------------------------------------------------------------------------
(***************************************************************************)
(* The theorems.                                                           *)
(***************************************************************************)
LEMMA InitFlow == Init => Flow
<1> SUFFICES ASSUME Init PROVE Flow
  OBVIOUS
<1>1. ToSet(<<>>) = {} /\ DOMAIN <<>> = {}
  BY DEF ToSet
<1>2. logs = <<>> /\ batch = <<>> /\ batch \o logs = <<>>
  BY DEF Init, AssistantInit
<1>3. RecordedOnce
  BY <1>1, <1>2 DEF RecordedOnce
<1>4. ASSUME NEW c \in Conns PROVE FlowAt(c)
  <2> USE <1>1, <1>2 DEF Init, Empty
  <2>1. UnitsOK(c) /\ StuckOK(c) /\ ExecutedOK(c) /\ ForwardOK(c)
    BY DEF UnitsOK, StuckOK, ExecutedOK, ForwardOK, InOrder, Stuck
  <2>2. ~Fresh(c) /\ FreshOK(c)
    BY DEF Fresh, InHands, FreshOK
  <2>3. Pending(c) = {NoCtx} /\ PendingInOrder(c)
    BY DEF Pending, PendingInOrder, Flushing
  <2>4. PendingOK(c) /\ RecordsOK(c)
    BY <2>2, <2>3 DEF PendingOK, RecordsOK, RecordsOf, NoCtx, NewCtx, OfRead
  <2> QED BY <2>1, <2>2, <2>3, <2>4 DEF FlowAt
<1> QED BY <1>3, <1>4 DEF Flow

LEMMA NextFlow == IInv /\ Flow /\ [Next]_vars => Flow'
<1> SUFFICES ASSUME IInv, Flow, [Next]_vars PROVE Flow'
  OBVIOUS
<1>1. ASSUME NEW c \in Conns, C2R(c) PROVE Flow'
  BY <1>1, C2RReadFlow, C2REndFlow, C2RRawFlow, C2RRequestFlow, C2RExistsFlow, C2RGetFlow,
     C2RReplyFlow, C2RLogFlow, C2RSendFlow, C2RWriteFlow DEF C2R
<1>2. ASSUME NEW c \in Conns, R2C(c) PROVE Flow'
  BY <1>2, R2CReadFlow, R2CFlushFlow, R2CLogFlow, R2CRestFlow DEF R2C
<1>3. ASSUME NEW c \in Conns, Accept(c) \/ Client(c) \/ Remote(c) PROVE Flow'
  BY <1>3, AcceptFlow, ClientSendFlow, PeersFlow, RemoteExecFlow DEF Client, Remote
<1>4. CASE Jobs
  BY <1>4, JobsFlow
<1>5. CASE Terminated \/ UNCHANGED vars
  BY <1>5, StutterFlow DEF Terminated
<1> QED BY <1>1, <1>2, <1>3, <1>4, <1>5 DEF Next

\* Requests and contexts stay known, only matched statements are looked up or stored,
\* client_to_remote's context is that of its bytes, and a context in the channel has a
\* reply coming (serve/mod.rs:118-243).
THEOREM ContextsInStep == Spec => []IInv
BY InitIInv, NextPreserves, PTL DEF Spec

LEMMA FlowAlways == Spec => [](IInv /\ Flow)
BY InitIInv, NextPreserves, InitFlow, NextFlow, PTL DEF Spec

\* No read is recorded twice among the records that are still to be posted, whether
\* answered by MySQL or from the cache, also when the client pipelines, and however
\* reads split and join its packets (serve/mod.rs:126-146 and :178-192).
THEOREM RecordedAtMostOnce == Spec => []RecordedOnce
<1>1. Flow => RecordedOnce
  BY DEF Flow
<1> QED BY <1>1, FlowAlways, PTL

\* The bytes of a read recorded as answered from the cache never reach MySQL, which
\* never executes their request nor sends anything for it, the rest of it having come
\* in another read or not: skip is set in every order of the two halves
\* (serve/mod.rs:114-146).
THEOREM HitsNotForwarded == Spec => []HitStaysOffMySQL
<1>1. IInv /\ Flow => HitStaysOffMySQL
  <2> SUFFICES ASSUME IInv, Flow, NEW l \in Recorded, l.from_cache
               PROVE  /\ \A u \in ToSet(toRemote[l.c]) : u.n # l.n \/ u.i # l.i
                      /\ \A p \in ToSet(fromRemote[l.c]) \cup ToSet(data[l.c]) : p.n # l.n
    BY DEF HitStaysOffMySQL
  <2>1. /\ logs \in Seq(Logs) /\ batch \in Seq(Logs)
    BY DEF IInv, TypeOK, JobsTypeOK
  <2>2. l \in Logs
    BY <2>1 DEF Recorded, ToSet
  <2>3. l.c \in Conns /\ l \in RecordsOf(l.c)
    BY <2>2 DEF Logs, RecordsOf, Recorded
  <2>4. FlowAt(l.c)
    BY <2>3 DEF Flow
  <2>5. /\ l.n \notin executed[l.c] /\ l.n \in DOMAIN reqs[l.c]
        /\ \A u \in ToSet(toRemote[l.c]) : u.n # l.n \/ u.i # l.i
    BY <2>3, <2>4 DEF FlowAt, RecordsOK, SameRead
  <2>6. l.n # 0
    BY <2>3, <2>5, FlowTypes
  <2>7. \A p \in ToSet(fromRemote[l.c]) \cup ToSet(data[l.c]) : p.n = 0 \/ p.n \in executed[l.c]
    BY <2>4 DEF FlowAt, ExecutedOK
  <2> QED BY <2>5, <2>6, <2>7
<1> QED BY <1>1, FlowAlways, PTL

\* What goes to MySQL goes in order and once: no read is forwarded again behind a
\* later one, or behind its own execution, unless a packet was rejected and stays in
\* the buffer (serve/mod.rs:99-104, 132-142).
THEOREM ForwardedInOrder == Spec => []ForwardedOnce
<1>1. IInv /\ Flow => ForwardedOnce
  <2> SUFFICES ASSUME IInv, Flow, NEW c \in Conns, ~Stuck(c), NEW j \in DOMAIN toRemote[c]
               PROVE  /\ toRemote[c][j].n \notin executed[c]
                      /\ \A i \in 1 .. j - 1 : Before(toRemote[c][i], toRemote[c][j])
    BY DEF ForwardedOnce
  <2> DEFINE us == toRemote[c]
             vs == rbuf[c]
             all == us \o vs
  <2>1. InOrder(all) /\ \A n \in executed[c], u \in ToSet(all) : n < u.n
    BY DEF Flow, FlowAt, ForwardOK
  <2>2. us \in Seq(Units) /\ vs \in Seq(Units) /\ executed[c] \subseteq Nat
    BY FlowTypes DEF IInv, TypeOK, SessionTypeOK
  <2>3. \A i \in DOMAIN us : i \in DOMAIN all /\ all[i] = us[i] /\ us[i] \in Units
    <3> HIDE DEF us, vs
    <3>1. \A i \in DOMAIN us : i \in DOMAIN all /\ all[i] = us[i]
      BY <2>2, JoinedFront
    <3>2. DOMAIN us = 1 .. Len(us)
      BY <2>2, LenProperties
    <3>3. \A i \in DOMAIN us : us[i] \in Units
      BY <2>2, <3>2, ElementOfSeq
    <3> QED BY <3>1, <3>3
  <2>4. ASSUME us[j].n \in executed[c] PROVE FALSE
    <3>1. us[j] \in ToSet(all)
      BY <2>3 DEF ToSet
    <3>2. us[j].n < us[j].n
      BY <2>1, <2>4, <3>1
    <3>3. us[j].n \in Nat
      <4> HIDE DEF us, all
      <4> QED BY <2>3 DEF Units, us
    <3> QED BY <3>2, <3>3
  <2>5. ASSUME NEW i \in 1 .. j - 1 PROVE Before(us[i], us[j])
    <3>1. DOMAIN us = 1 .. Len(us) /\ Len(us) \in Nat
      <4> HIDE DEF us
      <4> QED BY <2>2, LenProperties
    <3>2. i \in DOMAIN us /\ i < j /\ j \in DOMAIN us
      BY <3>1
    <3> QED BY <2>1, <2>3, <3>2 DEF InOrder
  <2> QED BY <2>4, <2>5
<1> QED BY <1>1, FlowAlways, PTL

\* The proxy ends a session only when one of the peers has: before a read its buffer is
\* empty, so it has room, and 0 bytes read are the end of the stream, unless a packet
\* was rejected and stays in the buffer (serve/mod.rs:81-84, 99-104, 132-148).
THEOREM SessionEndsForCause == Spec => EndsForCause
<1>1. ASSUME IInv, Flow, [Next]_vars, NEW c \in Conns, conn[c] = "open", conn'[c] = "closed"
      PROVE  ~clientUp[c] \/ ~remoteUp[c] \/ Stuck(c)
  <2>1. conn \in [Conns -> {"new", "open", "closed"}]
    BY <1>1 DEF IInv, TypeOK, SessionTypeOK
  <2>2. ASSUME NEW d \in Conns, Close(d) PROVE d = c
    BY <1>1, <2>1, <2>2 DEF Close
  <2>3. ASSUME UNCHANGED conn PROVE FALSE
    BY <1>1, <2>3
  <2>4. ASSUME NEW d \in Conns, C2REof(d) PROVE ~clientUp[c] \/ ~remoteUp[c] \/ Stuck(c)
    <3>1. d = c
      BY <2>2, <2>4 DEF C2REof
    <3>2. rbuf[c] = <<>> \/ Stuck(c)
      BY <1>1, <2>4, <3>1 DEF Flow, FlowAt, StuckOK, C2REof, At
    <3>3. rbuf[c] = <<>> => Len(rbuf[c]) # ReadMax
      BY SessionAssumption DEF SessionAssumption
    <3> QED BY <2>4, <3>1, <3>2, <3>3 DEF C2REof
  <2>5. ASSUME NEW d \in Conns, C2R(d) PROVE ~clientUp[c] \/ ~remoteUp[c] \/ Stuck(c)
    <3>1. CASE C2RRaw(d) \/ C2RWrite(d)
      BY <2>2, <2>3, <3>1 DEF C2RRaw, C2RWrite
    <3>2. CASE ~(C2REof(d) \/ C2RRaw(d) \/ C2RWrite(d))
      <4>1. UNCHANGED conn
        BY <2>5, <3>2 DEF C2R, C2RRead, C2RShort, C2RRequest, C2RExists, C2RGet, C2RReply,
                          C2RLog, C2RSend, sessionVars
      <4> QED BY <2>3, <4>1
    <3> QED BY <2>4, <3>1, <3>2
  <2>6. ASSUME NEW d \in Conns, R2C(d) PROVE ~clientUp[c] \/ ~remoteUp[c] \/ Stuck(c)
    <3>1. CASE R2CEof(d)
      BY <2>2, <3>1 DEF R2CEof
    <3>2. CASE ~R2CEof(d)
      <4>1. UNCHANGED conn
        BY <2>6, <3>2 DEF R2C, R2CRead, R2CFinish, R2CTask, R2CLog, R2CRespond, R2CWrite
      <4> QED BY <2>3, <4>1
    <3> QED BY <3>1, <3>2
  <2>7. ASSUME NEW d \in Conns, Accept(d) PROVE FALSE
    <3>1. d # c
      BY <1>1, <2>7 DEF Accept
    <3> QED BY <1>1, <2>1, <2>2, <2>7, <3>1 DEF Accept, Put
  <2>8. ASSUME NEW d \in Conns, Client(d) \/ Remote(d) PROVE FALSE
    <3>1. UNCHANGED conn
      BY <2>8 DEF Client, Remote, ClientSend, ClientRecv, ClientClose, RemoteExec, RemoteClose
    <3> QED BY <2>3, <3>1
  <2>9. CASE Jobs \/ Terminated \/ UNCHANGED vars
    <3>1. UNCHANGED conn
      BY <2>9 DEF Jobs, Terminated, vars, sessionVars
    <3> QED BY <2>3, <3>1
  <2> QED BY <1>1, <2>5, <2>6, <2>7, <2>8, <2>9 DEF Next
<1>2. IInv /\ Flow /\ [Next]_vars
        => [\A c \in Conns : conn[c] = "open" /\ conn'[c] = "closed"
              => ~clientUp[c] \/ ~remoteUp[c] \/ Stuck(c)]_vars
  BY <1>1
<1> QED BY <1>2, FlowAlways, PTL DEF Spec, EndsForCause
-----------------------------------------------------------------------------
(***************************************************************************)
(* NoEmbrace.  When the two halves wait for each other, r2c has bytes of a *)
(* reply in hand, an earlier one than that of the context in the channel,  *)
(* which is an earlier one than that of the request c2r has in hand.       *)
(***************************************************************************)
\* A packet has been rejected, and stays in the buffer.
Lodged(c) == c2r[c] = "raw" \/ (c2r[c] = "read" /\ rbuf[c] # <<>>)

\* All requests come in one read, and none has been rejected.
Steady(c) == ~Lodged(c) /\ \A n \in DOMAIN reqs[c] : Len(Frames[reqs[c][n]]) = 1

Earlier(S, T) == \A x \in S, y \in T : x.n < y.n

Rising(us) == \A i, j \in DOMAIN us : i < j => us[i].n < us[j].n

\* c2r has a context in hand that it has not sent.
Taken(c) == c2r[c] \in {"lock", "exists", "get", "send"}

\* Requests, contexts and the bytes of replies are in order.
LineAt(c) ==
  Steady(c) =>
    /\ Rising(rbuf[c]) /\ Rising(toRemote[c])
    /\ Earlier(ToSet(toRemote[c]), ToSet(rbuf[c]))
    /\ \A n \in executed[c], u \in ToSet(rbuf[c]) \cup ToSet(toRemote[c]) : n < u.n
    /\ Earlier(ToSet(chan[c]), ToSet(toProxy[c]))
    /\ Earlier(ToSet(data[c]), ToSet(chan[c]))
    /\ Taken(c) => Earlier(ToSet(chan[c]), {ctx[c]})

\* The request of the context in the channel is still to be sent, or on its way to
\* MySQL, or has its reply on the way back.
PlaceAt(c) ==
  /\ \A x \in ToSet(chan[c]) : reqs[c][x.n] \notin Mute \cup Quits =>
       \/ c2r[c] = "write" /\ Has(rbuf[c], x.n)
       \/ Has(toRemote[c], x.n)
       \/ Has(fromRemote[c], x.n)
  /\ \A n \in DOMAIN reqs[c] : reqs[c][n] \in Quits => n = Len(reqs[c])
  /\ r2c[c] = "read" <=> data[c] = <<>>
  /\ Taken(c) =>
       ctx[c].sql \in {NoStmt, reqs[c][ctx[c].n]} \cup Scraps[reqs[c][ctx[c].n]]

\* No rule can match a request or a read of it: the client gets its own answers and no others, all
\* in order, and has been given none that are later than what MySQL has executed.
NoHits(c) ==
  /\ Steady(c)
  /\ \A n \in DOMAIN reqs[c] : ({reqs[c][n]} \cup Scraps[reqs[c][n]]) \cap Cacheable = {}

OwnPart(c, p) ==
  /\ p.c = c /\ p.n \in {0} \cup executed[c]
  /\ p.i <= Len(Reply(c, p.n)) /\ answered[c] <= p.n

AnswersAt(c) ==
  NoHits(c) =>
    /\ c2r[c] \notin {"exists", "get", "reply", "log"}
    /\ \A p \in ToSet(toClient[c]) \cup ToSet(data[c]) \cup ToSet(fromRemote[c]) : OwnPart(c, p)
    /\ InOrder(toClient[c]) /\ InOrder(data[c]) /\ InOrder(fromRemote[c])
    /\ \A p \in ToSet(toClient[c]), q \in ToSet(data[c]) \cup ToSet(fromRemote[c]) : Before(p, q)
    /\ \A p \in ToSet(data[c]), q \in ToSet(fromRemote[c]) : Before(p, q)
    /\ \E n \in {0} \cup executed[c] : answered[c] <= n + 1

OrderAt(c) == LineAt(c) /\ PlaceAt(c) /\ AnswersAt(c)

\* Nothing is on its way in a connection before it is accepted.
NewAt(c) ==
  conn[c] = "new" =>
    chan[c] = <<>> /\ toClient[c] = <<>> /\ data[c] = <<>> /\ answered[c] = 0

Ordered == \A c \in Conns : NewAt(c) /\ OrderAt(c)

\* The state of connection d that OrderAt(d) speaks of.
OrderState(d) == <<FlowState(d), toClient[d], answered[d]>>
-----------------------------------------------------------------------------
LEMMA RisingJoined ==
  ASSUME NEW us \in Seq(Units), NEW vs \in Seq(Units), Rising(us), Rising(vs),
         Earlier(ToSet(us), ToSet(vs))
  PROVE  Rising(us \o vs)
<1> SUFFICES ASSUME NEW i \in DOMAIN (us \o vs), NEW j \in DOMAIN (us \o vs), i < j
             PROVE  (us \o vs)[i].n < (us \o vs)[j].n
  BY DEF Rising
<1>1. CASE j <= Len(us)
  <2>1. i <= Len(us)
    BY <1>1, JoinedAt
  <2> QED BY <1>1, <2>1, JoinedAt DEF Rising
<1>2. CASE i <= Len(us) /\ ~(j <= Len(us))
  <2>1. i \in DOMAIN us /\ (us \o vs)[i] = us[i]
    BY <1>2, JoinedAt
  <2>2. j - Len(us) \in DOMAIN vs /\ (us \o vs)[j] = vs[j - Len(us)]
    BY <1>2, JoinedAt
  <2>3. us[i] \in ToSet(us) /\ vs[j - Len(us)] \in ToSet(vs)
    BY <2>1, <2>2 DEF ToSet
  <2> QED BY <2>1, <2>2, <2>3 DEF Earlier
<1>3. CASE ~(i <= Len(us))
  <2>1. /\ i - Len(us) \in DOMAIN vs /\ (us \o vs)[i] = vs[i - Len(us)]
        /\ j - Len(us) \in DOMAIN vs /\ (us \o vs)[j] = vs[j - Len(us)]
        /\ i - Len(us) < j - Len(us)
    BY <1>3, JoinedAt
  <2> QED BY <2>1 DEF Rising
<1> QED BY <1>1, <1>2, <1>3

LEMMA AscendingJoined ==
  ASSUME NEW ps \in Seq(PartSet), NEW qs \in Seq(PartSet), InOrder(ps), InOrder(qs),
         \A p \in ToSet(ps), q \in ToSet(qs) : Before(p, q)
  PROVE  InOrder(ps \o qs)
<1> SUFFICES ASSUME NEW i \in DOMAIN (ps \o qs), NEW j \in DOMAIN (ps \o qs), i < j
             PROVE  Before((ps \o qs)[i], (ps \o qs)[j])
  BY DEF InOrder
<1>1. CASE j <= Len(ps)
  <2>1. i <= Len(ps)
    BY <1>1, JoinedAt
  <2> QED BY <1>1, <2>1, JoinedAt DEF InOrder
<1>2. CASE i <= Len(ps) /\ ~(j <= Len(ps))
  BY <1>2, JoinedAt DEF ToSet
<1>3. CASE ~(i <= Len(ps))
  <2>1. /\ i - Len(ps) \in DOMAIN qs /\ (ps \o qs)[i] = qs[i - Len(ps)]
        /\ j - Len(ps) \in DOMAIN qs /\ (ps \o qs)[j] = qs[j - Len(ps)]
        /\ i - Len(ps) < j - Len(ps)
    BY <1>3, JoinedAt
  <2> QED BY <2>1 DEF InOrder
<1> QED BY <1>1, <1>2, <1>3

\* The two parts of a sequence in order that a read splits.
LEMMA RisingSplit ==
  ASSUME NEW us \in Seq(Units), NEW k \in 1 .. Len(us), Rising(us)
  PROVE  Rising(SubSeq(us, 1, k)) /\ Rising(SubSeq(us, k + 1, Len(us)))
<1>1. Rising(SubSeq(us, 1, k))
  BY ReadSplit DEF Rising
<1>2. ASSUME NEW i \in DOMAIN SubSeq(us, k + 1, Len(us)),
             NEW j \in DOMAIN SubSeq(us, k + 1, Len(us)), i < j
      PROVE  i + k < j + k
  BY <1>2, ReadSplit
<1>3. Rising(SubSeq(us, k + 1, Len(us)))
  BY <1>2, ReadSplit DEF Rising
<1> QED BY <1>1, <1>3

LEMMA AscendingSplit ==
  ASSUME NEW ps \in Seq(PartSet), NEW k \in 1 .. Len(ps), InOrder(ps)
  PROVE  /\ InOrder(SubSeq(ps, 1, k)) /\ InOrder(SubSeq(ps, k + 1, Len(ps)))
         /\ \A p \in ToSet(SubSeq(ps, 1, k)), q \in ToSet(SubSeq(ps, k + 1, Len(ps))) :
              Before(p, q)
<1>1. InOrder(SubSeq(ps, 1, k))
  BY ReadSplit DEF InOrder
<1>2. \A i \in DOMAIN SubSeq(ps, k + 1, Len(ps)), j \in DOMAIN SubSeq(ps, k + 1, Len(ps)) :
        i < j => i + k < j + k
  BY ReadSplit
<1>3. InOrder(SubSeq(ps, k + 1, Len(ps)))
  BY <1>2, ReadSplit DEF InOrder
<1>4. \A i \in DOMAIN SubSeq(ps, 1, k), j \in DOMAIN SubSeq(ps, k + 1, Len(ps)) : i < j + k
  BY ReadSplit
<1>5. \A p \in ToSet(SubSeq(ps, 1, k)), q \in ToSet(SubSeq(ps, k + 1, Len(ps))) : Before(p, q)
  BY <1>4, ReadSplit DEF InOrder, ToSet
<1> QED BY <1>1, <1>3, <1>5

\* Requests that come in one read are units, in the order of their numbers.
LEMMA OneUnitEach ==
  ASSUME IInv, NEW c \in Conns, FlowAt(c), Steady(c)
  PROVE  /\ Rising(toProxy[c])
         /\ Earlier(ToSet(rbuf[c]) \cup ToSet(toRemote[c]), ToSet(toProxy[c]))
<1>1. \A u \in ToSet(toProxy[c]) \cup ToSet(rbuf[c]) \cup ToSet(toRemote[c]) : u.i = 1
  <2> SUFFICES ASSUME NEW u \in ToSet(toProxy[c]) \cup ToSet(rbuf[c]) \cup ToSet(toRemote[c])
               PROVE  u.i = 1
    OBVIOUS
  <2>1. u.n \in DOMAIN reqs[c] /\ u.i \in DOMAIN Frames[reqs[c][u.n]]
    BY DEF FlowAt, UnitsOK
  <2>2. reqs[c][u.n] \in Stmts
    BY <2>1, FlowTypes
  <2>3. Frames[reqs[c][u.n]] \in Seq(FrameTypes) /\ Len(Frames[reqs[c][u.n]]) = 1
    BY <2>1, <2>2, SessionAssumption DEF SessionAssumption, Steady
  <2>4. DOMAIN Frames[reqs[c][u.n]] = 1 .. 1
    BY <2>3, LenProperties
  <2> QED BY <2>1, <2>4
<1>2. \A i \in DOMAIN toProxy[c] : toProxy[c][i].i = 1
  BY <1>1 DEF ToSet
<1>3. Rising(toProxy[c])
  BY <1>2 DEF FlowAt, UnitsOK, InOrder, Rising, Before
<1>4. Earlier(ToSet(rbuf[c]) \cup ToSet(toRemote[c]), ToSet(toProxy[c]))
  BY <1>1 DEF FlowAt, UnitsOK, Earlier, Before
<1> QED BY <1>3, <1>4
-----------------------------------------------------------------------------
\* The types of what else OrderAt speaks of.
LEMMA OrderTypes ==
  ASSUME IInv, NEW c \in Conns
  PROVE  /\ toClient[c] \in Seq(PartSet) /\ answered[c] \in Nat
         /\ toClient = [d \in Conns |-> toClient[d]]
         /\ answered = [d \in Conns |-> answered[d]]
BY DEF IInv, TypeOK, SessionTypeOK

LEMMA OrderElsewhere ==
  ASSUME IInv, NEW c \in Conns, C2R(c) \/ R2C(c) \/ Accept(c) \/ Client(c) \/ Remote(c),
         NEW d \in Conns \ {c}
  PROVE  OrderState(d)' = OrderState(d)
<1>1. FlowState(d)' = FlowState(d)
  BY C2RElsewhere, R2CElsewhere, PeersElsewhere
<1>2. UNCHANGED <<toClient[d], answered[d]>>
  <2> USE OrderTypes DEF Put, sockets, c2rVars, r2cVars, clientVars, remoteVars, shared,
          sessionVars, ToClient
  <2>1. CASE C2R(c)
    BY <2>1 DEF C2R, C2RRead, C2RShort, C2REof, C2RRaw, C2RRequest, C2RExists, C2RGet,
                C2RReply, C2RLog, C2RSend, C2RWrite
  <2>2. CASE R2C(c)
    BY <2>2 DEF R2C, R2CRead, R2CEof, R2CFinish, R2CTask, R2CLog, R2CRespond, R2CWrite
  <2>3. CASE Accept(c) \/ Remote(c)
    BY <2>3 DEF Accept, Remote, RemoteExec, RemoteClose
  <2>4. CASE Client(c)
    BY <2>4 DEF Client, ClientSend, ClientRecv, ClientClose
  <2> QED BY <2>1, <2>2, <2>3, <2>4
<1> QED BY <1>1, <1>2 DEF OrderState

\* A step of client_to_remote or of remote_to_client that moves no byte and no context.
LEMMA OrderStays ==
  ASSUME NEW c \in Conns, OrderAt(c),
         UNCHANGED <<reqs[c], toProxy[c], rbuf[c], toRemote[c], executed[c], fromRemote[c],
                     data[c], chan[c], toClient[c], answered[c]>>,
         r2c'[c] = "read" <=> r2c[c] = "read", Lodged(c)' <=> Lodged(c),
         Taken(c)' => Taken(c) /\ ctx'[c].n = ctx[c].n /\ ctx'[c].sql = ctx[c].sql,
         c2r[c] = "write" => c2r'[c] = "write",
         NoHits(c) => c2r'[c] \notin {"exists", "get", "reply", "log"}
  PROVE  OrderAt(c)'
<1>1. (Steady(c)' <=> Steady(c)) /\ (NoHits(c)' <=> NoHits(c))
  BY DEF Steady, NoHits
<1>2. LineAt(c)'
  BY <1>1 DEF OrderAt, LineAt, Rising, Earlier
<1>3. PlaceAt(c)'
  BY DEF OrderAt, PlaceAt, Has
<1>4. \A p : OwnPart(c, p)' <=> OwnPart(c, p)
  <2>1. \A n : Reply(c, n)' = Reply(c, n)
    BY DEF Reply
  <2> QED BY <2>1 DEF OwnPart
<1>5. AnswersAt(c)'
  BY <1>1, <1>4 DEF OrderAt, AnswersAt, InOrder, Before
<1> QED BY <1>2, <1>3, <1>5 DEF OrderAt

LEMMA OrderKept ==
  ASSUME NEW c \in Conns, OrderAt(c), OrderState(c)' = OrderState(c)
  PROVE  OrderAt(c)'
<1>1. /\ UNCHANGED <<reqs[c], toProxy[c], rbuf[c], toRemote[c], executed[c], fromRemote[c],
                     data[c], chan[c], toClient[c], answered[c]>>
      /\ r2c'[c] = r2c[c] /\ c2r'[c] = c2r[c] /\ ctx'[c] = ctx[c]
  BY DEF OrderState, FlowState
<1>2. (Lodged(c)' <=> Lodged(c)) /\ (Taken(c)' <=> Taken(c))
  BY <1>1 DEF Lodged, Taken
<1>3. NoHits(c) => c2r'[c] \notin {"exists", "get", "reply", "log"}
  BY <1>1 DEF OrderAt, AnswersAt
<1> QED BY <1>1, <1>2, <1>3, OrderStays

\* A step of connection c.
LEMMA NewNext ==
  ASSUME IInv, Ordered, NEW c \in Conns,
         C2R(c) \/ R2C(c) \/ Accept(c) \/ Client(c) \/ Remote(c), NEW d \in Conns
  PROVE  NewAt(d)'
<1>1. conn \in [Conns -> {"new", "open", "closed"}] /\ NewAt(d)
  BY DEF IInv, TypeOK, SessionTypeOK, Ordered
<1>2. CASE d # c
  <2>1. UNCHANGED <<chan[d], toClient[d], data[d], answered[d]>>
    BY <1>2, OrderElsewhere DEF OrderState, FlowState
  <2>2. conn'[d] = conn[d]
    <3> USE <1>1, <1>2 DEF Close, Put, sessionVars
    <3>1. CASE C2R(c)
      BY <3>1 DEF C2R, C2RRead, C2RShort, C2REof, C2RRaw, C2RRequest, C2RExists, C2RGet,
                  C2RReply, C2RLog, C2RSend, C2RWrite
    <3>2. CASE R2C(c)
      BY <3>2 DEF R2C, R2CRead, R2CEof, R2CFinish, R2CTask, R2CLog, R2CRespond, R2CWrite
    <3>3. CASE Accept(c) \/ Client(c) \/ Remote(c)
      BY <3>3 DEF Accept, Client, ClientSend, ClientRecv, ClientClose, Remote, RemoteExec,
                  RemoteClose
    <3> QED BY <3>1, <3>2, <3>3
  <2> QED BY <1>1, <2>1, <2>2 DEF NewAt
<1>3. CASE d = c /\ (C2R(c) \/ R2C(c) \/ Client(c) \/ Remote(c))
  <2>1. conn[c] = "open" /\ (conn' = conn \/ conn' = [conn EXCEPT ![c] = "closed"])
    <3>1. CASE C2R(c)
      BY <3>1 DEF C2R, C2RRead, C2RShort, C2REof, C2RRaw, C2RRequest, C2RExists, C2RGet,
                  C2RReply, C2RLog, C2RSend, C2RWrite, At, Close, sessionVars
    <3>2. CASE R2C(c)
      BY <3>2 DEF R2C, R2CRead, R2CEof, R2CFinish, R2CTask, R2CLog, R2CRespond, R2CWrite, At,
                  Close
    <3>3. CASE Client(c) \/ Remote(c)
      BY <3>3 DEF Client, ClientSend, ClientRecv, ClientClose, Remote, RemoteExec, RemoteClose
    <3> QED BY <1>3, <3>1, <3>2, <3>3
  <2> QED BY <1>1, <1>3, <2>1 DEF NewAt
<1>4. CASE d = c /\ Accept(c)
  BY <1>1, <1>4 DEF Accept, Close, Put, NewAt, clientVars, r2cVars, shared
<1> QED BY <1>2, <1>3, <1>4

LEMMA OrderNext ==
  ASSUME IInv, Ordered, NEW c \in Conns,
         C2R(c) \/ R2C(c) \/ Accept(c) \/ Client(c) \/ Remote(c), OrderAt(c)'
  PROVE  Ordered'
BY OrderElsewhere, OrderKept, NewNext DEF Ordered

LEMMA OrderQuiet ==
  ASSUME Ordered, UNCHANGED vars \/ Jobs
  PROVE  Ordered'
<1>1. \A d \in Conns : OrderState(d)' = OrderState(d) /\ conn'[d] = conn[d]
  BY DEF Jobs, OrderState, FlowState, vars, sessionVars, sockets, c2rVars, r2cVars, clientVars,
         remoteVars, shared
<1>2. \A d \in Conns : NewAt(d)'
  BY <1>1 DEF Ordered, NewAt, OrderState, FlowState
<1> QED BY <1>1, <1>2, OrderKept DEF Ordered

\* The halves end, or decide, or look something up.
LEMMA C2REndOrder ==
  ASSUME IInv, Ordered, NEW c \in Conns, C2RShort(c) \/ C2REof(c) PROVE OrderAt(c)'
<1>1. OrderState(c)' = OrderState(c)
  BY DEF C2RShort, C2REof, OrderState, FlowState, c2rVars, r2cVars, clientVars, remoteVars,
         sockets, shared, sessionVars
<1> QED BY <1>1, OrderKept DEF Ordered

LEMMA C2RRequestOrder ==
  ASSUME IInv, Ordered, NEW c \in Conns, C2RRequest(c) PROVE OrderAt(c)'
<1>1. /\ UNCHANGED <<reqs[c], toProxy[c], rbuf[c], toRemote[c], executed[c], fromRemote[c],
                     data[c], chan[c], toClient[c], answered[c], r2c[c], ctx[c]>>
      /\ c2r[c] = "lock"
      /\ c2r'[c] = "send" \/ (c2r'[c] = "exists" /\ ctx[c].sql \in Cacheable)
  BY FlowFunctions DEF C2RRequest, At, Put, r2cVars, clientVars, remoteVars, sockets, shared
<1>2. OrderAt(c)
  BY DEF Ordered
<1>3. ~Lodged(c) /\ ~Lodged(c)' /\ Taken(c)
  BY <1>1 DEF Lodged, Taken
<1>4. NoHits(c) => c2r'[c] = "send"
  <2> SUFFICES ASSUME NoHits(c), ctx[c].sql \in Cacheable PROVE FALSE
    BY <1>1
  <2>1. ctx[c].sql \in {reqs[c][ctx[c].n]} \cup Scraps[reqs[c][ctx[c].n]]
    BY <1>2, <1>3, SessionAssumption DEF OrderAt, PlaceAt, SessionAssumption
  <2>2. ctx[c].n \in DOMAIN reqs[c]
    <3>1. rbuf[c] # <<>> /\ ctx[c].n = rbuf[c][1].n /\ Known(c, rbuf[c])
      BY <1>1 DEF IInv, InHand, InHandAt, RequestsKnown, KnownAt
    <3>2. 1 \in DOMAIN rbuf[c]
      BY <3>1, FlowTypes, EmptySeq, LenProperties
    <3> QED BY <3>1, <3>2 DEF Known
  <2> QED BY <2>1, <2>2 DEF NoHits
<1>5. NoHits(c) => c2r'[c] \notin {"exists", "get", "reply", "log"}
  BY <1>4
<1> QED BY <1>1, <1>2, <1>3, <1>5, OrderStays

LEMMA C2RLookupOrder ==
  ASSUME IInv, Ordered, NEW c \in Conns, C2RExists(c) \/ C2RGet(c) PROVE OrderAt(c)'
<1>1. /\ UNCHANGED <<reqs[c], toProxy[c], rbuf[c], toRemote[c], executed[c], fromRemote[c],
                     data[c], chan[c], toClient[c], answered[c], r2c[c]>>
      /\ c2r[c] \in {"exists", "get"} /\ c2r'[c] \in {"send", "get", "reply"}
      /\ ctx'[c].n = ctx[c].n /\ ctx'[c].sql = ctx[c].sql
  BY FlowFunctions, FlowTypes DEF C2RExists, C2RGet, At, Put, Ctxs, r2cVars, clientVars,
     remoteVars, sockets, shared
<1>2. OrderAt(c)
  BY DEF Ordered
<1>3. ~Lodged(c) /\ ~Lodged(c)' /\ Taken(c) /\ ~NoHits(c)
  BY <1>1, <1>2 DEF Lodged, Taken, OrderAt, AnswersAt
<1> QED BY <1>1, <1>2, <1>3, OrderStays

LEMMA R2CFlushOrder ==
  ASSUME IInv, Ordered, NEW c \in Conns,
         R2CEof(c) \/ R2CFinish(c) \/ R2CTask(c) \/ R2CLog(c) \/ R2CRespond(c) \/ RemoteClose(c)
  PROVE  OrderAt(c)'
<1>1. /\ UNCHANGED <<reqs[c], toProxy[c], rbuf[c], toRemote[c], executed[c], fromRemote[c],
                     data[c], chan[c], toClient[c], answered[c], c2r[c], ctx[c]>>
  BY DEF R2CEof, R2CFinish, R2CTask, R2CLog, R2CRespond, RemoteClose, SendTask, SendLog,
         c2rVars, r2cVars, clientVars, remoteVars, sockets, shared
<1>2. r2c'[c] = "read" <=> r2c[c] = "read"
  BY FlowFunctions DEF R2CEof, R2CFinish, R2CTask, R2CLog, R2CRespond, RemoteClose, At, Goto,
     LogOrInstall, Install, Replace, Put, r2cVars
<1>3. OrderAt(c)
  BY DEF Ordered
<1>4. (Lodged(c)' <=> Lodged(c)) /\ (Taken(c)' <=> Taken(c))
  BY <1>1 DEF Lodged, Taken
<1>5. NoHits(c) => c2r'[c] \notin {"exists", "get", "reply", "log"}
  BY <1>1, <1>3 DEF OrderAt, AnswersAt
<1> QED BY <1>1, <1>2, <1>3, <1>4, <1>5, OrderStays

\* An answer from the cache, of which AnswersAt says nothing.
LEMMA C2RReplyOrder ==
  ASSUME IInv, Ordered, NEW c \in Conns, C2RReply(c) \/ C2RLog(c) PROVE OrderAt(c)'
<1>1. /\ UNCHANGED <<reqs[c], toProxy[c], toRemote[c], executed[c], fromRemote[c], data[c],
                     chan[c], r2c[c]>>
      /\ c2r[c] \in {"reply", "log"}
      /\ \/ c2r'[c] = "log" /\ rbuf'[c] = rbuf[c]
         \/ c2r'[c] = "read" /\ rbuf'[c] = <<>>
  BY FlowFunctions DEF C2RReply, C2RLog, NextRequest, At, Put, r2cVars, clientVars, remoteVars,
     sockets, shared
<1>2. LineAt(c) /\ PlaceAt(c) /\ AnswersAt(c)
  BY DEF Ordered, OrderAt
<1>3. ~Lodged(c) /\ ~Lodged(c)' /\ ~Taken(c)'
  BY <1>1 DEF Lodged, Taken
<1>4. (Steady(c)' <=> Steady(c)) /\ ~NoHits(c) /\ ~NoHits(c)'
  BY <1>1, <1>2, <1>3 DEF Steady, NoHits, AnswersAt
<1>5. /\ ToSet(rbuf'[c]) \subseteq ToSet(rbuf[c])
      /\ Rising(rbuf[c]) => Rising(rbuf'[c])
  BY <1>1 DEF ToSet, Rising
<1>6. LineAt(c)'
  BY <1>1, <1>2, <1>3, <1>4, <1>5 DEF LineAt, Rising, Earlier
<1>7. PlaceAt(c)'
  BY <1>1, <1>2, <1>3 DEF PlaceAt, Has
<1>8. AnswersAt(c)'
  BY <1>4 DEF AnswersAt
<1> QED BY <1>6, <1>7, <1>8 DEF OrderAt

\* A rejected packet goes to MySQL.
LEMMA C2RRawOrder ==
  ASSUME IInv, Ordered, NEW c \in Conns, C2RRaw(c) PROVE OrderAt(c)'
<1>1. /\ UNCHANGED <<reqs[c], toProxy[c], rbuf[c], executed[c], fromRemote[c], data[c],
                     chan[c], toClient[c], answered[c], r2c[c], ctx[c]>>
      /\ c2r[c] = "raw" /\ c2r'[c] \in {"read", "raw"}
      /\ toRemote'[c] = toRemote[c] \/ toRemote'[c] = toRemote[c] \o rbuf[c]
  BY FlowFunctions DEF C2RRaw, Sent, At, Put, r2cVars, clientVars, remoteVars, sockets, shared
<1>2. PlaceAt(c)
  BY DEF Ordered, OrderAt
<1>3. Lodged(c)' /\ ~Taken(c)'
  BY <1>1 DEF IInv, InHand, InHandAt, Lodged, Taken
<1>4. LineAt(c)' /\ AnswersAt(c)'
  BY <1>3 DEF LineAt, AnswersAt, NoHits, Steady
<1>5. \A n : Has(toRemote[c], n) => Has(toRemote'[c], n)
  BY <1>1, FlowTypes, HasJoined
<1>6. PlaceAt(c)'
  BY <1>1, <1>2, <1>3, <1>5 DEF PlaceAt
<1> QED BY <1>4, <1>6 DEF OrderAt

\* The units of the request in hand follow the others to MySQL.
LEMMA C2RWriteOrder ==
  ASSUME IInv, Ordered, NEW c \in Conns, C2RWrite(c) PROVE OrderAt(c)'
<1>1. /\ UNCHANGED <<reqs[c], toProxy[c], executed[c], fromRemote[c], data[c],
                     chan[c], toClient[c], answered[c], r2c[c], cachedCtx[c], newCtx[c], ctx[c]>>
      /\ c2r[c] = "write"
      /\ \/ c2r'[c] = "write" /\ rbuf'[c] = rbuf[c] /\ toRemote'[c] = toRemote[c]
         \/ c2r'[c] = "read" /\ rbuf'[c] = <<>> /\ toRemote'[c] = toRemote[c] \o rbuf[c]
  BY FlowFunctions DEF C2RWrite, Sent, NextRequest, At, Put, r2cVars, clientVars, remoteVars,
     sockets, shared
<1>2. LineAt(c) /\ PlaceAt(c) /\ AnswersAt(c) /\ OrderAt(c)
  BY DEF Ordered, OrderAt
<1>3. CASE c2r'[c] = "write"
  <2>1. OrderState(c)' = OrderState(c)
    BY <1>1, <1>3 DEF OrderState, FlowState
  <2> QED BY <1>2, <2>1, OrderKept
<1>4. CASE c2r'[c] = "read" /\ rbuf'[c] = <<>> /\ toRemote'[c] = toRemote[c] \o rbuf[c]
  <2>1. ~Lodged(c) /\ ~Lodged(c)' /\ ~Taken(c)'
    BY <1>1, <1>4 DEF Lodged, Taken
  <2>2. (Steady(c)' <=> Steady(c)) /\ (NoHits(c)' <=> NoHits(c))
    BY <1>1, <2>1 DEF Steady, NoHits
  <2>3. /\ ToSet(<<>>) = {} /\ Rising(<<>>)
        /\ ToSet(toRemote[c] \o rbuf[c]) = ToSet(toRemote[c]) \cup ToSet(rbuf[c])
    <3>1. ToSet(<<>>) = {} /\ Rising(<<>>)
      BY DEF ToSet, Rising
    <3> QED BY <3>1, FlowTypes, ToSetJoined
  <2>4. Steady(c) => Rising(toRemote[c] \o rbuf[c])
    BY <1>2, FlowTypes, RisingJoined DEF LineAt
  <2>5. LineAt(c)'
    BY <1>1, <1>2, <1>4, <2>1, <2>2, <2>3, <2>4 DEF LineAt, Earlier
  <2>6. \A n : Has(toRemote[c], n) \/ Has(rbuf[c], n) => Has(toRemote[c] \o rbuf[c], n)
    BY FlowTypes, HasJoined
  <2>7. PlaceAt(c)'
    BY <1>1, <1>2, <1>4, <2>1, <2>6 DEF PlaceAt
  <2>8. \A p : OwnPart(c, p)' <=> OwnPart(c, p)
    <3>1. \A n : Reply(c, n)' = Reply(c, n)
      BY <1>1 DEF Reply
    <3> QED BY <1>1, <3>1 DEF OwnPart
  <2>9. AnswersAt(c)'
    BY <1>1, <1>2, <1>4, <2>2, <2>8 DEF AnswersAt, InOrder, Before
  <2> QED BY <2>5, <2>7, <2>9 DEF OrderAt
<1> QED BY <1>1, <1>3, <1>4

\* The first unit in hand, that of the context.
LEMMA FirstInHand ==
  ASSUME IInv, NEW c \in Conns, Taken(c)
  PROVE  /\ rbuf[c][1] \in ToSet(rbuf[c]) /\ 1 \in DOMAIN rbuf[c]
         /\ ctx[c].n = rbuf[c][1].n /\ ctx[c].n \in DOMAIN reqs[c] /\ ctx[c].n \in Nat \ {0}
<1>1. rbuf[c] # <<>> /\ ctx[c].n = rbuf[c][1].n /\ Known(c, rbuf[c])
  BY DEF IInv, InHand, InHandAt, RequestsKnown, KnownAt, Taken
<1>2. 1 \in DOMAIN rbuf[c]
  BY <1>1, FlowTypes, EmptySeq, LenProperties
<1>3. ctx[c].n \in DOMAIN reqs[c]
  BY <1>1, <1>2 DEF Known
<1> QED BY <1>1, <1>2, <1>3, FlowTypes DEF ToSet

\* The context of the request in hand is passed on, and follows what MySQL has executed.
LEMMA C2RSendOrder ==
  ASSUME IInv, Flow, Ordered, NEW c \in Conns, C2RSend(c) PROVE OrderAt(c)'
<1>1. /\ UNCHANGED <<reqs[c], toProxy[c], rbuf[c], toRemote[c], executed[c], fromRemote[c],
                     data[c], toClient[c], answered[c], r2c[c], ctx[c]>>
      /\ c2r[c] = "send" /\ c2r'[c] = "write"
      /\ Len(chan[c]) = 0 /\ chan'[c] = Append(chan[c], ctx[c])
  BY FlowFunctions, FlowTypes DEF C2RSend, ChanCap, At, Put, r2cVars, clientVars, remoteVars,
     sockets
<1>2. LineAt(c) /\ PlaceAt(c) /\ AnswersAt(c) /\ FlowAt(c)
  BY DEF Ordered, OrderAt, Flow
<1>3. Taken(c) /\ ~Taken(c)' /\ ~Lodged(c) /\ ~Lodged(c)'
  BY <1>1 DEF Taken, Lodged
<1>4. (Steady(c)' <=> Steady(c)) /\ (NoHits(c)' <=> NoHits(c))
  BY <1>1, <1>3 DEF Steady, NoHits
<1>5. ToSet(chan'[c]) = {ctx[c]}
  <2>1. chan[c] = <<>>
    BY <1>1, FlowTypes, EmptySeq
  <2>2. chan'[c] = <<ctx[c]>>
    BY <1>1, <2>1
  <2> QED BY <2>2 DEF ToSet
<1>6. Steady(c) => Earlier({ctx[c]}, ToSet(toProxy[c])) /\ Earlier(ToSet(data[c]), {ctx[c]})
  <2> SUFFICES ASSUME Steady(c)
               PROVE  /\ \A v \in ToSet(toProxy[c]) : ctx[c].n < v.n
                      /\ \A p \in ToSet(data[c]) : p.n < ctx[c].n
    BY DEF Earlier
  <2>1. \A v \in ToSet(toProxy[c]) : ctx[c].n < v.n
    BY <1>2, <1>3, FirstInHand, OneUnitEach DEF Earlier
  <2>2. \A n \in executed[c] : n < ctx[c].n
    BY <1>2, <1>3, FirstInHand DEF LineAt
  <2>3. \A p \in ToSet(data[c]) : p.n = 0 \/ p.n \in executed[c]
    BY <1>2 DEF FlowAt, ExecutedOK
  <2> QED BY <1>3, <2>1, <2>2, <2>3, FirstInHand
<1>7. LineAt(c)'
  BY <1>1, <1>2, <1>3, <1>4, <1>5, <1>6 DEF LineAt, Rising, Earlier
<1>8. PlaceAt(c)'
  <2>1. Has(rbuf[c], ctx[c].n)
    BY <1>3, FirstInHand DEF Has
  <2> QED BY <1>1, <1>2, <1>3, <1>5, <2>1 DEF PlaceAt, Has
<1>9. \A p : OwnPart(c, p)' <=> OwnPart(c, p)
  <2>1. \A n : Reply(c, n)' = Reply(c, n)
    BY <1>1 DEF Reply
  <2> QED BY <1>1, <2>1 DEF OwnPart
<1>10. AnswersAt(c)'
  BY <1>1, <1>2, <1>4, <1>9 DEF AnswersAt, InOrder, Before
<1> QED BY <1>7, <1>8, <1>10 DEF OrderAt

\* A read.  A context is only made of what comes first in the buffer.
LEMMA C2RReadOrder ==
  ASSUME IInv, Flow, Ordered, NEW c \in Conns, C2RRead(c) PROVE OrderAt(c)'
<1> DEFINE all == toProxy[c]
           us  == rbuf'[c]
<1>1. UNCHANGED <<reqs[c], toRemote[c], executed[c], fromRemote[c], data[c], chan[c],
                  toClient[c], answered[c], r2c[c]>>
  BY DEF C2RRead, r2cVars, clientVars, remoteVars, sockets, shared
<1>2. LineAt(c) /\ PlaceAt(c) /\ AnswersAt(c) /\ FlowAt(c)
  BY DEF Ordered, OrderAt, Flow
<1>3. PICK k \in 1 .. Len(all) :
        /\ us = rbuf[c] \o SubSeq(all, 1, k) /\ toProxy'[c] = SubSeq(all, k + 1, Len(all))
        /\ c2r[c] = "read"
        /\ \/ PacketType(c, us) = "Invalid" /\ c2r'[c] = "raw"
           \/ /\ PacketType(c, us) # "Invalid" /\ c2r'[c] = "lock"
              /\ ctx'[c].n = us[1].n
              /\ ctx'[c].sql \in {NoStmt, reqs[c][us[1].n]} \cup Scraps[reqs[c][us[1].n]]
  BY ReadTakes
<1> DEFINE taken == SubSeq(all, 1, k)
<1>4. /\ all \in Seq(Units) /\ taken \in Seq(Units) /\ Len(taken) = k /\ k \in Nat \ {0}
      /\ ToSet(taken) \subseteq ToSet(all) /\ ToSet(toProxy'[c]) \subseteq ToSet(all)
  <2>1. all \in Seq(Units) /\ k \in 1 .. Len(all) /\ toProxy'[c] = SubSeq(all, k + 1, Len(all))
    BY <1>3, FlowTypes
  <2> HIDE DEF all
  <2>2. taken \in Seq(Units) /\ Len(taken) = k
    BY <2>1, ReadSplit
  <2>3. ToSet(taken) \subseteq ToSet(all) /\ ToSet(toProxy'[c]) \subseteq ToSet(all)
    BY <2>1, ToSetSplit
  <2> QED BY <2>1, <2>2, <2>3
<1>5. ~Taken(c) /\ (Taken(c)' => c2r'[c] = "lock")
  BY <1>3 DEF Taken
<1>6. ASSUME Steady(c)'
      PROVE  /\ Steady(c) /\ us = taken /\ c2r'[c] = "lock" /\ ctx'[c].n = us[1].n
             /\ us[1] \in ToSet(us) /\ Rising(us)
             /\ Earlier(ToSet(toRemote[c]), ToSet(us))
  <2>1. c2r'[c] = "lock" /\ PacketType(c, us) # "Invalid" /\ ctx'[c].n = us[1].n
    BY <1>3, <1>6 DEF Steady, Lodged
  <2>2. rbuf[c] = <<>>
    <3> SUFFICES ASSUME rbuf[c] # <<>> PROVE FALSE
      OBVIOUS
    <3>1. PacketType(c, rbuf[c]) = "Invalid"
      BY <1>2, <1>3 DEF FlowAt, StuckOK, Stuck
    <3>2. us[1] = rbuf[c][1]
      <4>1. Len(rbuf[c]) \in Nat \ {0} /\ rbuf[c] \in Seq(Units)
        BY FlowTypes, EmptySeq
      <4> HIDE DEF us, all, taken
      <4>2. us = rbuf[c] \o taken
        BY <1>3 DEF taken
      <4> QED BY <1>4, <4>1, <4>2
    <3> QED BY <2>1, <3>1, <3>2 DEF PacketType
  <2>3. us = taken
    BY <1>3, <1>4, <2>2, ConcatEmptySeq
  <2>4. Steady(c)
    BY <1>1, <1>3, <1>6, <2>2 DEF Steady, Lodged
  <2>5. us[1] \in ToSet(us)
    <3>1. 1 \in DOMAIN taken
      BY <1>4, LenProperties
    <3> QED BY <2>3, <3>1 DEF ToSet
  <2>6. Rising(all) /\ Earlier(ToSet(rbuf[c]) \cup ToSet(toRemote[c]), ToSet(all))
    BY <1>2, <2>4, OneUnitEach
  <2>7. Rising(us)
    BY <1>4, <2>3, <2>6, RisingSplit
  <2>8. Earlier(ToSet(toRemote[c]), ToSet(us))
    BY <1>4, <2>3, <2>6 DEF Earlier
  <2> QED BY <2>1, <2>3, <2>4, <2>5, <2>7, <2>8
<1> HIDE DEF taken, us, all
<1>7. LineAt(c)'
  <2> SUFFICES ASSUME Steady(c)'
               PROVE  /\ \A n \in executed[c], u \in ToSet(us) \cup ToSet(toRemote[c]) : n < u.n
                      /\ Earlier(ToSet(chan[c]), ToSet(toProxy'[c]))
                      /\ Earlier(ToSet(chan[c]), {ctx'[c]})
    BY <1>1, <1>2, <1>6 DEF LineAt, Rising, Earlier, us
  <2>1. \A n \in executed[c], u \in ToSet(us) \cup ToSet(toRemote[c]) : n < u.n
    <3>1. \A n \in executed[c], u \in ToSet(all) : n < u.n
      BY <1>2 DEF FlowAt, ExecutedOK, all
    <3> QED BY <1>2, <1>4, <1>6, <3>1 DEF LineAt
  <2>2. Earlier(ToSet(chan[c]), ToSet(all))
    BY <1>2, <1>6 DEF LineAt, all
  <2> QED BY <1>4, <1>6, <2>1, <2>2 DEF Earlier
<1>8. PlaceAt(c)'
  <2>1. Taken(c)' =>
          ctx'[c].sql \in {NoStmt, reqs[c][ctx'[c].n]} \cup Scraps[reqs[c][ctx'[c].n]]
    BY <1>3, <1>5
  <2>2. c2r[c] # "write" /\ PlaceAt(c)
    BY <1>2, <1>3
  <2> QED BY <1>1, <2>1, <2>2 DEF PlaceAt, Has
<1>9. \A p : OwnPart(c, p)' <=> OwnPart(c, p)
  <2>1. \A n : Reply(c, n)' = Reply(c, n)
    BY <1>1 DEF Reply
  <2> QED BY <1>1, <2>1 DEF OwnPart
<1>10. NoHits(c)' => NoHits(c)
  BY <1>1, <1>6 DEF NoHits
<1>11. AnswersAt(c)'
  BY <1>1, <1>2, <1>6, <1>9, <1>10 DEF AnswersAt, NoHits, InOrder, Before
<1> QED BY <1>7, <1>8, <1>11 DEF OrderAt

\* remote_to_client reads a piece: the channel is empty then.
LEMMA R2CReadOrder ==
  ASSUME IInv, Ordered, NEW c \in Conns, R2CRead(c) PROVE OrderAt(c)'
<1> DEFINE all == fromRemote[c]
<1>1. /\ UNCHANGED <<reqs[c], toProxy[c], rbuf[c], toRemote[c], executed[c], toClient[c],
                     answered[c], c2r[c], ctx[c]>>
      /\ r2c[c] = "read" /\ r2c'[c] # "read"
  BY FlowFunctions DEF R2CRead, At, Put, c2rVars, clientVars, remoteVars, sockets
<1>2. LineAt(c) /\ PlaceAt(c) /\ AnswersAt(c)
  BY DEF Ordered, OrderAt
<1>3. PICK k \in 1 .. Len(all) :
        /\ data'[c] = SubSeq(all, 1, k)
        /\ fromRemote'[c] = SubSeq(all, k + 1, Len(all))
  BY FlowFunctions DEF R2CRead, Put
<1>4. /\ ToSet(data'[c]) \subseteq ToSet(all) /\ ToSet(fromRemote'[c]) \subseteq ToSet(all)
      /\ data'[c] # <<>>
  <2>1. Len(SubSeq(all, 1, k)) = k /\ k # 0
    BY FlowTypes, ReadSplit
  <2>2. all \in Seq(PartSet)
    BY FlowTypes
  <2> HIDE DEF all
  <2>3. /\ ToSet(SubSeq(all, 1, k)) \subseteq ToSet(all)
        /\ ToSet(SubSeq(all, k + 1, Len(all))) \subseteq ToSet(all)
    BY <2>2, ToSetSplit
  <2>4. SubSeq(all, 1, k) # <<>>
    BY <2>1
  <2> QED BY <1>3, <2>3, <2>4
<1>5. chan'[c] = <<>> /\ ToSet(chan'[c]) = {}
  <2>1. chan'[c] = <<>>
    <3>1. CASE chan[c] = <<>>
      BY <3>1, FlowFunctions DEF R2CRead, Takes, Put
    <3>2. CASE chan[c] # <<>>
      <4>1. Tail(chan[c]) = <<>>
        BY <3>2, FlowTypes, AtMostOne
      <4> QED BY <3>2, <4>1, FlowFunctions DEF R2CRead, Takes, Put
    <3> QED BY <3>1, <3>2
  <2> QED BY <2>1 DEF ToSet
<1>6. /\ (Lodged(c)' <=> Lodged(c)) /\ (Taken(c)' <=> Taken(c))
      /\ (Steady(c)' <=> Steady(c)) /\ (NoHits(c)' <=> NoHits(c))
  BY <1>1 DEF Lodged, Taken, Steady, NoHits
<1>7. LineAt(c)'
  BY <1>1, <1>2, <1>5, <1>6 DEF LineAt, Rising, Earlier
<1>8. PlaceAt(c)'
  BY <1>1, <1>2, <1>4, <1>5, <1>6 DEF PlaceAt
<1>9. \A p : OwnPart(c, p)' <=> OwnPart(c, p)
  <2>1. \A n : Reply(c, n)' = Reply(c, n)
    BY <1>1 DEF Reply
  <2> QED BY <1>1, <2>1 DEF OwnPart
<1>10. AnswersAt(c)'
  <2> SUFFICES ASSUME NoHits(c)
               PROVE  /\ InOrder(data'[c]) /\ InOrder(fromRemote'[c])
                      /\ \A p \in ToSet(data'[c]), q \in ToSet(fromRemote'[c]) : Before(p, q)
    BY <1>1, <1>2, <1>4, <1>6, <1>9 DEF AnswersAt, InOrder, Before
  <2> QED BY <1>2, <1>3, FlowTypes, AscendingSplit DEF AnswersAt
<1> QED BY <1>7, <1>8, <1>10 DEF OrderAt

\* The piece goes to the client.
LEMMA R2CWriteOrder ==
  ASSUME IInv, Ordered, NEW c \in Conns, R2CWrite(c) PROVE OrderAt(c)'
<1>1. /\ UNCHANGED <<reqs[c], toProxy[c], rbuf[c], toRemote[c], executed[c], fromRemote[c],
                     chan[c], answered[c], c2r[c], ctx[c]>>
      /\ r2c'[c] = "read" /\ data'[c] = <<>>
      /\ toClient'[c] = toClient[c] \/ toClient'[c] = toClient[c] \o data[c]
  BY FlowFunctions, OrderTypes DEF R2CWrite, Goto, ToClient, Put, c2rVars, clientVars,
     remoteVars, shared
<1>2. LineAt(c) /\ PlaceAt(c) /\ AnswersAt(c)
  BY DEF Ordered, OrderAt
<1>3. /\ (Lodged(c)' <=> Lodged(c)) /\ (Taken(c)' <=> Taken(c))
      /\ (Steady(c)' <=> Steady(c)) /\ (NoHits(c)' <=> NoHits(c))
  BY <1>1 DEF Lodged, Taken, Steady, NoHits
<1>4. ToSet(data'[c]) = {} /\ InOrder(<<>>)
  BY <1>1 DEF ToSet, InOrder
<1>5. LineAt(c)'
  BY <1>1, <1>2, <1>3, <1>4 DEF LineAt, Rising, Earlier
<1>6. PlaceAt(c)'
  BY <1>1, <1>2, <1>3 DEF PlaceAt
<1>7. \A p : OwnPart(c, p)' <=> OwnPart(c, p)
  <2>1. \A n : Reply(c, n)' = Reply(c, n)
    BY <1>1 DEF Reply
  <2> QED BY <1>1, <2>1 DEF OwnPart
<1>8. ToSet(toClient'[c]) \subseteq ToSet(toClient[c]) \cup ToSet(data[c])
  <2>1. ToSet(toClient[c] \o data[c]) = ToSet(toClient[c]) \cup ToSet(data[c])
    BY FlowTypes, OrderTypes, ToSetJoined
  <2> QED BY <1>1, <2>1
<1>9. NoHits(c) => InOrder(toClient'[c])
  BY <1>1, <1>2, FlowTypes, OrderTypes, AscendingJoined DEF AnswersAt
<1>10. AnswersAt(c)'
  <2> SUFFICES ASSUME NoHits(c)
               PROVE  /\ c2r'[c] \notin {"exists", "get", "reply", "log"}
                      /\ \A p \in ToSet(toClient'[c]) \cup ToSet(data'[c]) \cup ToSet(fromRemote'[c]) :
                           OwnPart(c, p)
                      /\ InOrder(toClient'[c]) /\ InOrder(data'[c]) /\ InOrder(fromRemote'[c])
                      /\ \A p \in ToSet(toClient'[c]),
                            q \in ToSet(data'[c]) \cup ToSet(fromRemote'[c]) : Before(p, q)
                      /\ \E n \in {0} \cup executed'[c] : answered'[c] <= n + 1
    BY <1>3, <1>4, <1>7 DEF AnswersAt, InOrder, Before
  <2> QED BY <1>1, <1>2, <1>4, <1>8, <1>9 DEF AnswersAt
<1> QED BY <1>5, <1>6, <1>10 DEF OrderAt

\* The parts of a reply are in order.
LEMMA ReplyParts ==
  ASSUME IInv, NEW c \in Conns, NEW n \in Nat, n = 0 \/ n \in DOMAIN reqs[c]
  PROVE  /\ Reply(c, n) \in Seq(PartSet) /\ InOrder(Reply(c, n)) /\ ToSet(Reply(c, n)) # {}
         /\ \A p \in ToSet(Reply(c, n)) : p.c = c /\ p.n = n /\ p.i <= Len(Reply(c, n))
<1>1. Reply(c, n) \in Seq(PartSet) /\ Reply(c, n) # <<>>
  BY ReplyType DEF IInv, TypeOK
<1>2. /\ DOMAIN Reply(c, n) = 1 .. Len(Reply(c, n)) /\ Len(Reply(c, n)) \in Nat \ {0}
  BY <1>1, EmptySeq, LenProperties
<1>3. \A i \in DOMAIN Reply(c, n) : Reply(c, n)[i] = [c |-> c, n |-> n, i |-> i]
  BY DEF Reply
<1> HIDE DEF Reply
<1> QED BY <1>1, <1>2, <1>3 DEF InOrder, Before, ToSet

\* A connection begins with the greeting.
LEMMA AcceptOrder ==
  ASSUME IInv, Ordered, NEW c \in Conns, Accept(c) PROVE OrderAt(c)'
<1>1. /\ UNCHANGED <<reqs[c], toProxy[c], rbuf[c], toRemote[c], executed[c], data[c], chan[c],
                     toClient[c], answered[c], c2r[c], ctx[c], r2c[c]>>
      /\ conn[c] = "new"
      /\ fromRemote'[c] = fromRemote[c] \/ fromRemote'[c] = Reply(c, 0)
  BY FlowFunctions DEF Accept, Put, c2rVars, r2cVars, clientVars, remoteVars, shared
<1>2. /\ LineAt(c) /\ PlaceAt(c) /\ AnswersAt(c) /\ OrderAt(c)
      /\ chan[c] = <<>> /\ toClient[c] = <<>> /\ data[c] = <<>> /\ answered[c] = 0
  BY <1>1 DEF Ordered, OrderAt, NewAt
<1>3. CASE fromRemote'[c] = fromRemote[c]
  <2>1. /\ r2c'[c] = "read" <=> r2c[c] = "read"
        /\ (Lodged(c)' <=> Lodged(c)) /\ (Taken(c)' <=> Taken(c))
    BY <1>1 DEF Lodged, Taken
  <2>2. NoHits(c) => c2r'[c] \notin {"exists", "get", "reply", "log"}
    BY <1>1, <1>2 DEF AnswersAt
  <2> QED BY <1>1, <1>2, <1>3, <2>1, <2>2, OrderStays
<1>4. CASE fromRemote'[c] = Reply(c, 0)
  <2>1. /\ (Lodged(c)' <=> Lodged(c)) /\ (Taken(c)' <=> Taken(c))
        /\ (Steady(c)' <=> Steady(c)) /\ (NoHits(c)' <=> NoHits(c))
    BY <1>1 DEF Lodged, Taken, Steady, NoHits
  <2>2. LineAt(c)'
    BY <1>1, <1>2, <2>1 DEF LineAt, Rising, Earlier
  <2>3. ToSet(<<>>) = {} /\ InOrder(<<>>)
    BY DEF ToSet, InOrder
  <2>4. PlaceAt(c)'
    BY <1>1, <1>2, <2>1, <2>3 DEF PlaceAt
  <2>5. \A p : OwnPart(c, p)' <=> OwnPart(c, p)
    <3>1. \A n : Reply(c, n)' = Reply(c, n)
      BY <1>1 DEF Reply
    <3> QED BY <1>1, <3>1 DEF OwnPart
  <2>6. /\ InOrder(Reply(c, 0)) /\ \A p \in ToSet(Reply(c, 0)) : OwnPart(c, p)
    BY <1>2, ReplyParts DEF OwnPart
  <2>7. AnswersAt(c)'
    <3> SUFFICES ASSUME NoHits(c)
                 PROVE  /\ c2r[c] \notin {"exists", "get", "reply", "log"}
                        /\ \E n \in {0} \cup executed[c] : answered[c] <= n + 1
      BY <1>1, <1>2, <1>4, <2>1, <2>3, <2>5, <2>6 DEF AnswersAt, InOrder, Before
    <3> QED BY <1>2 DEF AnswersAt
  <2> QED BY <2>2, <2>4, <2>7 DEF OrderAt
<1> QED BY <1>1, <1>3, <1>4

\* The client sends one more statement, unless it has sent COM_QUIT.
LEMMA ClientSendOrder ==
  ASSUME IInv, Flow, Ordered, NEW c \in Conns, NEW s \in Stmts, ClientSend(c, s)
  PROVE  OrderAt(c)'
<1> DEFINE m == Len(reqs[c]) + 1
           p == [i \in DOMAIN Frames[s] |-> [n |-> m, i |-> i]]
<1>1. /\ UNCHANGED <<rbuf[c], toRemote[c], executed[c], fromRemote[c], data[c], chan[c],
                     toClient[c], answered[c], c2r[c], ctx[c], r2c[c]>>
      /\ reqs'[c] = Append(reqs[c], s) /\ toProxy'[c] = toProxy[c] \o p
      /\ \A n \in DOMAIN reqs[c] : reqs[c][n] \notin Quits
  BY FlowFunctions DEF ClientSend, Put, c2rVars, r2cVars, remoteVars, shared
<1>2. LineAt(c) /\ PlaceAt(c) /\ AnswersAt(c) /\ FlowAt(c)
  BY DEF Ordered, OrderAt, Flow
<1>3. /\ m \in Nat \ {0} /\ DOMAIN reqs[c] = 1 .. m - 1 /\ DOMAIN reqs'[c] = 1 .. m
      /\ Len(reqs'[c]) = m
      /\ \A n \in DOMAIN reqs[c] : reqs'[c][n] = reqs[c][n] /\ n < m /\ n \in DOMAIN reqs'[c]
  <2> DEFINE old == reqs[c]
             new == reqs'[c]
  <2>1. old \in Seq(Stmts) /\ new = Append(old, s) /\ m = Len(old) + 1
    BY <1>1, FlowTypes
  <2> HIDE DEF m, old, new
  <2>2. /\ m \in Nat \ {0} /\ DOMAIN old = 1 .. m - 1 /\ DOMAIN new = 1 .. m
        /\ Len(new) = m /\ new[m] = s
        /\ \A n \in DOMAIN old : new[n] = old[n] /\ n < m /\ n \in DOMAIN new
    BY <2>1, OneMore
  <2> QED BY <2>2 DEF old, new
<1>4. \A v \in ToSet(toProxy'[c]) : v \in ToSet(toProxy[c]) \/ v.n = m
  <2>1. Frames[s] \in Seq(FrameTypes)
    BY SessionAssumption DEF SessionAssumption
  <2>2. p \in Seq(Units) /\ \A i \in DOMAIN p : p[i].n = m
    BY <1>3, <2>1, NewPacket
  <2> HIDE DEF p, m
  <2>3. ToSet(toProxy[c] \o p) = ToSet(toProxy[c]) \cup ToSet(p)
    BY <2>2, FlowTypes, ToSetJoined
  <2>4. \A v \in ToSet(p) : v.n = m
    BY <2>2 DEF ToSet
  <2> QED BY <1>1, <2>3, <2>4
<1> HIDE DEF p, m
<1>5. \A x \in ToSet(chan[c]) : x.n \in DOMAIN reqs[c]
  BY DEF IInv, RequestsKnown, KnownAt, Known, ToSet
<1>6. Taken(c) => ctx[c].n \in DOMAIN reqs[c]
  BY FirstInHand
<1>7. /\ (Lodged(c)' <=> Lodged(c)) /\ (Taken(c)' <=> Taken(c))
      /\ (Steady(c)' => Steady(c)) /\ (NoHits(c)' => NoHits(c))
  BY <1>1, <1>3 DEF Lodged, Taken, Steady, NoHits
<1>8. LineAt(c)'
  <2> SUFFICES ASSUME Steady(c) PROVE Earlier(ToSet(chan[c]), ToSet(toProxy'[c]))
    BY <1>1, <1>2, <1>7 DEF LineAt, Rising, Earlier
  <2> QED BY <1>2, <1>3, <1>4, <1>5 DEF LineAt, Earlier
<1>9. PlaceAt(c)'
  <2>1. \A n \in DOMAIN reqs'[c] : reqs'[c][n] \in Quits => n = Len(reqs'[c])
    BY <1>1, <1>3
  <2>2. \A x \in ToSet(chan[c]) : reqs'[c][x.n] \notin Mute \cup Quits =>
          \/ c2r[c] = "write" /\ Has(rbuf[c], x.n)
          \/ Has(toRemote[c], x.n)
          \/ Has(fromRemote[c], x.n)
    BY <1>2, <1>3, <1>5 DEF PlaceAt
  <2>3. Taken(c) => ctx[c].sql \in {NoStmt, reqs'[c][ctx[c].n]}
                                    \cup Scraps[reqs'[c][ctx[c].n]]
    BY <1>2, <1>3, <1>6 DEF PlaceAt
  <2>4. r2c[c] = "read" <=> data[c] = <<>>
    BY <1>2 DEF PlaceAt
  <2> QED BY <1>1, <1>7, <2>1, <2>2, <2>3, <2>4 DEF PlaceAt
<1>10. \A n \in {0} \cup executed[c] : Reply(c, n)' = Reply(c, n)
  <2>1. executed[c] \subseteq DOMAIN reqs[c]
    BY <1>2 DEF FlowAt, ExecutedOK
  <2> QED BY <1>3, <2>1 DEF Reply
<1>11. \A q : OwnPart(c, q) => OwnPart(c, q)'
  BY <1>1, <1>10 DEF OwnPart
<1>12. AnswersAt(c)'
  BY <1>1, <1>2, <1>7, <1>11 DEF AnswersAt, InOrder, Before
<1> QED BY <1>8, <1>9, <1>12 DEF OrderAt

\* The client reads a part: the answers it counts are its own, and in order.
LEMMA ClientRecvOrder ==
  ASSUME IInv, Ordered, NEW c \in Conns, ClientRecv(c) PROVE OrderAt(c)'
<1> DEFINE p == Head(toClient[c])
           rest == Tail(toClient[c])
<1>1. /\ UNCHANGED <<reqs[c], toProxy[c], rbuf[c], toRemote[c], executed[c], fromRemote[c],
                     data[c], chan[c], c2r[c], ctx[c], r2c[c]>>
      /\ toClient[c] # <<>> /\ toClient'[c] = rest
      /\ \/ p.i = Len(Reply(p.c, p.n)) /\ answered'[c] = answered[c] + 1
         \/ answered'[c] = answered[c]
  BY OrderTypes DEF ClientRecv, Put, c2rVars, r2cVars, remoteVars, shared
<1>2. LineAt(c) /\ PlaceAt(c) /\ AnswersAt(c)
  BY DEF Ordered, OrderAt
<1>3. /\ (Lodged(c)' <=> Lodged(c)) /\ (Taken(c)' <=> Taken(c))
      /\ (Steady(c)' <=> Steady(c)) /\ (NoHits(c)' <=> NoHits(c))
  BY <1>1 DEF Lodged, Taken, Steady, NoHits
<1>4. LineAt(c)'
  BY <1>1, <1>2, <1>3 DEF LineAt, Rising, Earlier
<1>5. PlaceAt(c)'
  BY <1>1, <1>2, <1>3 DEF PlaceAt
<1>6. /\ p \in ToSet(toClient[c]) /\ toClient[c][1] = p /\ 1 \in DOMAIN toClient[c]
      /\ \A i \in DOMAIN rest : /\ i \in Nat \ {0} /\ i + 1 \in DOMAIN toClient[c]
                                /\ rest[i] = toClient[c][i + 1]
  BY <1>1, OrderTypes DEF ToSet
<1> HIDE DEF rest
<1>7. ASSUME NoHits(c)
      PROVE  /\ ToSet(rest) \subseteq ToSet(toClient[c]) /\ InOrder(rest)
             /\ \A q \in ToSet(rest) \cup ToSet(data[c]) \cup ToSet(fromRemote[c]) : Before(p, q)
  <2>1. InOrder(toClient[c])
    BY <1>2, <1>7 DEF AnswersAt
  <2>2. \A i, j \in DOMAIN rest : i < j => i + 1 < j + 1
    BY <1>6
  <2>3. InOrder(rest)
    BY <1>6, <2>1, <2>2 DEF InOrder
  <2>4. \A i \in DOMAIN rest : 1 < i + 1
    BY <1>6
  <2>5. \A q \in ToSet(rest) : q \in ToSet(toClient[c]) /\ Before(p, q)
    BY <1>6, <2>1, <2>4 DEF InOrder, ToSet
  <2> QED BY <1>2, <1>6, <1>7, <2>3, <2>5 DEF AnswersAt
<1>8. ASSUME NoHits(c)
      PROVE  /\ \A q \in ToSet(rest) \cup ToSet(data[c]) \cup ToSet(fromRemote[c]) :
                  OwnPart(c, q)'
             /\ \E n \in {0} \cup executed[c] : answered'[c] <= n + 1
  <2>1. OwnPart(c, p)
    BY <1>2, <1>6, <1>8 DEF AnswersAt
  <2>2. answered'[c] <= p.n + 1
    <3>1. answered[c] \in Nat /\ answered[c] <= p.n /\ p.n \in Nat
      BY <2>1, FlowTypes, OrderTypes DEF OwnPart
    <3> QED BY <1>1, <3>1
  <2>3. ASSUME NEW q \in ToSet(rest) \cup ToSet(data[c]) \cup ToSet(fromRemote[c])
        PROVE  OwnPart(c, q)'
    <3>1. OwnPart(c, q) /\ Before(p, q) /\ q \in PartSet
      <4>1. ToSet(toClient[c]) \cup ToSet(data[c]) \cup ToSet(fromRemote[c]) \subseteq PartSet
        BY FlowTypes, OrderTypes DEF ToSet
      <4> QED BY <1>2, <1>7, <1>8, <2>3, <4>1 DEF AnswersAt
    <3>2. p \in PartSet
      BY <1>6, OrderTypes DEF ToSet
    <3>3. answered'[c] <= q.n
      <4>1. CASE p.i = Len(Reply(p.c, p.n)) /\ answered'[c] = answered[c] + 1
        <5>1. q.n = p.n => q.i <= p.i
          BY <2>1, <3>1, <4>1 DEF OwnPart
        <5>2. p.n < q.n
          BY <3>1, <3>2, <5>1 DEF Before, PartSet
        <5> QED BY <2>1, <3>1, <3>2, <4>1, <5>2, OrderTypes DEF OwnPart, PartSet
      <4>2. CASE answered'[c] = answered[c]
        BY <3>1, <4>2 DEF OwnPart
      <4> QED BY <1>1, <4>1, <4>2
    <3>4. Reply(c, q.n)' = Reply(c, q.n)
      BY <1>1 DEF Reply
    <3> QED BY <1>1, <3>1, <3>3, <3>4 DEF OwnPart
  <2>4. p.n \in {0} \cup executed[c]
    BY <2>1 DEF OwnPart
  <2> QED BY <2>2, <2>3, <2>4
<1>9. AnswersAt(c)'
  <2> SUFFICES ASSUME NoHits(c)
               PROVE  /\ c2r[c] \notin {"exists", "get", "reply", "log"}
                      /\ InOrder(data[c]) /\ InOrder(fromRemote[c])
                      /\ \A q \in ToSet(data[c]), x \in ToSet(fromRemote[c]) : Before(q, x)
                      /\ \A q \in ToSet(rest),
                            x \in ToSet(data[c]) \cup ToSet(fromRemote[c]) : Before(q, x)
    BY <1>1, <1>3, <1>7, <1>8 DEF AnswersAt, InOrder, Before
  <2> QED BY <1>2, <1>7 DEF AnswersAt
<1> QED BY <1>4, <1>5, <1>9 DEF OrderAt

\* What a client that leaves has not read is gone.
LEMMA ClientCloseOrder ==
  ASSUME IInv, Ordered, NEW c \in Conns, ClientClose(c) PROVE OrderAt(c)'
<1>1. /\ UNCHANGED <<reqs[c], toProxy[c], rbuf[c], toRemote[c], executed[c], fromRemote[c],
                     data[c], chan[c], answered[c], c2r[c], ctx[c], r2c[c]>>
      /\ toClient'[c] = <<>>
  BY OrderTypes DEF ClientClose, Put, c2rVars, r2cVars, remoteVars, shared
<1>2. LineAt(c) /\ PlaceAt(c) /\ AnswersAt(c)
  BY DEF Ordered, OrderAt
<1>3. /\ (Lodged(c)' <=> Lodged(c)) /\ (Taken(c)' <=> Taken(c))
      /\ (Steady(c)' <=> Steady(c)) /\ (NoHits(c)' <=> NoHits(c))
  BY <1>1 DEF Lodged, Taken, Steady, NoHits
<1>4. LineAt(c)'
  BY <1>1, <1>2, <1>3 DEF LineAt, Rising, Earlier
<1>5. PlaceAt(c)'
  BY <1>1, <1>2, <1>3 DEF PlaceAt
<1>6. \A q : OwnPart(c, q)' <=> OwnPart(c, q)
  <2>1. \A n : Reply(c, n)' = Reply(c, n)
    BY <1>1 DEF Reply
  <2> QED BY <1>1, <2>1 DEF OwnPart
<1>7. ToSet(<<>>) = {} /\ InOrder(<<>>)
  BY DEF ToSet, InOrder
<1>8. AnswersAt(c)'
  <2> SUFFICES ASSUME NoHits(c)
               PROVE  /\ c2r[c] \notin {"exists", "get", "reply", "log"}
                      /\ \A q \in ToSet(data[c]) \cup ToSet(fromRemote[c]) : OwnPart(c, q)
                      /\ InOrder(data[c]) /\ InOrder(fromRemote[c])
                      /\ \A q \in ToSet(data[c]), x \in ToSet(fromRemote[c]) : Before(q, x)
                      /\ \E n \in {0} \cup executed[c] : answered[c] <= n + 1
    BY <1>1, <1>3, <1>6, <1>7 DEF AnswersAt, InOrder, Before
  <2> QED BY <1>2 DEF AnswersAt
<1> QED BY <1>4, <1>5, <1>8 DEF OrderAt

\* Units of request n are among us.
LEMMA HasElement ==
  ASSUME NEW us, NEW n PROVE Has(us, n) <=> \E u \in ToSet(us) : u.n = n
BY DEF Has, ToSet

\* MySQL executes a packet: the first of those it has been sent, and all its replies so
\* far are to earlier ones.
LEMMA RemoteExecOrder ==
  ASSUME IInv, Flow, Ordered, NEW c \in Conns, RemoteExec(c) PROVE OrderAt(c)'
<1> DEFINE us == toRemote[c]
           n  == us[1].n
           k  == Len(NextPacket(c))
<1>1. /\ UNCHANGED <<reqs[c], toProxy[c], rbuf[c], data[c], chan[c], toClient[c], answered[c],
                     c2r[c], ctx[c], r2c[c]>>
      /\ us # <<>> /\ IsPrefix(NextPacket(c), us)
      /\ executed'[c] = executed[c] \cup {n}
      /\ toRemote'[c] = SubSeq(us, k + 1, Len(us))
      /\ \/ reqs[c][n] \in Mute \cup Quits /\ fromRemote'[c] = fromRemote[c]
         \/ reqs[c][n] \notin Mute \cup Quits /\ fromRemote'[c] = fromRemote[c] \o Reply(c, n)
  BY FlowFunctions DEF RemoteExec, Put, c2rVars, r2cVars, clientVars, shared
<1>2. LineAt(c) /\ PlaceAt(c) /\ AnswersAt(c) /\ FlowAt(c)
  BY DEF Ordered, OrderAt, Flow
<1>3. us \in Seq(Units) /\ 1 \in DOMAIN us /\ us[1] \in ToSet(us)
  <2>1. us \in Seq(Units) /\ Len(us) \in Nat \ {0} /\ DOMAIN us = 1 .. Len(us)
    BY <1>1, FlowTypes, EmptySeq, LenProperties
  <2> QED BY <2>1 DEF ToSet
<1>4. n \in DOMAIN reqs[c] /\ n \in Nat \ {0}
  BY <1>2, <1>3, FlowTypes DEF FlowAt, UnitsOK
<1>5. k \in 1 .. Len(us) /\ \A j \in 1 .. k : us[j].n = n
  BY <1>1, <1>4, PacketPrefix DEF IInv, TypeOK
<1> HIDE DEF n, k
<1>6. ToSet(toRemote'[c]) \subseteq ToSet(us)
  BY <1>1, <1>3, <1>5, ToSetSplit
<1>7. /\ InOrder(Reply(c, n)) /\ ToSet(Reply(c, n)) # {} /\ Reply(c, n) \in Seq(PartSet)
      /\ \A p \in ToSet(Reply(c, n)) : p.c = c /\ p.n = n /\ p.i <= Len(Reply(c, n))
      /\ ToSet(fromRemote[c] \o Reply(c, n)) = ToSet(fromRemote[c]) \cup ToSet(Reply(c, n))
  <2>1. Reply(c, n) \in Seq(PartSet)
    BY <1>4, ReplyParts
  <2> QED BY <1>4, <2>1, ReplyParts, FlowTypes, ToSetJoined
<1>8. /\ (Lodged(c)' <=> Lodged(c)) /\ (Taken(c)' <=> Taken(c))
      /\ (Steady(c)' <=> Steady(c)) /\ (NoHits(c)' <=> NoHits(c))
  BY <1>1 DEF Lodged, Taken, Steady, NoHits
<1>9. ASSUME Steady(c)
      PROVE  /\ Rising(toRemote'[c])
             /\ \A u \in ToSet(rbuf[c]) \cup ToSet(toRemote'[c]) : n < u.n
  <2>1. Rising(us) /\ Earlier(ToSet(us), ToSet(rbuf[c]))
    BY <1>2, <1>9 DEF LineAt
  <2>2. Rising(toRemote'[c])
    BY <1>1, <1>3, <1>5, <2>1, RisingSplit
  <2>3. \A i \in DOMAIN toRemote'[c] : /\ i + k \in DOMAIN us /\ 1 < i + k
                                       /\ toRemote'[c][i] = us[i + k]
    BY <1>1, <1>3, <1>5, ReadSplit
  <2>4. \A u \in ToSet(toRemote'[c]) : n < u.n
    BY <1>3, <2>1, <2>3 DEF Rising, ToSet, n
  <2> QED BY <1>3, <2>1, <2>2, <2>4 DEF Earlier, n
<1>10. LineAt(c)'
  <2> SUFFICES ASSUME Steady(c)
               PROVE  /\ Earlier(ToSet(toRemote'[c]), ToSet(rbuf[c]))
                      /\ \A m \in executed[c] \cup {n},
                            u \in ToSet(rbuf[c]) \cup ToSet(toRemote'[c]) : m < u.n
    BY <1>1, <1>2, <1>8, <1>9 DEF LineAt, Rising, Earlier
  <2> QED BY <1>2, <1>6, <1>9 DEF LineAt, Earlier
<1>11. PlaceAt(c)'
  <2>1. \A x \in ToSet(chan[c]) : reqs[c][x.n] \notin Mute \cup Quits /\ Has(us, x.n) =>
          Has(toRemote'[c], x.n) \/ Has(fromRemote'[c], x.n)
    <3> SUFFICES ASSUME NEW x \in ToSet(chan[c]), reqs[c][x.n] \notin Mute \cup Quits,
                        Has(us, x.n)
                 PROVE  Has(toRemote'[c], x.n) \/ Has(fromRemote'[c], x.n)
      OBVIOUS
    <3>1. CASE x.n = n
      BY <1>1, <1>7, <3>1, HasElement
    <3>2. CASE x.n # n
      <4>1. \A j \in 1 .. k : us[j].n # x.n
        BY <1>5, <3>2
      <4> QED BY <1>1, <1>3, <1>5, <4>1, HasLeft
    <3> QED BY <3>1, <3>2
  <2>2. \A m : Has(fromRemote[c], m) => Has(fromRemote'[c], m)
    BY <1>1, <1>7, HasElement
  <2> QED BY <1>1, <1>2, <1>8, <2>1, <2>2 DEF PlaceAt
<1>12. AnswersAt(c)'
  <2> SUFFICES ASSUME NoHits(c)
               PROVE  /\ c2r[c] \notin {"exists", "get", "reply", "log"}
                      /\ \A p \in ToSet(toClient[c]) \cup ToSet(data[c]) \cup ToSet(fromRemote'[c]) :
                           OwnPart(c, p)'
                      /\ InOrder(toClient[c]) /\ InOrder(data[c]) /\ InOrder(fromRemote'[c])
                      /\ \A p \in ToSet(toClient[c]),
                            q \in ToSet(data[c]) \cup ToSet(fromRemote'[c]) : Before(p, q)
                      /\ \A p \in ToSet(data[c]), q \in ToSet(fromRemote'[c]) : Before(p, q)
                      /\ \E m \in {0} \cup executed'[c] : answered[c] <= m + 1
    BY <1>1, <1>8 DEF AnswersAt, InOrder, Before
  <2>1. \A m \in {0} \cup executed[c] : m < n /\ m \in Nat
    <3>1. Steady(c)
      BY DEF NoHits
    <3>2. \A m \in executed[c] : m < n
      BY <1>2, <1>3, <3>1 DEF LineAt, n
    <3> QED BY <1>4, <3>2, FlowTypes
  <2>2. \A p \in ToSet(toClient[c]) \cup ToSet(data[c]) \cup ToSet(fromRemote[c]) :
          OwnPart(c, p) /\ p.n < n
    BY <1>2, <2>1 DEF AnswersAt, OwnPart
  <2>3. answered[c] <= n
    <3>1. PICK m \in {0} \cup executed[c] : answered[c] <= m + 1
      BY <1>2 DEF AnswersAt
    <3> QED BY <1>4, <2>1, <3>1, OrderTypes
  <2>4. \A p \in ToSet(Reply(c, n)) : p.n = n /\ OwnPart(c, p)'
    <3>1. \A m : Reply(c, m)' = Reply(c, m)
      BY <1>1 DEF Reply
    <3>2. n \in executed'[c]
      BY <1>1
    <3> QED BY <1>1, <1>7, <2>3, <3>1, <3>2 DEF OwnPart
  <2>5. \A p : OwnPart(c, p) => OwnPart(c, p)'
    <3>1. \A m : Reply(c, m)' = Reply(c, m)
      BY <1>1 DEF Reply
    <3> QED BY <1>1, <3>1 DEF OwnPart
  <2>6. \A p \in ToSet(toClient[c]) \cup ToSet(data[c]) \cup ToSet(fromRemote[c]),
           q \in ToSet(Reply(c, n)) : Before(p, q)
    BY <2>2, <2>4 DEF Before
  <2>7. InOrder(fromRemote[c] \o Reply(c, n))
    BY <1>2, <1>7, <2>6, FlowTypes, AscendingJoined DEF AnswersAt
  <2>8. \A q \in ToSet(fromRemote'[c]) : q \in ToSet(fromRemote[c]) \/ q \in ToSet(Reply(c, n))
    BY <1>1, <1>7
  <2>9. InOrder(fromRemote'[c])
    BY <1>1, <1>2, <2>7 DEF AnswersAt
  <2>10. \A p \in ToSet(toClient[c]) \cup ToSet(data[c]) \cup ToSet(fromRemote'[c]) :
           OwnPart(c, p)'
    BY <2>2, <2>4, <2>5, <2>8
  <2>11. /\ \A p \in ToSet(toClient[c]),
               q \in ToSet(data[c]) \cup ToSet(fromRemote'[c]) : Before(p, q)
         /\ \A p \in ToSet(data[c]), q \in ToSet(fromRemote'[c]) : Before(p, q)
    BY <1>2, <2>6, <2>8 DEF AnswersAt
  <2>12. \E m \in {0} \cup executed'[c] : answered[c] <= m + 1
    BY <1>1, <1>2 DEF AnswersAt
  <2>13. c2r[c] \notin {"exists", "get", "reply", "log"} /\ InOrder(toClient[c]) /\ InOrder(data[c])
    BY <1>2 DEF AnswersAt
  <2> QED BY <2>9, <2>10, <2>11, <2>12, <2>13
<1> QED BY <1>10, <1>11, <1>12 DEF OrderAt
-----------------------------------------------------------------------------
(***************************************************************************)
(* The invariant, and the theorem.                                         *)
(***************************************************************************)
LEMMA InitOrder == Init => Ordered
<1> SUFFICES ASSUME Init, NEW c \in Conns PROVE NewAt(c) /\ OrderAt(c)
  BY DEF Ordered
<1>1. ToSet(<<>>) = {} /\ DOMAIN <<>> = {}
  BY DEF ToSet
<1>2. /\ reqs[c] = <<>> /\ toProxy[c] = <<>> /\ rbuf[c] = <<>> /\ toRemote[c] = <<>>
      /\ fromRemote[c] = <<>> /\ data[c] = <<>> /\ chan[c] = <<>> /\ toClient[c] = <<>>
      /\ executed[c] = {} /\ answered[c] = 0 /\ c2r[c] = "read" /\ r2c[c] = "read"
  BY DEF Init, Empty
<1>3. NewAt(c) /\ LineAt(c) /\ PlaceAt(c)
  BY <1>1, <1>2 DEF NewAt, LineAt, PlaceAt, Rising, Earlier, Taken
<1>4. AnswersAt(c)
  BY <1>1, <1>2 DEF AnswersAt, InOrder
<1> QED BY <1>3, <1>4 DEF OrderAt

LEMMA NextOrder == IInv /\ Flow /\ Ordered /\ [Next]_vars => Ordered'
<1> SUFFICES ASSUME IInv, Flow, Ordered, [Next]_vars PROVE Ordered'
  OBVIOUS
<1>1. ASSUME NEW c \in Conns, C2R(c) PROVE OrderAt(c)'
  BY <1>1, C2RReadOrder, C2REndOrder, C2RRawOrder, C2RRequestOrder, C2RLookupOrder,
     C2RReplyOrder, C2RSendOrder, C2RWriteOrder DEF C2R
<1>2. ASSUME NEW c \in Conns, R2C(c) PROVE OrderAt(c)'
  BY <1>2, R2CReadOrder, R2CFlushOrder, R2CWriteOrder DEF R2C
<1>3. ASSUME NEW c \in Conns, Accept(c) \/ Client(c) \/ Remote(c) PROVE OrderAt(c)'
  BY <1>3, AcceptOrder, ClientSendOrder, ClientRecvOrder, ClientCloseOrder, RemoteExecOrder,
     R2CFlushOrder DEF Client, Remote
<1>4. ASSUME NEW c \in Conns, Accept(c) \/ C2R(c) \/ R2C(c) \/ Client(c) \/ Remote(c)
      PROVE  Ordered'
  BY <1>1, <1>2, <1>3, <1>4, OrderNext
<1>5. CASE Jobs \/ Terminated \/ UNCHANGED vars
  BY <1>5, OrderQuiet DEF Terminated
<1> QED BY <1>4, <1>5 DEF Next

LEMMA OrderAlways == Spec => [](IInv /\ Flow /\ Ordered)
BY InitIInv, NextPreserves, InitFlow, NextFlow, InitOrder, NextOrder, PTL DEF Spec

\* Three requests of the session: one whose reply r2c has in hand, one whose context is in
\* the channel, and one that c2r has in hand.
LEMMA ThreeUnderWay ==
  ASSUME IInv, Flow, Ordered, NEW c \in Conns, Embrace(c),
         \A n \in DOMAIN reqs[c] : reqs[c][n] \notin Mute /\ Len(Frames[reqs[c][n]]) = 1
  PROVE  \E p \in ToSet(data[c]), n \in UnderWay(c), m \in UnderWay(c) :
           p.n < n /\ n < m /\ m \in DOMAIN reqs[c]
<1>1. c2r[c] = "send" /\ chan[c] # <<>> /\ r2c[c] \in {"finish", "respond"}
  BY DEF Embrace, R2CQueues
<1>2. LineAt(c) /\ PlaceAt(c)
  BY DEF Ordered, OrderAt
<1>3. Steady(c) /\ Taken(c)
  BY <1>1 DEF Steady, Lodged, Taken
<1> DEFINE x == chan[c][1]
<1>4. x \in ToSet(chan[c]) /\ x.n \in DOMAIN reqs[c]
  BY <1>1, FlowTypes, AtMostOne DEF IInv, RequestsKnown, KnownAt, Known, ToSet
<1>5. data[c] # <<>>
  BY <1>1, <1>2 DEF PlaceAt
<1>6. PICK p \in ToSet(data[c]) : TRUE
  <2>1. 1 \in DOMAIN data[c]
    BY <1>5, FlowTypes, EmptySeq, LenProperties
  <2> QED BY <2>1 DEF ToSet
<1>7. p.n < x.n /\ x.n < ctx[c].n
  BY <1>2, <1>3, <1>4, <1>6 DEF LineAt, Earlier
<1>8. /\ ctx[c].n \in DOMAIN reqs[c]
      /\ \E u \in ToSet(rbuf[c]) : u.n = ctx[c].n
  BY <1>3, FirstInHand
<1>9. reqs[c][x.n] \notin Quits
  <2>1. x.n # Len(reqs[c])
    BY <1>4, <1>7, <1>8, FlowTypes
  <2> QED BY <1>2, <1>4, <2>1 DEF PlaceAt
<1>10. Has(toRemote[c], x.n) \/ Has(fromRemote[c], x.n)
  BY <1>1, <1>2, <1>4, <1>9 DEF PlaceAt
<1>11. x.n \in UnderWay(c) /\ ctx[c].n \in UnderWay(c)
  BY <1>8, <1>10, HasElement DEF UnderWay
<1> QED BY <1>7, <1>8, <1>11

\* Three members of a finite set.
LEMMA ThreeMembers ==
  ASSUME NEW S, IsFiniteSet(S), NEW x \in S, NEW y \in S, NEW z \in S, x # y, y # z, x # z
  PROVE  Cardinality(S) > 2
<1>1. Cardinality({x, y, z}) = 3
  <2>1. Cardinality({}) = 0 /\ IsFiniteSet({})
    BY FS_EmptySet
  <2>2. IsFiniteSet({x}) /\ Cardinality({x}) = 1
    BY FS_Singleton
  <2>3. IsFiniteSet({x} \cup {y}) /\ Cardinality({x} \cup {y}) = 2
    <3>1. /\ IsFiniteSet({x} \cup {y})
          /\ Cardinality({x} \cup {y}) = IF y \in {x} THEN Cardinality({x}) ELSE Cardinality({x}) + 1
      BY <2>2, FS_AddElement
    <3>2. y \notin {x}
      OBVIOUS
    <3> QED BY <2>2, <3>1, <3>2
  <2>4. Cardinality(({x} \cup {y}) \cup {z}) = 3
    BY <2>3, FS_AddElement
  <2>5. ({x} \cup {y}) \cup {z} = {x, y, z}
    OBVIOUS
  <2> QED BY <2>4, <2>5
<1>2. Cardinality({x, y, z}) <= Cardinality(S) /\ Cardinality(S) \in Nat
  <2>1. {x, y, z} \subseteq S
    OBVIOUS
  <2> QED BY <2>1, FS_Subset, FS_CardinalityType
<1> QED BY <1>1, <1>2

LEMMA UnderWayFinite ==
  ASSUME IInv, Flow, NEW c \in Conns
  PROVE  IsFiniteSet(UnderWay(c)) /\ UnderWay(c) \subseteq Nat
<1>1. FlowAt(c) /\ Len(reqs[c]) \in Nat /\ DOMAIN reqs[c] = 1 .. Len(reqs[c])
  BY FlowTypes, LenProperties DEF Flow
<1>2. \A u \in ToSet(toProxy[c]) \cup ToSet(rbuf[c]) \cup ToSet(toRemote[c]) :
        u.n \in DOMAIN reqs[c]
  BY <1>1 DEF FlowAt, UnitsOK
<1>3. \A p \in ToSet(fromRemote[c]) \cup ToSet(data[c]) : p.n \in {0} \cup DOMAIN reqs[c]
  BY <1>1 DEF FlowAt, ExecutedOK
<1>4. UnderWay(c) \subseteq 0 .. Len(reqs[c])
  BY <1>1, <1>2, <1>3 DEF UnderWay
<1>5. IsFiniteSet(0 .. Len(reqs[c]))
  BY <1>1, FS_Interval
<1> QED BY <1>1, <1>4, <1>5, FS_Subset

\* The two halves of a session wait for each other only over three requests that come
\* whole and are answered: one with its reply in hand, one whose context is in the
\* channel, one that waits for the channel.  If no rule matches a statement of the client,
\* or a read of one, none of the three has been answered, so a client that leaves at most
\* two requests unanswered never stops its session (serve/mod.rs:111-118, 182, 205).
THEOREM NoMutualWait == Spec => []NoEmbrace
<1>1. IInv /\ Flow /\ Ordered => NoEmbrace
  <2> SUFFICES ASSUME IInv, Flow, Ordered, NEW c \in Conns, Embrace(c),
                      \A s \in {reqs[c][n] : n \in DOMAIN reqs[c]} :
                        s \notin Mute /\ Len(Frames[s]) = 1
               PROVE  /\ Cardinality(UnderWay(c)) > 2
                      /\ LET sent == {reqs[c][n] : n \in DOMAIN reqs[c]} IN
                         (sent \cup UNION {Scraps[s] : s \in sent}) \cap Cacheable = {} =>
                           1 + Len(reqs[c]) - answered[c] > 2
    BY DEF NoEmbrace
  <2> DEFINE sent == {reqs[c][i] : i \in DOMAIN reqs[c]}
  <2>1. PICK p \in ToSet(data[c]), n \in UnderWay(c), m \in UnderWay(c) :
               p.n < n /\ n < m /\ m \in DOMAIN reqs[c]
    BY ThreeUnderWay
  <2>2. p.n \in UnderWay(c)
    BY DEF UnderWay
  <2>3. UnderWay(c) \subseteq Nat /\ IsFiniteSet(UnderWay(c))
    BY UnderWayFinite
  <2>4. p.n # n /\ n # m /\ p.n # m
    BY <2>1, <2>2, <2>3
  <2>5. Cardinality(UnderWay(c)) > 2
    BY <2>1, <2>2, <2>3, <2>4, ThreeMembers
  <2>6. ASSUME (sent \cup UNION {Scraps[s] : s \in sent}) \cap Cacheable = {}
        PROVE  1 + Len(reqs[c]) - answered[c] > 2
    <3>1. Steady(c)
      BY DEF Steady, Lodged, Embrace
    <3>2. NoHits(c)
      <4>1. ASSUME NEW i \in DOMAIN reqs[c]
            PROVE  ({reqs[c][i]} \cup Scraps[reqs[c][i]]) \cap Cacheable = {}
        <5>1. reqs[c][i] \in sent
          OBVIOUS
        <5>2. Scraps[reqs[c][i]] \subseteq UNION {Scraps[s] : s \in sent}
          BY <5>1
        <5> QED BY <2>6, <5>1, <5>2
      <4> QED BY <3>1, <4>1 DEF NoHits
    <3>3. answered[c] <= p.n
      BY <3>2 DEF Ordered, OrderAt, AnswersAt, OwnPart
    <3>4. m <= Len(reqs[c]) /\ Len(reqs[c]) \in Nat
      BY <2>1, FlowTypes
    <3> QED BY <2>1, <2>2, <2>3, <3>3, <3>4, OrderTypes
  <2> QED BY <2>5, <2>6
<1> QED BY <1>1, OrderAlways, PTL
=============================================================================
