---------------------------- MODULE SessionProofs ----------------------------
(***************************************************************************)
(* Proofs about the sessions, for every value of the constants: TypeOK and *)
(* StarvedOnlyByMute, from the inductive invariant IInv of SessionProps.   *)
(*                                                                         *)
(* One lemma per action.  Each states what the step does (<1>1), the types *)
(* it starts from (<1>2), and then shows the parts of IInv: the types, and *)
(* for the connection c of the step its local parts.  The other            *)
(* connections are left alone (OnlyAt).                                    *)
(***************************************************************************)
EXTENDS SessionProps, SequenceTheorems, TLAPS

\* The state of connection d that the local parts of IInv speak of.
Local(d) == <<conn[d], remoteUp[d], reqs[d], toProxy[d], rbuf[d], toRemote[d], chan[d],
              ctx[d], newCtx[d], cachedCtx[d], c2r[d], r2c[d], fromRemote[d]>>

\* A step that keeps the local state of every connection but c.
LEMMA OnlyAt ==
  ASSUME IInv, NEW c \in Conns,
         SessionTypeOK', JobsTypeOK', \A d \in Conns : Len(chan'[d]) <= 1,
         \A d \in Conns : d # c => Local(d)' = Local(d),
         KnownAt(c)', CacheableAt(c)', InHandAt(c)', ComingAt(c)'
  PROVE IInv'
<1> SUFFICES ASSUME NEW d \in Conns
             PROVE KnownAt(d)' /\ CacheableAt(d)' /\ InHandAt(d)' /\ ComingAt(d)'
  BY DEF IInv, TypeOK, RequestsKnown, CacheableOnly, InHand, ReplyComing
<1>1. CASE d = c
  BY <1>1
<1>2. CASE d # c
  <2>1. KnownAt(d) /\ CacheableAt(d) /\ InHandAt(d) /\ ComingAt(d)
    BY DEF IInv, RequestsKnown, CacheableOnly, InHand, ReplyComing
  <2>2. /\ conn'[d] = conn[d] /\ remoteUp'[d] = remoteUp[d] /\ reqs'[d] = reqs[d]
        /\ toProxy'[d] = toProxy[d] /\ rbuf'[d] = rbuf[d] /\ toRemote'[d] = toRemote[d]
        /\ chan'[d] = chan[d] /\ ctx'[d] = ctx[d] /\ newCtx'[d] = newCtx[d]
        /\ cachedCtx'[d] = cachedCtx[d] /\ c2r'[d] = c2r[d] /\ r2c'[d] = r2c[d]
        /\ fromRemote'[d] = fromRemote[d]
    BY <1>2 DEF Local
  <2>3. KnownAt(d)'
    BY <2>1, <2>2 DEF KnownAt, Known
  <2>4. CacheableAt(d)'
    BY <2>1, <2>2 DEF CacheableAt, Storable
  <2>5. InHandAt(d)'
    BY <2>1, <2>2 DEF InHandAt
  <2>6. ComingAt(d)'
    BY <2>1, <2>2 DEF ComingAt
  <2> QED BY <2>3, <2>4, <2>5, <2>6
<1> QED BY <1>1, <1>2

\* What a read takes and what it leaves.
LEMMA ReadSplit ==
  ASSUME NEW S, NEW s \in Seq(S), NEW k \in 1 .. Len(s)
  PROVE /\ SubSeq(s, 1, k) \in Seq(S) /\ Len(SubSeq(s, 1, k)) = k
        /\ SubSeq(s, k + 1, Len(s)) \in Seq(S)
        /\ \A i \in DOMAIN SubSeq(s, 1, k) : i \in DOMAIN s /\ SubSeq(s, 1, k)[i] = s[i]
        /\ \A i \in DOMAIN SubSeq(s, k + 1, Len(s)) :
             i + k \in DOMAIN s /\ SubSeq(s, k + 1, Len(s))[i] = s[i + k]
  OBVIOUS

\* A sequence of at most one element.
LEMMA AtMostOne ==
  ASSUME NEW S, NEW s \in Seq(S), Len(s) <= 1, s # <<>>
  PROVE 1 \in DOMAIN s /\ Head(s) = s[1] /\ Head(s) \in S /\ Tail(s) = <<>>
<1> DEFINE m == Len(s)
<1>1. m \in Nat \ {0} /\ DOMAIN s = 1 .. m
  BY EmptySeq, LenProperties
<1>2. Head(s) = s[1] /\ Head(s) \in S /\ Tail(s) \in Seq(S) /\ Len(Tail(s)) = m - 1
  BY HeadTailProperties
<1>3. m <= 1
  OBVIOUS
<1> HIDE DEF m
<1>4. m = 1
  BY <1>1, <1>3
<1>5. Tail(s) = <<>>
  BY <1>2, <1>4, EmptySeq
<1> QED BY <1>1, <1>2, <1>4, <1>5

\* A sequence with one more element.
LEMMA OneMore ==
  ASSUME NEW S, NEW s \in Seq(S), NEW x \in S
  PROVE  /\ Len(s) + 1 \in Nat \ {0} /\ DOMAIN s = 1 .. Len(s)
         /\ DOMAIN Append(s, x) = 1 .. Len(s) + 1 /\ Len(Append(s, x)) = Len(s) + 1
         /\ Append(s, x)[Len(s) + 1] = x
         /\ \A n \in DOMAIN s : /\ Append(s, x)[n] = s[n] /\ n < Len(s) + 1
                                /\ n \in DOMAIN Append(s, x)
<1>1. Len(s) \in Nat /\ DOMAIN s = 1 .. Len(s)
  BY LenProperties
<1>2. /\ Append(s, x) \in Seq(S) /\ Len(Append(s, x)) = Len(s) + 1
      /\ Append(s, x)[Len(s) + 1] = x /\ \A n \in 1 .. Len(s) : Append(s, x)[n] = s[n]
  BY AppendProperties
<1>3. DOMAIN Append(s, x) = 1 .. Len(s) + 1
  BY <1>2, LenProperties
<1> QED BY <1>1, <1>2, <1>3

\* What a write adds.
LEMMA Joined ==
  ASSUME NEW S, NEW s \in Seq(S), NEW t \in Seq(S)
  PROVE /\ s \o t \in Seq(S) /\ Len(s \o t) = Len(s) + Len(t)
        /\ \A i \in DOMAIN (s \o t) :
           \/ \E j \in DOMAIN s : (s \o t)[i] = s[j]
           \/ \E j \in DOMAIN t : (s \o t)[i] = t[j]
        /\ \A j \in DOMAIN s : \E i \in DOMAIN (s \o t) : (s \o t)[i] = s[j]
        /\ \A j \in DOMAIN t : \E i \in DOMAIN (s \o t) : (s \o t)[i] = t[j]
<1>1. /\ s \o t \in Seq(S) /\ Len(s \o t) = Len(s) + Len(t)
      /\ \A i \in 1 .. Len(s) + Len(t) :
           (s \o t)[i] = IF i <= Len(s) THEN s[i] ELSE t[i - Len(s)]
      /\ DOMAIN s = 1 .. Len(s) /\ DOMAIN t = 1 .. Len(t)
      /\ DOMAIN (s \o t) = 1 .. Len(s) + Len(t)
      /\ Len(s) \in Nat /\ Len(t) \in Nat
  BY ConcatProperties, LenProperties
<1>2. \A i \in DOMAIN (s \o t) :
           \/ i \in DOMAIN s /\ (s \o t)[i] = s[i]
           \/ i - Len(s) \in DOMAIN t /\ (s \o t)[i] = t[i - Len(s)]
  BY <1>1
<1>3. \A j \in DOMAIN s : j \in DOMAIN (s \o t) /\ (s \o t)[j] = s[j]
  BY <1>1
<1>4. \A j \in DOMAIN t : j + Len(s) \in DOMAIN (s \o t) /\ (s \o t)[j + Len(s)] = t[j]
  BY <1>1
<1>5. \A i \in DOMAIN (s \o t) :
           \/ \E j \in DOMAIN s : (s \o t)[i] = s[j]
           \/ \E j \in DOMAIN t : (s \o t)[i] = t[j]
  BY <1>2
<1>6. \A j \in DOMAIN s : \E i \in DOMAIN (s \o t) : (s \o t)[i] = s[j]
  BY <1>3
<1>7. \A j \in DOMAIN t : \E i \in DOMAIN (s \o t) : (s \o t)[i] = t[j]
  BY <1>4
<1> QED BY <1>1, <1>5, <1>6, <1>7

\* Units of known requests stay so when they are split by a read.
LEMMA KnownRead ==
  ASSUME NEW c, NEW us \in Seq(Units), NEW k \in 1 .. Len(us), Known(c, us)
  PROVE Known(c, SubSeq(us, 1, k)) /\ Known(c, SubSeq(us, k + 1, Len(us)))
<1>1. Known(c, SubSeq(us, 1, k))
  BY ReadSplit DEF Known
<1>2. Known(c, SubSeq(us, k + 1, Len(us)))
  BY ReadSplit DEF Known
<1> QED BY <1>1, <1>2

\* The request numbers of two sequences of units joined are those of the two.
LEMMA NumbersJoined ==
  ASSUME NEW us \in Seq(Units), NEW vs \in Seq(Units), NEW D,
         \A i \in DOMAIN us : us[i].n \in D, \A i \in DOMAIN vs : vs[i].n \in D
  PROVE \A i \in DOMAIN (us \o vs) : (us \o vs)[i].n \in D
BY Joined

\* ... so known requests stay known, and a request is among the units joined if
\* it is among either's.
LEMMA KnownJoined ==
  ASSUME NEW c, NEW us \in Seq(Units), NEW vs \in Seq(Units), Known(c, us), Known(c, vs)
  PROVE Known(c, us \o vs)
BY NumbersJoined DEF Known

\* See above.
LEMMA HasJoined ==
  ASSUME NEW us \in Seq(Units), NEW vs \in Seq(Units), NEW n, Has(us, n) \/ Has(vs, n)
  PROVE Has(us \o vs, n)
<1>1. CASE Has(us, n)
  <2>1. PICK j \in DOMAIN us : us[j].n = n
    BY <1>1 DEF Has
  <2>2. PICK i \in DOMAIN (us \o vs) : (us \o vs)[i] = us[j]
    BY Joined
  <2> QED BY <2>1, <2>2 DEF Has
<1>2. CASE Has(vs, n)
  <2>1. PICK j \in DOMAIN vs : vs[j].n = n
    BY <1>2 DEF Has
  <2>2. PICK i \in DOMAIN (us \o vs) : (us \o vs)[i] = vs[j]
    BY Joined
  <2> QED BY <2>1, <2>2 DEF Has
<1> QED BY <1>1, <1>2

\* A reply is a non-empty sequence of parts.
LEMMA ReplyType ==
  ASSUME SessionTypeOK, NEW c \in Conns, NEW n \in Nat, n = 0 \/ n \in DOMAIN reqs[c]
  PROVE Reply(c, n) \in Seq(PartSet) /\ Reply(c, n) # <<>>
<1>1. (IF n = 0 THEN 1 ELSE Parts[reqs[c][n]]) \in Nat \ {0}
  <2>1. reqs[c] \in Seq(Stmts)
    BY DEF SessionTypeOK
  <2>2. CASE n = 0
    BY <2>2
  <2>3. CASE n # 0
    <3>1. reqs[c][n] \in Stmts
      BY <2>1, <2>3
    <3> QED BY <3>1, <2>3, SessionAssumption DEF SessionAssumption
  <2> QED BY <2>2, <2>3
<1>2. PICK m \in Nat \ {0} : Reply(c, n) = [i \in 1 .. m |-> [c |-> c, n |-> n, i |-> i]]
  BY <1>1 DEF Reply
<1>3. \A i \in 1 .. m : [c |-> c, n |-> n, i |-> i] \in PartSet
  BY DEF PartSet
<1> QED BY <1>2, <1>3


\* A request still in MySQL's input after it has taken the first k units, unless
\* it was among them.
LEMMA HasLeft ==
  ASSUME NEW us \in Seq(Units), NEW k \in 1 .. Len(us), NEW n, Has(us, n),
         \A j \in 1 .. k : us[j].n # n
  PROVE Has(SubSeq(us, k + 1, Len(us)), n)
<1>1. PICK j \in DOMAIN us : us[j].n = n
  BY DEF Has
<1>2. j \in k + 1 .. Len(us)
  BY <1>1
<1>3. Len(SubSeq(us, k + 1, Len(us))) = Len(us) - k
  OBVIOUS
<1>4. j - k \in DOMAIN SubSeq(us, k + 1, Len(us)) /\ SubSeq(us, k + 1, Len(us))[j - k] = us[j]
  BY <1>2, <1>3
<1> QED BY <1>1, <1>4 DEF Has

\* The units of a packet all belong to one request.
LEMMA NewPacket ==
  ASSUME NEW F \in Seq(FrameTypes), NEW n \in Nat,
         NEW p, p = [i \in DOMAIN F |-> [n |-> n, i |-> i]]
  PROVE /\ p \in Seq(Units) /\ Len(p) = Len(F)
        /\ \A i \in DOMAIN p : p[i].n = n
<1>1. PICK m \in Nat : m = Len(F) /\ DOMAIN F = 1 .. m
  BY LenProperties
<1>2. \A i \in 1 .. m : [n |-> n, i |-> i] \in Units
  BY DEF Units
<1>3. p = [i \in 1 .. m |-> [n |-> n, i |-> i]]
  BY <1>1
<1>4. p \in Seq(Units) /\ Len(p) = m
  BY <1>2, <1>3
<1> QED BY <1>1, <1>3, <1>4

\* ... also of one that has been sent.
LEMMA PacketUnits ==
  ASSUME SessionTypeOK, NEW c \in Conns, NEW n \in DOMAIN reqs[c]
  PROVE /\ Packet(c, n) \in Seq(Units) /\ Len(Packet(c, n)) >= 1
        /\ Len(Packet(c, n)) = Len(Frames[reqs[c][n]])
        /\ \A i \in DOMAIN Packet(c, n) : Packet(c, n)[i].n = n
<1>1. reqs[c] \in Seq(Stmts) /\ n \in Nat
  BY DEF SessionTypeOK
<1>2. reqs[c][n] \in Stmts
  BY <1>1
<1>3. Frames[reqs[c][n]] \in Seq(FrameTypes) /\ Frames[reqs[c][n]] # <<>>
  BY <1>2, SessionAssumption DEF SessionAssumption
<1>4. Len(Frames[reqs[c][n]]) \in Nat \ {0}
  BY <1>3, EmptySeq
<1> QED BY <1>1, <1>3, <1>4, NewPacket DEF Packet

\* A packet MySQL can take: its units are at the head of the input.
LEMMA PacketPrefix ==
  ASSUME SessionTypeOK, NEW c \in Conns, toRemote[c] # <<>>,
         toRemote[c][1].n \in DOMAIN reqs[c], IsPrefix(NextPacket(c), toRemote[c])
  PROVE /\ Len(NextPacket(c)) \in 1 .. Len(toRemote[c])
        /\ \A j \in 1 .. Len(NextPacket(c)) : toRemote[c][j].n = toRemote[c][1].n
<1> DEFINE p == NextPacket(c)
<1>1. /\ p \in Seq(Units) /\ Len(p) >= 1
      /\ \A i \in DOMAIN p : p[i].n = toRemote[c][1].n
  BY PacketUnits DEF NextPacket
<1>2. toRemote[c] \in Seq(Units)
  BY DEF SessionTypeOK
<1>3. Len(p) <= Len(toRemote[c]) /\ SubSeq(p, 1, Len(p)) = SubSeq(toRemote[c], 1, Len(p))
  BY DEF IsPrefix
<1>4. \A j \in 1 .. Len(p) : SubSeq(p, 1, Len(p))[j] = p[j]
                             /\ SubSeq(toRemote[c], 1, Len(p))[j] = toRemote[c][j]
  BY <1>1, <1>2, <1>3
<1> QED BY <1>1, <1>2, <1>3, <1>4

\* The client has closed, or the buffer is full: the session ends.
LEMMA C2REofPreserves ==
  ASSUME IInv, NEW c \in Conns, C2REof(c) PROVE IInv'
<1> USE SessionAssumption, AssistantAssumption
<1>1. /\ conn' = [conn EXCEPT ![c] = "closed"]
      /\ UNCHANGED <<proc, clientUp, remoteUp, reqs, answered, executed, inbox, hit,
                     data, cachedBuf, fromRemote, toClient, toProxy, toRemote, rbuf,
                     chan, ctx, newCtx, cachedCtx, handler, c2r, r2c>>
      /\ UNCHANGED <<tasks, logs, batch, redis>>
  BY DEF C2REof, At, Close, sockets, jobVars, c2rVars, r2cVars, clientVars, remoteVars,
         shared
<1>2. /\ conn \in [Conns -> {"new", "open", "closed"}]
  BY DEF IInv, TypeOK, SessionTypeOK
<1>3. SessionTypeOK'
  <2>1. conn' \in [Conns -> {"new", "open", "closed"}]
    BY <1>1, <1>2
  <2> QED BY <1>1, <2>1 DEF IInv, TypeOK, SessionTypeOK
<1>4. JobsTypeOK'
  BY <1>1 DEF IInv, TypeOK, JobsTypeOK
<1>5. \A d \in Conns : Len(chan'[d]) <= 1
  BY <1>1 DEF IInv, TypeOK
<1>6. \A d \in Conns : d # c => Local(d)' = Local(d)
  BY <1>1, <1>2 DEF Local
<1>7. KnownAt(c)'
  BY <1>1, <1>2 DEF IInv, RequestsKnown, KnownAt, Known
<1>8. CacheableAt(c)'
  BY <1>1, <1>2 DEF IInv, CacheableOnly, CacheableAt, Storable
<1>9. InHandAt(c)'
  BY <1>1, <1>2 DEF IInv, InHand, InHandAt
<1>10. ComingAt(c)'
  BY <1>1, <1>2 DEF IInv, ReplyComing, ComingAt
<1> QED BY <1>3, <1>4, <1>5, <1>6, <1>7, <1>8, <1>9, <1>10, OnlyAt

\* A read too short aborts the process, and leaves all else alone.
LEMMA C2RShortPreserves ==
  ASSUME IInv, NEW c \in Conns, C2RShort(c) PROVE IInv'
<1>1. proc' = "short_read"
      /\ UNCHANGED <<conn, clientUp, remoteUp, reqs, answered, executed, inbox, hit,
                     data, cachedBuf, fromRemote, toClient, toProxy, toRemote, rbuf, chan,
                     ctx, newCtx, cachedCtx, handler, c2r, r2c>>
      /\ UNCHANGED <<tasks, logs, batch, redis>>
  BY DEF C2RShort, sessionVars, jobVars, sockets, c2rVars, r2cVars, clientVars, remoteVars,
         shared
<1>2. SessionTypeOK'
  BY <1>1 DEF IInv, TypeOK, SessionTypeOK
<1>3. JobsTypeOK'
  BY <1>1 DEF IInv, TypeOK, JobsTypeOK
<1>4. \A d \in Conns : Len(chan'[d]) <= 1
  BY <1>1 DEF IInv, TypeOK
<1>5. \A d \in Conns : d # c => Local(d)' = Local(d)
  BY <1>1 DEF Local
<1>6. KnownAt(c)'
  BY <1>1 DEF IInv, RequestsKnown, KnownAt, Known
<1>7. CacheableAt(c)'
  BY <1>1 DEF IInv, CacheableOnly, CacheableAt, Storable
<1>8. InHandAt(c)'
  BY <1>1 DEF IInv, InHand, InHandAt
<1>9. ComingAt(c)'
  BY <1>1 DEF IInv, ReplyComing, ComingAt, Has
<1> QED BY <1>2, <1>3, <1>4, <1>5, <1>6, <1>7, <1>8, <1>9, OnlyAt

\* MySQL has closed: the session ends.
LEMMA R2CEofPreserves ==
  ASSUME IInv, NEW c \in Conns, R2CEof(c) PROVE IInv'
<1> USE SessionAssumption, AssistantAssumption
<1>1. /\ conn' = [conn EXCEPT ![c] = "closed"]
      /\ UNCHANGED <<proc, clientUp, remoteUp, reqs, answered, executed, inbox, hit,
                     data, cachedBuf, fromRemote, toClient, toProxy, toRemote, rbuf,
                     chan, ctx, newCtx, cachedCtx, handler, c2r, r2c>>
      /\ UNCHANGED <<tasks, logs, batch, redis>>
  BY DEF R2CEof, At, Close, sockets, jobVars, c2rVars, r2cVars, clientVars, remoteVars,
         shared
<1>2. /\ conn \in [Conns -> {"new", "open", "closed"}]
  BY DEF IInv, TypeOK, SessionTypeOK
<1>3. SessionTypeOK'
  <2>1. conn' \in [Conns -> {"new", "open", "closed"}]
    BY <1>1, <1>2
  <2> QED BY <1>1, <2>1 DEF IInv, TypeOK, SessionTypeOK
<1>4. JobsTypeOK'
  BY <1>1 DEF IInv, TypeOK, JobsTypeOK
<1>5. \A d \in Conns : Len(chan'[d]) <= 1
  BY <1>1 DEF IInv, TypeOK
<1>6. \A d \in Conns : d # c => Local(d)' = Local(d)
  BY <1>1, <1>2 DEF Local
<1>7. KnownAt(c)'
  BY <1>1, <1>2 DEF IInv, RequestsKnown, KnownAt, Known
<1>8. CacheableAt(c)'
  BY <1>1, <1>2 DEF IInv, CacheableOnly, CacheableAt, Storable
<1>9. InHandAt(c)'
  BY <1>1, <1>2 DEF IInv, InHand, InHandAt
<1>10. ComingAt(c)'
  BY <1>1, <1>2 DEF IInv, ReplyComing, ComingAt
<1> QED BY <1>3, <1>4, <1>5, <1>6, <1>7, <1>8, <1>9, <1>10, OnlyAt

\* handle_request up to its first call of redis.
LEMMA C2RRequestPreserves ==
  ASSUME IInv, NEW c \in Conns, C2RRequest(c) PROVE IInv'
<1> USE SessionAssumption, AssistantAssumption
<1>1. /\ c2r[c] = "lock"
      /\ ctx[c].sql \in Cacheable \/ c2r' = [c2r EXCEPT ![c] = "send"]
      /\ c2r' = [c2r EXCEPT ![c] = "send"] \/ c2r' = [c2r EXCEPT ![c] = "exists"]
      /\ UNCHANGED <<proc, conn, clientUp, remoteUp, reqs, answered, executed, inbox,
                     hit, data, cachedBuf, fromRemote, toClient, toProxy, toRemote,
                     rbuf, chan, ctx, newCtx, cachedCtx, handler, r2c>>
      /\ UNCHANGED <<tasks, logs, batch, redis>>
  BY DEF C2RRequest, At, Put, sockets, jobVars, c2rVars, r2cVars, clientVars,
         remoteVars, shared
<1>2. /\ rbuf \in [Conns -> Seq(Units)]
      /\ ctx \in [Conns -> Ctxs]
      /\ c2r \in [Conns -> {"read", "raw", "lock", "exists", "get", "send", "write",
                           "reply", "log"}]
  BY DEF IInv, TypeOK, SessionTypeOK
<1>3. SessionTypeOK'
  <2>1. c2r' \in [Conns -> {"read", "raw", "lock", "exists", "get", "send", "write",
                           "reply", "log"}]
    BY <1>1, <1>2
  <2> QED BY <1>1, <2>1 DEF IInv, TypeOK, SessionTypeOK
<1>4. JobsTypeOK'
  BY <1>1 DEF IInv, TypeOK, JobsTypeOK
<1>5. \A d \in Conns : Len(chan'[d]) <= 1
  BY <1>1 DEF IInv, TypeOK
<1>6. \A d \in Conns : d # c => Local(d)' = Local(d)
  BY <1>1, <1>2 DEF Local
<1>7. KnownAt(c)'
  BY <1>1, <1>2 DEF IInv, RequestsKnown, KnownAt, Known
<1>8. CacheableAt(c)'
  BY <1>1, <1>2 DEF IInv, CacheableOnly, CacheableAt, Storable
<1>9. InHandAt(c)'
  BY <1>1, <1>2 DEF IInv, InHand, InHandAt
<1>10. ComingAt(c)'
  BY <1>1, <1>2 DEF IInv, ReplyComing, ComingAt
<1> QED BY <1>3, <1>4, <1>5, <1>6, <1>7, <1>8, <1>9, <1>10, OnlyAt

\* EXISTS: on a miss the reply of this request will be stored.
LEMMA C2RExistsPreserves ==
  ASSUME IInv, NEW c \in Conns, C2RExists(c) PROVE IInv'
<1> USE SessionAssumption, AssistantAssumption
<1>1. /\ c2r[c] = "exists"
      /\ ctx' = ctx
         \/ ctx' = [ctx EXCEPT ![c] = [ctx[c] EXCEPT !.should_update_cache = TRUE]]
      /\ c2r' = [c2r EXCEPT ![c] = "send"] \/ c2r' = [c2r EXCEPT ![c] = "get"]
      /\ UNCHANGED <<proc, conn, clientUp, remoteUp, reqs, answered, executed, inbox,
                     hit, data, cachedBuf, fromRemote, toClient, toProxy, toRemote,
                     rbuf, chan, newCtx, cachedCtx, handler, r2c>>
      /\ UNCHANGED <<tasks, logs, batch, redis>>
  BY DEF C2RExists, At, Put, sockets, jobVars, c2rVars, r2cVars, clientVars, remoteVars,
         shared
<1>2. /\ ctx \in [Conns -> Ctxs]
      /\ c2r \in [Conns -> {"read", "raw", "lock", "exists", "get", "send", "write",
                           "reply", "log"}]
  BY DEF IInv, TypeOK, SessionTypeOK
<1>3. ctx[c].sql \in Cacheable
  BY <1>1 DEF IInv, CacheableOnly, CacheableAt
<1>4. ctx[c] \in Ctxs
  BY <1>2
<1>5. [ctx[c] EXCEPT !.should_update_cache = TRUE] \in Ctxs
  BY <1>4 DEF Ctxs
<1>6. /\ [ctx[c] EXCEPT !.should_update_cache = TRUE].n = ctx[c].n
      /\ [ctx[c] EXCEPT !.should_update_cache = TRUE].sql = ctx[c].sql
  BY <1>4 DEF Ctxs
<1>7. SessionTypeOK'
  <2>1. ctx' \in [Conns -> Ctxs]
    BY <1>1, <1>2, <1>3, <1>4, <1>5, <1>6
  <2>2. c2r' \in [Conns -> {"read", "raw", "lock", "exists", "get", "send", "write",
                           "reply", "log"}]
    BY <1>1, <1>2, <1>3, <1>4, <1>5, <1>6
  <2> QED BY <1>1, <2>1, <2>2 DEF IInv, TypeOK, SessionTypeOK
<1>8. JobsTypeOK'
  BY <1>1 DEF IInv, TypeOK, JobsTypeOK
<1>9. \A d \in Conns : Len(chan'[d]) <= 1
  BY <1>1 DEF IInv, TypeOK
<1>10. \A d \in Conns : d # c => Local(d)' = Local(d)
  BY <1>1, <1>2 DEF Local
<1>11. KnownAt(c)'
  BY <1>1, <1>2 DEF IInv, RequestsKnown, KnownAt, Known
<1>12. CacheableAt(c)'
  BY <1>1, <1>2, <1>3, <1>4, <1>5, <1>6 DEF IInv, CacheableOnly, CacheableAt, Storable
<1>13. InHandAt(c)'
  BY <1>1, <1>2, <1>3, <1>4, <1>5, <1>6 DEF IInv, InHand, InHandAt
<1>14. ComingAt(c)'
  BY <1>1 DEF IInv, ReplyComing, ComingAt
<1> QED BY <1>7, <1>8, <1>9, <1>10, <1>11, <1>12, <1>13, <1>14, OnlyAt

\* GET: a usable value answers the client.
LEMMA C2RGetPreserves ==
  ASSUME IInv, NEW c \in Conns, C2RGet(c) PROVE IInv'
<1> USE SessionAssumption, AssistantAssumption
<1>1. /\ c2r[c] = "get"
      /\ hit' = hit \/ hit' = [hit EXCEPT ![c] = Cached(c)]
      /\ ctx' = ctx \/ ctx' = [ctx EXCEPT ![c] = [ctx[c] EXCEPT !.from_cache = TRUE]]
      /\ c2r' = [c2r EXCEPT ![c] = "send"] \/ c2r' = [c2r EXCEPT ![c] = "reply"]
      /\ UNCHANGED <<proc, conn, clientUp, remoteUp, reqs, answered, executed, inbox,
                     data, cachedBuf, fromRemote, toClient, toProxy, toRemote, rbuf,
                     chan, newCtx, cachedCtx, handler, r2c>>
      /\ UNCHANGED <<tasks, logs, batch, redis>>
  BY DEF C2RGet, At, Put, sockets, jobVars, c2rVars, r2cVars, clientVars, remoteVars,
         shared
<1>2. /\ hit \in [Conns -> Seq(PartSet)]
      /\ ctx \in [Conns -> Ctxs]
      /\ c2r \in [Conns -> {"read", "raw", "lock", "exists", "get", "send", "write",
                           "reply", "log"}]
  BY DEF IInv, TypeOK, SessionTypeOK
<1>3. ctx[c].sql \in Cacheable
  BY <1>1 DEF IInv, CacheableOnly, CacheableAt
<1>4. Cached(c) \in Seq(PartSet)
  BY <1>3 DEF IInv, TypeOK, JobsTypeOK, Cached, SessionAssumption
<1>5. ctx[c] \in Ctxs
  BY <1>2
<1>6. [ctx[c] EXCEPT !.from_cache = TRUE] \in Ctxs
  BY <1>5 DEF Ctxs
<1>7. /\ [ctx[c] EXCEPT !.from_cache = TRUE].n = ctx[c].n
      /\ [ctx[c] EXCEPT !.from_cache = TRUE].sql = ctx[c].sql
      /\ [ctx[c] EXCEPT !.from_cache = TRUE].should_update_cache = ctx[c].should_update_cache
  BY <1>5 DEF Ctxs
<1>8. SessionTypeOK'
  <2>1. hit' \in [Conns -> Seq(PartSet)]
    BY <1>1, <1>2, <1>3, <1>4, <1>5, <1>6, <1>7
  <2>2. ctx' \in [Conns -> Ctxs]
    BY <1>1, <1>2, <1>3, <1>4, <1>5, <1>6, <1>7
  <2>3. c2r' \in [Conns -> {"read", "raw", "lock", "exists", "get", "send", "write",
                           "reply", "log"}]
    BY <1>1, <1>2, <1>3, <1>4, <1>5, <1>6, <1>7
  <2> QED BY <1>1, <2>1, <2>2, <2>3 DEF IInv, TypeOK, SessionTypeOK
<1>9. JobsTypeOK'
  BY <1>1 DEF IInv, TypeOK, JobsTypeOK
<1>10. \A d \in Conns : Len(chan'[d]) <= 1
  BY <1>1 DEF IInv, TypeOK
<1>11. \A d \in Conns : d # c => Local(d)' = Local(d)
  BY <1>1, <1>2 DEF Local
<1>12. KnownAt(c)'
  BY <1>1, <1>2 DEF IInv, RequestsKnown, KnownAt, Known
<1>13. CacheableAt(c)'
  BY <1>1, <1>2, <1>3, <1>4, <1>5, <1>6, <1>7
  DEF IInv, CacheableOnly, CacheableAt, Storable
<1>14. InHandAt(c)'
  BY <1>1, <1>2, <1>3, <1>4, <1>5, <1>6, <1>7 DEF IInv, InHand, InHandAt
<1>15. ComingAt(c)'
  BY <1>1 DEF IInv, ReplyComing, ComingAt
<1> QED BY <1>8, <1>9, <1>10, <1>11, <1>12, <1>13, <1>14, <1>15, OnlyAt

\* The cached value goes to the client.
LEMMA C2RReplyPreserves ==
  ASSUME IInv, NEW c \in Conns, C2RReply(c) PROVE IInv'
<1> USE SessionAssumption, AssistantAssumption
<1>1. /\ c2r[c] = "reply"
      /\ c2r' = [c2r EXCEPT ![c] = "read"] \/ rbuf' = rbuf
      /\ hit' = [hit EXCEPT ![c] = <<>>]
      /\ toClient' = toClient
         \/ toClient' = [toClient EXCEPT ![c] = toClient[c] \o hit[c]]
      /\ rbuf' = rbuf \/ rbuf' = [rbuf EXCEPT ![c] = <<>>]
      /\ handler' = handler \/ handler' = [handler EXCEPT ![c] = "r2c"]
         \/ handler' = [handler EXCEPT ![c] = "free"]
      /\ c2r' = [c2r EXCEPT ![c] = "log"] \/ c2r' = [c2r EXCEPT ![c] = "read"]
      /\ UNCHANGED <<proc, conn, clientUp, remoteUp, reqs, answered, executed, inbox,
                     data, cachedBuf, fromRemote, toProxy, toRemote, chan, ctx, newCtx,
                     cachedCtx, r2c>>
      /\ UNCHANGED <<tasks, logs, batch, redis>>
  BY DEF C2RReply, At, Put, ToClient, NextRequest, Unlock, sockets, jobVars, c2rVars,
         r2cVars, clientVars, remoteVars, shared
<1>2. /\ hit \in [Conns -> Seq(PartSet)]
      /\ toClient \in [Conns -> Seq(PartSet)]
      /\ rbuf \in [Conns -> Seq(Units)]
      /\ handler \in [Conns -> {"free", "c2r", "r2c"}]
      /\ c2r \in [Conns -> {"read", "raw", "lock", "exists", "get", "send", "write",
                           "reply", "log"}]
  BY DEF IInv, TypeOK, SessionTypeOK
<1>3. /\ toClient[c] \o hit[c] \in Seq(PartSet)
      /\ <<>> \in Seq(PartSet) /\ <<>> \in Seq(Units)
  BY <1>2
<1>4. SessionTypeOK'
  <2>1. hit' \in [Conns -> Seq(PartSet)]
    <3>1. hit' = [hit EXCEPT ![c] = <<>>]
      BY <1>1
    <3> QED BY <3>1, <1>2, <1>3
  <2>2. toClient' \in [Conns -> Seq(PartSet)]
    <3>1. \/ toClient' = toClient
          \/ toClient' = [toClient EXCEPT ![c] = toClient[c] \o hit[c]]
      BY <1>1
    <3> QED BY <3>1, <1>2, <1>3
  <2>3. rbuf' \in [Conns -> Seq(Units)]
    <3>1. rbuf' = rbuf \/ rbuf' = [rbuf EXCEPT ![c] = <<>>]
      BY <1>1
    <3> QED BY <3>1, <1>2, <1>3
  <2>4. handler' \in [Conns -> {"free", "c2r", "r2c"}]
    BY <1>1, <1>2, <1>3
  <2>5. c2r' \in [Conns -> {"read", "raw", "lock", "exists", "get", "send", "write",
                           "reply", "log"}]
    BY <1>1, <1>2, <1>3
  <2> QED BY <1>1, <2>1, <2>2, <2>3, <2>4, <2>5 DEF IInv, TypeOK, SessionTypeOK
<1>5. JobsTypeOK'
  BY <1>1 DEF IInv, TypeOK, JobsTypeOK
<1>6. \A d \in Conns : Len(chan'[d]) <= 1
  BY <1>1 DEF IInv, TypeOK
<1>7. \A d \in Conns : d # c => Local(d)' = Local(d)
  BY <1>1, <1>2 DEF Local
<1>8. KnownAt(c)'
  BY <1>1, <1>2 DEF IInv, RequestsKnown, KnownAt, Known
<1>9. CacheableAt(c)'
  BY <1>1, <1>2 DEF IInv, CacheableOnly, CacheableAt, Storable
<1>10. InHandAt(c)'
  BY <1>1, <1>2 DEF IInv, InHand, InHandAt
<1>11. ComingAt(c)'
  BY <1>1 DEF IInv, ReplyComing, ComingAt
<1> QED BY <1>4, <1>5, <1>6, <1>7, <1>8, <1>9, <1>10, <1>11, OnlyAt

\* The hit is logged and the buffer cleared.
LEMMA C2RLogPreserves ==
  ASSUME IInv, NEW c \in Conns, C2RLog(c) PROVE IInv'
<1> USE SessionAssumption, AssistantAssumption
<1>1. /\ c2r[c] = "log"
      /\ UNCHANGED <<tasks, batch, redis>>
      /\ logs' = Append(logs, Log(c, ctx[c]))
      /\ rbuf' = [rbuf EXCEPT ![c] = <<>>]
      /\ handler' = [handler EXCEPT ![c] = "r2c"]
         \/ handler' = [handler EXCEPT ![c] = "free"]
      /\ c2r' = [c2r EXCEPT ![c] = "read"]
      /\ UNCHANGED <<proc, conn, clientUp, remoteUp, reqs, answered, executed, inbox,
                     hit, data, cachedBuf, fromRemote, toClient, toProxy, toRemote,
                     chan, ctx, newCtx, cachedCtx, r2c>>
  BY DEF C2RLog, At, Put, SendLog, NextRequest, Unlock, sockets, jobVars, c2rVars,
         r2cVars, clientVars, remoteVars, shared
<1>2. /\ rbuf \in [Conns -> Seq(Units)]
      /\ ctx \in [Conns -> Ctxs]
      /\ handler \in [Conns -> {"free", "c2r", "r2c"}]
      /\ c2r \in [Conns -> {"read", "raw", "lock", "exists", "get", "send", "write",
                           "reply", "log"}]
  BY DEF IInv, TypeOK, SessionTypeOK
<1>3. Log(c, ctx[c]) \in Logs
  BY <1>2 DEF Log, Ctxs, Logs
<1>4. <<>> \in Seq(Units)
  OBVIOUS
<1>5. SessionTypeOK'
  <2>1. rbuf' \in [Conns -> Seq(Units)]
    BY <1>1, <1>2, <1>3, <1>4
  <2>2. handler' \in [Conns -> {"free", "c2r", "r2c"}]
    BY <1>1, <1>2, <1>3, <1>4
  <2>3. c2r' \in [Conns -> {"read", "raw", "lock", "exists", "get", "send", "write",
                           "reply", "log"}]
    BY <1>1, <1>2, <1>3, <1>4
  <2> QED BY <1>1, <2>1, <2>2, <2>3 DEF IInv, TypeOK, SessionTypeOK
<1>6. JobsTypeOK'
  BY <1>1, <1>3 DEF IInv, TypeOK, JobsTypeOK
<1>7. \A d \in Conns : Len(chan'[d]) <= 1
  BY <1>1 DEF IInv, TypeOK
<1>8. \A d \in Conns : d # c => Local(d)' = Local(d)
  BY <1>1, <1>2 DEF Local
<1>9. KnownAt(c)'
  BY <1>1, <1>2 DEF IInv, RequestsKnown, KnownAt, Known
<1>10. CacheableAt(c)'
  BY <1>1, <1>2 DEF IInv, CacheableOnly, CacheableAt, Storable
<1>11. InHandAt(c)'
  BY <1>1, <1>2 DEF IInv, InHand, InHandAt
<1>12. ComingAt(c)'
  BY <1>1 DEF IInv, ReplyComing, ComingAt
<1> QED BY <1>5, <1>6, <1>7, <1>8, <1>9, <1>10, <1>11, <1>12, OnlyAt

\* The context enters the channel: its request is in rbuf, about to be written.
LEMMA C2RSendPreserves ==
  ASSUME IInv, NEW c \in Conns, C2RSend(c) PROVE IInv'
<1> USE SessionAssumption, AssistantAssumption
<1>1. /\ c2r[c] = "send"
      /\ Len(chan[c]) < 1
      /\ chan' = [chan EXCEPT ![c] = Append(chan[c], ctx[c])]
      /\ c2r' = [c2r EXCEPT ![c] = "write"]
      /\ UNCHANGED <<proc, conn, clientUp, remoteUp, reqs, answered, executed, inbox,
                     hit, data, cachedBuf, fromRemote, toClient, toProxy, toRemote,
                     rbuf, ctx, newCtx, cachedCtx, handler, r2c>>
      /\ UNCHANGED <<tasks, logs, batch, redis>>
  BY DEF C2RSend, At, Put, ChanCap, sockets, jobVars, c2rVars, r2cVars, clientVars,
         remoteVars, shared
<1>2. /\ rbuf \in [Conns -> Seq(Units)]
      /\ chan \in [Conns -> Seq(Ctxs)]
      /\ ctx \in [Conns -> Ctxs]
      /\ c2r \in [Conns -> {"read", "raw", "lock", "exists", "get", "send", "write",
                           "reply", "log"}]
  BY DEF IInv, TypeOK, SessionTypeOK
<1>3. ctx[c] \in Ctxs /\ rbuf[c] \in Seq(Units) /\ chan[c] \in Seq(Ctxs)
  BY <1>2
<1>4. Append(chan[c], ctx[c]) = <<ctx[c]>> /\ <<ctx[c]>> \in Seq(Ctxs)
  <2>1. chan[c] = <<>>
    BY <1>1, <1>3, EmptySeq
  <2>2. Append(<<>>, ctx[c]) = <<ctx[c]>>
    BY <1>3
  <2> QED BY <1>3, <2>1, <2>2
<1>5. 1 \in DOMAIN rbuf[c] /\ ctx[c].n = rbuf[c][1].n
  BY <1>1, <1>3 DEF IInv, InHand, InHandAt
<1>6. chan'[c] = <<ctx[c]>> /\ DOMAIN chan'[c] = {1} /\ c2r'[c] = "write"
  BY <1>1, <1>2, <1>4
<1>7. SessionTypeOK'
  <2>1. chan' \in [Conns -> Seq(Ctxs)]
    BY <1>1, <1>2, <1>4
  <2>2. c2r' \in [Conns -> {"read", "raw", "lock", "exists", "get", "send", "write",
                           "reply", "log"}]
    BY <1>1, <1>2, <1>4
  <2> QED BY <1>1, <2>1, <2>2 DEF IInv, TypeOK, SessionTypeOK
<1>8. JobsTypeOK'
  BY <1>1 DEF IInv, TypeOK, JobsTypeOK
<1>9. \A d \in Conns : Len(chan'[d]) <= 1
  BY <1>1, <1>2, <1>3, <1>4, <1>5, <1>6 DEF IInv, TypeOK
<1>10. \A d \in Conns : d # c => Local(d)' = Local(d)
  BY <1>1, <1>2 DEF Local
<1>11. KnownAt(c)'
  BY <1>1, <1>5, <1>6 DEF IInv, RequestsKnown, KnownAt, Known
<1>12. CacheableAt(c)'
  BY <1>1, <1>2, <1>6 DEF IInv, CacheableOnly, CacheableAt, Storable
<1>13. InHandAt(c)'
  BY <1>1, <1>2 DEF IInv, InHand, InHandAt
<1>14. ComingAt(c)'
  BY <1>1, <1>5, <1>6 DEF ComingAt, Has
<1> QED BY <1>7, <1>8, <1>9, <1>10, <1>11, <1>12, <1>13, <1>14, OnlyAt

\* The request goes from rbuf to MySQL's input, and with it the reply to come.
LEMMA C2RWritePreserves ==
  ASSUME IInv, NEW c \in Conns, C2RWrite(c) PROVE IInv'
<1> USE SessionAssumption, AssistantAssumption
<1>1. /\ c2r[c] = "write"
      /\ \/ /\ toRemote' = [toRemote EXCEPT ![c] = toRemote[c] \o rbuf[c]]
            /\ c2r' = [c2r EXCEPT ![c] = "read"] /\ conn' = conn
         \/ conn' = [conn EXCEPT ![c] = "closed"] /\ UNCHANGED <<c2r, rbuf, toRemote>>
      /\ conn' = conn \/ conn' = [conn EXCEPT ![c] = "closed"]
      /\ toRemote' = toRemote
         \/ toRemote' = [toRemote EXCEPT ![c] = toRemote[c] \o rbuf[c]]
      /\ rbuf' = rbuf \/ rbuf' = [rbuf EXCEPT ![c] = <<>>]
      /\ handler' = handler \/ handler' = [handler EXCEPT ![c] = "r2c"]
         \/ handler' = [handler EXCEPT ![c] = "free"]
      /\ c2r' = c2r \/ c2r' = [c2r EXCEPT ![c] = "read"]
      /\ UNCHANGED <<proc, clientUp, remoteUp, reqs, answered, executed, inbox, hit,
                     data, cachedBuf, fromRemote, toClient, toProxy, chan, ctx, newCtx,
                     cachedCtx, r2c>>
      /\ UNCHANGED <<tasks, logs, batch, redis>>
  BY DEF C2RWrite, At, Put, Sent, NextRequest, Unlock, Close, sockets, jobVars, c2rVars,
         r2cVars, clientVars, remoteVars, shared
<1>2. /\ conn \in [Conns -> {"new", "open", "closed"}]
      /\ toRemote \in [Conns -> Seq(Units)]
      /\ rbuf \in [Conns -> Seq(Units)]
      /\ handler \in [Conns -> {"free", "c2r", "r2c"}]
      /\ c2r \in [Conns -> {"read", "raw", "lock", "exists", "get", "send", "write",
                           "reply", "log"}]
  BY DEF IInv, TypeOK, SessionTypeOK
<1>3. toRemote[c] \in Seq(Units) /\ rbuf[c] \in Seq(Units)
  BY <1>2
<1>4. toRemote[c] \o rbuf[c] \in Seq(Units) /\ <<>> \in Seq(Units)
  BY <1>3, Joined
<1>5. \/ conn'[c] = "closed" /\ toRemote'[c] = toRemote[c]
      \/ toRemote'[c] = toRemote[c] \o rbuf[c]
  BY <1>1, <1>2
<1>6. Known(c, toProxy[c]) /\ Known(c, rbuf[c]) /\ Known(c, toRemote[c]) /\ Known(c, chan[c])
  BY DEF IInv, RequestsKnown, KnownAt
<1>7. Known(c, toRemote[c] \o rbuf[c])
  BY <1>3, <1>6, KnownJoined
<1>8. /\ reqs'[c] = reqs[c] /\ toProxy'[c] = toProxy[c] /\ chan'[c] = chan[c]
      /\ rbuf'[c] = rbuf[c] \/ rbuf'[c] = <<>>
  BY <1>1, <1>2
<1>9. SessionTypeOK'
  <2>1. conn' \in [Conns -> {"new", "open", "closed"}]
    BY <1>1, <1>2, <1>4
  <2>2. toRemote' \in [Conns -> Seq(Units)]
    <3>1. \/ toRemote' = toRemote
          \/ toRemote' = [toRemote EXCEPT ![c] = toRemote[c] \o rbuf[c]]
      BY <1>1
    <3> QED BY <3>1, <1>2, <1>4
  <2>3. rbuf' \in [Conns -> Seq(Units)]
    <3>1. rbuf' = rbuf \/ rbuf' = [rbuf EXCEPT ![c] = <<>>]
      BY <1>1
    <3> QED BY <3>1, <1>2, <1>4
  <2>4. handler' \in [Conns -> {"free", "c2r", "r2c"}]
    BY <1>1, <1>2, <1>4
  <2>5. c2r' \in [Conns -> {"read", "raw", "lock", "exists", "get", "send", "write",
                           "reply", "log"}]
    <3>1. c2r' = c2r \/ c2r' = [c2r EXCEPT ![c] = "read"]
      BY <1>1
    <3> QED BY <3>1, <1>2
  <2> QED BY <1>1, <2>1, <2>2, <2>3, <2>4, <2>5 DEF IInv, TypeOK, SessionTypeOK
<1>10. JobsTypeOK'
  BY <1>1 DEF IInv, TypeOK, JobsTypeOK
<1>11. \A d \in Conns : Len(chan'[d]) <= 1
  BY <1>1 DEF IInv, TypeOK
<1>12. \A d \in Conns : d # c => Local(d)' = Local(d)
  BY <1>1, <1>2 DEF Local
<1>13. KnownAt(c)'
  <2>1. Known(c, toProxy[c])' /\ Known(c, chan[c])'
    BY <1>6, <1>8 DEF Known
  <2>2. Known(c, rbuf[c])'
    BY <1>6, <1>8 DEF Known
  <2>3. Known(c, toRemote[c])'
    BY <1>5, <1>6, <1>7, <1>8 DEF Known
  <2> QED BY <2>1, <2>2, <2>3 DEF KnownAt
<1>14. CacheableAt(c)'
  BY <1>1, <1>2 DEF IInv, CacheableOnly, CacheableAt, Storable
<1>15. InHandAt(c)'
  BY <1>1, <1>2 DEF IInv, InHand, InHandAt
<1>16. ComingAt(c)'
  <2>1. CASE conn'[c] = "closed"
    BY <2>1 DEF ComingAt
  <2>2. CASE conn'[c] # "closed"
    <3>1. /\ chan'[c] = chan[c] /\ reqs'[c] = reqs[c] /\ fromRemote'[c] = fromRemote[c]
          /\ remoteUp'[c] = remoteUp[c] /\ conn'[c] = conn[c]
          /\ toRemote'[c] = toRemote[c] \o rbuf[c]
      BY <2>2, <1>1, <1>2, <1>5
    <3>2. \A n : Has(rbuf[c], n) \/ Has(toRemote[c], n) => Has(toRemote'[c], n)
      BY <1>3, <3>1, HasJoined
    <3> QED BY <3>1, <3>2 DEF IInv, ReplyComing, ComingAt
  <2> QED BY <2>1, <2>2
<1> QED BY <1>9, <1>10, <1>11, <1>12, <1>13, <1>14, <1>15, <1>16, OnlyAt

\* A rejected packet goes to MySQL.  No context is sent for it.
LEMMA C2RRawPreserves ==
  ASSUME IInv, NEW c \in Conns, C2RRaw(c) PROVE IInv'
<1> USE SessionAssumption, AssistantAssumption
<1>1. /\ c2r[c] = "raw"
      /\ \/ toRemote' = [toRemote EXCEPT ![c] = toRemote[c] \o rbuf[c]] /\ conn' = conn
         \/ conn' = [conn EXCEPT ![c] = "closed"] /\ UNCHANGED <<c2r, toRemote>>
      /\ conn' = conn \/ conn' = [conn EXCEPT ![c] = "closed"]
      /\ toRemote' = toRemote
         \/ toRemote' = [toRemote EXCEPT ![c] = toRemote[c] \o rbuf[c]]
      /\ c2r' = c2r \/ c2r' = [c2r EXCEPT ![c] = "read"]
      /\ UNCHANGED <<proc, clientUp, remoteUp, reqs, answered, executed, inbox, hit,
                     data, cachedBuf, fromRemote, toClient, toProxy, rbuf, chan, ctx,
                     newCtx, cachedCtx, handler, r2c>>
      /\ UNCHANGED <<tasks, logs, batch, redis>>
  BY DEF C2RRaw, At, Put, Sent, Close, sockets, jobVars, c2rVars, r2cVars, clientVars,
         remoteVars, shared
<1>2. /\ conn \in [Conns -> {"new", "open", "closed"}]
      /\ toRemote \in [Conns -> Seq(Units)]
      /\ rbuf \in [Conns -> Seq(Units)]
      /\ c2r \in [Conns -> {"read", "raw", "lock", "exists", "get", "send", "write",
                           "reply", "log"}]
  BY DEF IInv, TypeOK, SessionTypeOK
<1>3. toRemote[c] \in Seq(Units) /\ rbuf[c] \in Seq(Units)
  BY <1>2
<1>4. toRemote[c] \o rbuf[c] \in Seq(Units) /\ <<>> \in Seq(Units)
  BY <1>3, Joined
<1>5. \/ conn'[c] = "closed" /\ toRemote'[c] = toRemote[c]
      \/ toRemote'[c] = toRemote[c] \o rbuf[c]
  BY <1>1, <1>2
<1>6. Known(c, toProxy[c]) /\ Known(c, rbuf[c]) /\ Known(c, toRemote[c]) /\ Known(c, chan[c])
  BY DEF IInv, RequestsKnown, KnownAt
<1>7. Known(c, toRemote[c] \o rbuf[c])
  BY <1>3, <1>6, KnownJoined
<1>8. /\ reqs'[c] = reqs[c] /\ toProxy'[c] = toProxy[c] /\ chan'[c] = chan[c]
      /\ rbuf'[c] = rbuf[c] \/ rbuf'[c] = <<>>
  BY <1>1, <1>2
<1>9. SessionTypeOK'
  <2>1. conn' \in [Conns -> {"new", "open", "closed"}]
    BY <1>1, <1>2, <1>4
  <2>2. toRemote' \in [Conns -> Seq(Units)]
    BY <1>1, <1>2, <1>4
  <2>3. c2r' \in [Conns -> {"read", "raw", "lock", "exists", "get", "send", "write",
                           "reply", "log"}]
    BY <1>1, <1>2, <1>4
  <2> QED BY <1>1, <2>1, <2>2, <2>3 DEF IInv, TypeOK, SessionTypeOK
<1>10. JobsTypeOK'
  BY <1>1 DEF IInv, TypeOK, JobsTypeOK
<1>11. \A d \in Conns : Len(chan'[d]) <= 1
  BY <1>1 DEF IInv, TypeOK
<1>12. \A d \in Conns : d # c => Local(d)' = Local(d)
  BY <1>1, <1>2 DEF Local
<1>13. KnownAt(c)'
  <2>1. Known(c, toProxy[c])' /\ Known(c, chan[c])'
    BY <1>6, <1>8 DEF Known
  <2>2. Known(c, rbuf[c])'
    BY <1>6, <1>8 DEF Known
  <2>3. Known(c, toRemote[c])'
    BY <1>5, <1>6, <1>7, <1>8 DEF Known
  <2> QED BY <2>1, <2>2, <2>3 DEF KnownAt
<1>14. CacheableAt(c)'
  BY <1>1, <1>2 DEF IInv, CacheableOnly, CacheableAt, Storable
<1>15. InHandAt(c)'
  BY <1>1, <1>2 DEF IInv, InHand, InHandAt
<1>16. ComingAt(c)'
  <2>1. CASE conn'[c] = "closed"
    BY <2>1 DEF ComingAt
  <2>2. CASE conn'[c] # "closed"
    <3>1. /\ chan'[c] = chan[c] /\ reqs'[c] = reqs[c] /\ fromRemote'[c] = fromRemote[c]
          /\ remoteUp'[c] = remoteUp[c] /\ conn'[c] = conn[c]
          /\ toRemote'[c] = toRemote[c] \o rbuf[c]
      BY <2>2, <1>1, <1>2, <1>5
    <3>2. \A n : Has(rbuf[c], n) \/ Has(toRemote[c], n) => Has(toRemote'[c], n)
      BY <1>3, <3>1, HasJoined
    <3> QED BY <3>1, <3>2 DEF IInv, ReplyComing, ComingAt
  <2> QED BY <2>1, <2>2
<1> QED BY <1>9, <1>10, <1>11, <1>12, <1>13, <1>14, <1>15, <1>16, OnlyAt

\* A read of k units: ctx is made of the request the buffer starts with.
LEMMA C2RReadPreserves ==
  ASSUME IInv, NEW c \in Conns, C2RRead(c) PROVE IInv'
<1> USE SessionAssumption, AssistantAssumption
<1>1. PICK k \in 1 .. Len(toProxy[c]) :
        /\ c2r[c] = "read"
        /\ \/ c2r' = [c2r EXCEPT ![c] = "raw"] /\ ctx' = ctx
           \/ \E text \in TextsOf(c, rbuf[c] \o SubSeq(toProxy[c], 1, k)) :
                ctx' = [ctx EXCEPT
                          ![c] = NewCtx((rbuf[c] \o SubSeq(toProxy[c], 1, k))[1], text)]
        /\ toProxy' = [toProxy EXCEPT ![c] = SubSeq(toProxy[c], k + 1, Len(toProxy[c]))]
        /\ rbuf' = [rbuf EXCEPT ![c] = rbuf[c] \o SubSeq(toProxy[c], 1, k)]
        /\ handler' = handler \/ handler' = [handler EXCEPT ![c] = "c2r"]
        /\ c2r' = [c2r EXCEPT ![c] = "raw"] \/ c2r' = [c2r EXCEPT ![c] = "lock"]
        /\ UNCHANGED <<proc, conn, clientUp, remoteUp, reqs, answered, executed, inbox,
                       hit, data, cachedBuf, fromRemote, toClient, toRemote, chan,
                       newCtx, cachedCtx, r2c>>
        /\ UNCHANGED <<tasks, logs, batch, redis>>
  BY DEF C2RRead, At, Put, Lock, sockets, jobVars, c2rVars, r2cVars, clientVars,
         remoteVars, shared
<1>2. /\ reqs \in [Conns -> Seq(Stmts)]
      /\ toProxy \in [Conns -> Seq(Units)]
      /\ rbuf \in [Conns -> Seq(Units)]
      /\ ctx \in [Conns -> Ctxs]
      /\ handler \in [Conns -> {"free", "c2r", "r2c"}]
      /\ c2r \in [Conns -> {"read", "raw", "lock", "exists", "get", "send", "write",
                           "reply", "log"}]
  BY DEF IInv, TypeOK, SessionTypeOK
<1>3. rbuf[c] \in Seq(Units) /\ toProxy[c] \in Seq(Units) /\ reqs[c] \in Seq(Stmts)
  BY <1>2
<1>4. Known(c, rbuf[c]) /\ Known(c, toProxy[c])
  BY DEF IInv, RequestsKnown, KnownAt
<1>5. /\ SubSeq(toProxy[c], 1, k) \in Seq(Units) /\ Len(SubSeq(toProxy[c], 1, k)) = k
      /\ SubSeq(toProxy[c], k + 1, Len(toProxy[c])) \in Seq(Units)
  BY <1>3, ReadSplit
<1>6. Known(c, SubSeq(toProxy[c], 1, k)) /\ Known(c, SubSeq(toProxy[c], k + 1, Len(toProxy[c])))
  BY <1>3, <1>4, KnownRead
<1>7. PICK us \in Seq(Units) : us = rbuf[c] \o SubSeq(toProxy[c], 1, k)
  BY <1>3, <1>5, Joined
<1>8. Known(c, us) /\ Len(us) = Len(rbuf[c]) + k
  <2>1. Known(c, us)
    BY <1>3, <1>4, <1>5, <1>6, <1>7, KnownJoined
  <2>2. Len(us) = Len(rbuf[c]) + k
    BY <1>3, <1>5, <1>7, ConcatProperties
  <2> QED BY <2>1, <2>2
<1>9. us # <<>> /\ us[1] \in Units /\ us[1].n \in DOMAIN reqs[c]
  <2>1. Len(us) \in Nat /\ Len(us) >= 1
    BY <1>3, <1>7, <1>8
  <2>2. 1 \in DOMAIN us
    BY <1>7, <2>1
  <2>3. us # <<>>
    BY <2>1
  <2>4. us[1] \in Units
    <3>1. us \in Seq(Units)
      BY <1>7
    <3> QED BY <2>1, <3>1, ElementOfSeq
  <2> QED BY <1>8, <2>2, <2>3, <2>4 DEF Known
<1>10. reqs[c][us[1].n] \in Stmts
  <2> DEFINE sent == reqs[c]
             n == us[1].n
  <2>1. sent \in Seq(Stmts) /\ n \in DOMAIN sent
    BY <1>3, <1>9
  <2> HIDE DEF sent, n
  <2>2. sent[n] \in Stmts
    BY <2>1
  <2> QED BY <2>2 DEF sent, n
<1>11. TextsOf(c, us) \subseteq Texts \cup {NoStmt}
  BY <1>10 DEF TextsOf, Texts
<1>12. ASSUME NEW text \in TextsOf(c, us), NEW x, x = NewCtx(us[1], text)
       PROVE  x \in Ctxs /\ x.n = us[1].n /\ Storable(x)
  BY <1>9, <1>11, <1>12 DEF NewCtx, Ctxs, Units, Storable
<1>13. /\ rbuf'[c] = us /\ rbuf'[c] # <<>>
       /\ ctx' = [ctx EXCEPT ![c] = ctx'[c]] /\ ctx'[c] \in Ctxs
       /\ c2r'[c] = "raw" \/ ctx'[c].n = us[1].n
       /\ Storable(ctx'[c])
       /\ c2r'[c] \in {"raw", "lock"}
  <2>1. rbuf'[c] = us /\ rbuf'[c] # <<>> /\ c2r'[c] \in {"raw", "lock"}
    BY <1>1, <1>2, <1>7, <1>9
  <2>2. CASE c2r' = [c2r EXCEPT ![c] = "raw"] /\ ctx' = ctx
    <3>1. ctx[c] \in Ctxs /\ Storable(ctx[c])
      BY <1>2 DEF IInv, CacheableOnly, CacheableAt
    <3> QED BY <1>2, <2>1, <2>2, <3>1
  <2>3. CASE \E text \in TextsOf(c, us) : ctx' = [ctx EXCEPT ![c] = NewCtx(us[1], text)]
    <3>1. PICK text \in TextsOf(c, us) : ctx' = [ctx EXCEPT ![c] = NewCtx(us[1], text)]
      BY <2>3
    <3> QED BY <1>2, <1>12, <2>1, <3>1
  <2> QED BY <1>1, <1>7, <2>2, <2>3
<1>14. /\ reqs'[c] = reqs[c] /\ toRemote'[c] = toRemote[c] /\ chan'[c] = chan[c]
       /\ toProxy'[c] = SubSeq(toProxy[c], k + 1, Len(toProxy[c]))
  BY <1>1, <1>2
<1>15. SessionTypeOK'
  <2>1. toProxy' \in [Conns -> Seq(Units)]
    <3>1. toProxy' = [toProxy EXCEPT ![c] = SubSeq(toProxy[c], k + 1, Len(toProxy[c]))]
      BY <1>1
    <3> QED BY <3>1, <1>2, <1>5
  <2>2. rbuf' \in [Conns -> Seq(Units)]
    <3>1. rbuf' = [rbuf EXCEPT ![c] = us]
      BY <1>1, <1>7
    <3> QED BY <3>1, <1>2, <1>7
  <2>3. ctx' \in [Conns -> Ctxs]
    BY <1>2, <1>13
  <2>4. handler' \in [Conns -> {"free", "c2r", "r2c"}]
    BY <1>1, <1>2
  <2>5. c2r' \in [Conns -> {"read", "raw", "lock", "exists", "get", "send", "write",
                           "reply", "log"}]
    <3>1. \/ c2r' = [c2r EXCEPT ![c] = "raw"]
          \/ c2r' = [c2r EXCEPT ![c] = "lock"]
      BY <1>1
    <3> QED BY <3>1, <1>2
  <2> QED BY <1>1, <2>1, <2>2, <2>3, <2>4, <2>5 DEF IInv, TypeOK, SessionTypeOK
<1>16. JobsTypeOK'
  BY <1>1 DEF IInv, TypeOK, JobsTypeOK
<1>17. \A d \in Conns : Len(chan'[d]) <= 1
  BY <1>1 DEF IInv, TypeOK
<1>18. \A d \in Conns : d # c => Local(d)' = Local(d)
  BY <1>1, <1>2, <1>13 DEF Local
<1>19. KnownAt(c)'
  BY <1>6, <1>8, <1>13, <1>14 DEF IInv, RequestsKnown, KnownAt, Known
<1>20. CacheableAt(c)'
  BY <1>1, <1>13 DEF IInv, CacheableOnly, CacheableAt
<1>21. InHandAt(c)'
  BY <1>13 DEF InHandAt
<1>22. ComingAt(c)'
  BY <1>1 DEF IInv, ReplyComing, ComingAt
<1> QED BY <1>15, <1>16, <1>17, <1>18, <1>19, <1>20, <1>21, <1>22, OnlyAt

\* A read of k parts, and the channel is emptied if it holds a context.
LEMMA R2CReadPreserves ==
  ASSUME IInv, NEW c \in Conns, R2CRead(c) PROVE IInv'
<1> USE SessionAssumption, AssistantAssumption
<1>1. PICK k \in 1 .. Len(fromRemote[c]) :
        /\ data' = [data EXCEPT ![c] = SubSeq(fromRemote[c], 1, k)]
        /\ cachedBuf' = cachedBuf
           \/ cachedBuf' = [cachedBuf EXCEPT ![c] = cachedBuf[c] \o data'[c]]
        /\ fromRemote' = [fromRemote EXCEPT ![c] = SubSeq(fromRemote[c], k + 1, Len(fromRemote[c]))]
        /\ (chan[c] = <<>> /\ chan' = chan)
           \/ (chan[c] # <<>> /\ chan' = [chan EXCEPT ![c] = Tail(chan[c])])
        /\ newCtx' = newCtx
           \/ (chan[c] # <<>> /\ newCtx' = [newCtx EXCEPT ![c] = Head(chan[c])])
        /\ cachedCtx' = cachedCtx
           \/ (chan[c] # <<>> /\ cachedCtx' = [cachedCtx EXCEPT ![c] = Head(chan[c])])
        /\ handler' = handler \/ handler' = [handler EXCEPT ![c] = "r2c"]
        /\ r2c' = [r2c EXCEPT ![c] = "finish"] \/ r2c' = [r2c EXCEPT ![c] = "write"]
           \/ r2c' = [r2c EXCEPT ![c] = "respond"]
        /\ UNCHANGED <<proc, conn, clientUp, remoteUp, reqs, answered, executed, inbox,
                       hit, toClient, toProxy, toRemote, rbuf, ctx, c2r>>
        /\ UNCHANGED <<tasks, logs, batch, redis>>
  BY DEF R2CRead, At, Put, Lock, Takes, sockets, jobVars, c2rVars, r2cVars, clientVars,
         remoteVars, shared
<1>2. /\ data \in [Conns -> Seq(PartSet)]
      /\ cachedBuf \in [Conns -> Seq(PartSet)]
      /\ fromRemote \in [Conns -> Seq(PartSet)]
      /\ chan \in [Conns -> Seq(Ctxs)]
      /\ newCtx \in [Conns -> Ctxs]
      /\ cachedCtx \in [Conns -> Ctxs]
      /\ handler \in [Conns -> {"free", "c2r", "r2c"}]
      /\ r2c \in [Conns -> {"read", "finish", "task", "log", "respond", "write"}]
  BY DEF IInv, TypeOK, SessionTypeOK
<1>3. fromRemote[c] \in Seq(PartSet) /\ cachedBuf[c] \in Seq(PartSet) /\ chan[c] \in Seq(Ctxs)
  BY <1>2
<1>4. /\ SubSeq(fromRemote[c], 1, k) \in Seq(PartSet)
      /\ SubSeq(fromRemote[c], k + 1, Len(fromRemote[c])) \in Seq(PartSet)
  BY <1>3, ReadSplit
<1>5. data'[c] = SubSeq(fromRemote[c], 1, k)
  BY <1>1, <1>2
<1>6. cachedBuf[c] \o data'[c] \in Seq(PartSet)
  BY <1>3, <1>4, <1>5, Joined
<1>7. /\ chan[c] # <<>> => 1 \in DOMAIN chan[c] /\ Head(chan[c]) = chan[c][1]
      /\ chan[c] # <<>> => Head(chan[c]) \in Ctxs /\ Tail(chan[c]) = <<>>
      /\ <<>> \in Seq(Ctxs)
  BY <1>3, AtMostOne DEF IInv, TypeOK
<1>8. chan' = [chan EXCEPT ![c] = <<>>] /\ chan'[c] = <<>>
  <2>1. CASE chan[c] = <<>>
    BY <1>1, <1>2, <2>1
  <2>2. CASE chan[c] # <<>>
    BY <1>1, <1>2, <1>7, <2>2
  <2> QED BY <2>1, <2>2
<1>9. chan[c] # <<>> => Storable(Head(chan[c]))
  BY <1>7 DEF IInv, CacheableOnly, CacheableAt
<1>10. Storable(newCtx'[c]) /\ Storable(cachedCtx'[c]) /\ r2c'[c] # "task"
  BY <1>1, <1>2, <1>9 DEF IInv, CacheableOnly, CacheableAt
<1>11. SessionTypeOK'
  <2>1. data' \in [Conns -> Seq(PartSet)]
    <3>1. data' = [data EXCEPT ![c] = SubSeq(fromRemote[c], 1, k)]
      BY <1>1
    <3> QED BY <3>1, <1>2, <1>4
  <2>2. cachedBuf' \in [Conns -> Seq(PartSet)]
    <3>1. \/ cachedBuf' = cachedBuf
          \/ cachedBuf' = [cachedBuf EXCEPT ![c] = cachedBuf[c] \o data'[c]]
      BY <1>1
    <3> QED BY <3>1, <1>2, <1>6
  <2>3. fromRemote' \in [Conns -> Seq(PartSet)]
    <3>1. fromRemote' = [fromRemote EXCEPT ![c] = SubSeq(fromRemote[c], k + 1, Len(fromRemote[c]))]
      BY <1>1
    <3> QED BY <3>1, <1>2, <1>4
  <2>4. chan' \in [Conns -> Seq(Ctxs)]
    BY <1>2, <1>7, <1>8
  <2>5. newCtx' \in [Conns -> Ctxs]
    <3>1. \/ newCtx' = newCtx
          \/ chan[c] # <<>> /\ newCtx' = [newCtx EXCEPT ![c] = Head(chan[c])]
      BY <1>1
    <3> QED BY <3>1, <1>2, <1>7
  <2>6. cachedCtx' \in [Conns -> Ctxs]
    <3>1. \/ cachedCtx' = cachedCtx
          \/ chan[c] # <<>> /\ cachedCtx' = [cachedCtx EXCEPT ![c] = Head(chan[c])]
      BY <1>1
    <3> QED BY <3>1, <1>2, <1>7
  <2>7. handler' \in [Conns -> {"free", "c2r", "r2c"}]
    BY <1>1, <1>2, <1>4, <1>6, <1>7
  <2>8. r2c' \in [Conns -> {"read", "finish", "task", "log", "respond", "write"}]
    BY <1>1, <1>2, <1>4, <1>6, <1>7
  <2> QED BY <1>1, <2>1, <2>2, <2>3, <2>4, <2>5, <2>6, <2>7, <2>8
          DEF IInv, TypeOK, SessionTypeOK
<1>12. JobsTypeOK'
  BY <1>1 DEF IInv, TypeOK, JobsTypeOK
<1>13. \A d \in Conns : Len(chan'[d]) <= 1
  BY <1>1, <1>2, <1>8 DEF IInv, TypeOK
<1>14. \A d \in Conns : d # c => Local(d)' = Local(d)
  <2> SUFFICES ASSUME NEW d \in Conns, d # c PROVE Local(d)' = Local(d)
    OBVIOUS
  <2>1. newCtx'[d] = newCtx[d] /\ cachedCtx'[d] = cachedCtx[d]
    BY <1>1, <1>2
  <2>2. chan'[d] = chan[d]
    BY <1>2, <1>8
  <2>3. fromRemote'[d] = fromRemote[d]
    BY <1>1, <1>2
  <2>4. r2c'[d] = r2c[d]
    BY <1>1, <1>2
  <2>5. UNCHANGED <<conn, remoteUp, reqs, toProxy, rbuf, toRemote, ctx, c2r>>
    BY <1>1
  <2> QED BY <2>1, <2>2, <2>3, <2>4, <2>5 DEF Local
<1>15. KnownAt(c)'
  BY <1>1, <1>8 DEF IInv, RequestsKnown, KnownAt, Known
<1>16. CacheableAt(c)'
  BY <1>1, <1>8, <1>10 DEF IInv, CacheableOnly, CacheableAt, Storable
<1>17. InHandAt(c)'
  BY <1>1, <1>2 DEF IInv, InHand, InHandAt
<1>18. ComingAt(c)'
  BY <1>8 DEF ComingAt
<1> QED BY <1>11, <1>12, <1>13, <1>14, <1>15, <1>16, <1>17, <1>18, OnlyAt

\* The old context is finished: stored, logged or just replaced.
LEMMA R2CFinishPreserves ==
  ASSUME IInv, NEW c \in Conns, R2CFinish(c) PROVE IInv'
<1> USE SessionAssumption, AssistantAssumption
<1>1. /\ \E to \in {"task", "log", "respond"} : r2c' = [r2c EXCEPT ![c] = to]
      /\ cachedBuf' = cachedBuf \/ cachedBuf' = [cachedBuf EXCEPT ![c] = data[c]]
      /\ newCtx' = newCtx \/ newCtx' = [newCtx EXCEPT ![c] = NoCtx]
      /\ cachedCtx' = cachedCtx \/ cachedCtx' = [cachedCtx EXCEPT ![c] = newCtx[c]]
      /\ handler' = handler \/ handler' = [handler EXCEPT ![c] = "c2r"]
         \/ handler' = [handler EXCEPT ![c] = "r2c"]
      /\ (cachedCtx[c].should_update_cache /\ cachedCtx' = cachedCtx)
          \/ r2c' = [r2c EXCEPT ![c] = "log"] \/ r2c' = [r2c EXCEPT ![c] = "respond"]
      /\ UNCHANGED <<proc, conn, clientUp, remoteUp, reqs, answered, executed, inbox,
                     hit, data, fromRemote, toClient, toProxy, toRemote, rbuf, chan,
                     ctx, c2r>>
      /\ UNCHANGED <<tasks, logs, batch, redis>>
  BY DEF R2CFinish, At, Put, Goto, LogOrInstall, Install, Replace, sockets, jobVars,
         c2rVars, r2cVars, clientVars, remoteVars, shared
<1>2. /\ data \in [Conns -> Seq(PartSet)]
      /\ cachedBuf \in [Conns -> Seq(PartSet)]
      /\ newCtx \in [Conns -> Ctxs]
      /\ cachedCtx \in [Conns -> Ctxs]
      /\ handler \in [Conns -> {"free", "c2r", "r2c"}]
      /\ r2c \in [Conns -> {"read", "finish", "task", "log", "respond", "write"}]
  BY DEF IInv, TypeOK, SessionTypeOK
<1>3. NoCtx \in Ctxs /\ ~NoCtx.should_update_cache
  BY DEF NoCtx, NewCtx, Ctxs
<1>4. SessionTypeOK'
  <2>1. cachedBuf' \in [Conns -> Seq(PartSet)]
    <3>1. cachedBuf' = cachedBuf \/ cachedBuf' = [cachedBuf EXCEPT ![c] = data[c]]
      BY <1>1
    <3> QED BY <3>1, <1>2
  <2>2. newCtx' \in [Conns -> Ctxs]
    <3>1. newCtx' = newCtx \/ newCtx' = [newCtx EXCEPT ![c] = NoCtx]
      BY <1>1
    <3> QED BY <3>1, <1>2, <1>3
  <2>3. cachedCtx' \in [Conns -> Ctxs]
    <3>1. cachedCtx' = cachedCtx \/ cachedCtx' = [cachedCtx EXCEPT ![c] = newCtx[c]]
      BY <1>1
    <3> QED BY <3>1, <1>2
  <2>4. handler' \in [Conns -> {"free", "c2r", "r2c"}]
    BY <1>1, <1>2, <1>3
  <2>5. r2c' \in [Conns -> {"read", "finish", "task", "log", "respond", "write"}]
    BY <1>1, <1>2, <1>3
  <2> QED BY <1>1, <2>1, <2>2, <2>3, <2>4, <2>5 DEF IInv, TypeOK, SessionTypeOK
<1>5. JobsTypeOK'
  BY <1>1 DEF IInv, TypeOK, JobsTypeOK
<1>6. \A d \in Conns : Len(chan'[d]) <= 1
  BY <1>1 DEF IInv, TypeOK
<1>7. \A d \in Conns : d # c => Local(d)' = Local(d)
  BY <1>1, <1>2 DEF Local
<1>8. KnownAt(c)'
  BY <1>1, <1>2 DEF IInv, RequestsKnown, KnownAt, Known
<1>9. CacheableAt(c)'
  BY <1>1, <1>2, <1>3 DEF IInv, CacheableOnly, CacheableAt, Storable
<1>10. InHandAt(c)'
  BY <1>1, <1>2 DEF IInv, InHand, InHandAt
<1>11. ComingAt(c)'
  BY <1>1, <1>2 DEF IInv, ReplyComing, ComingAt
<1> QED BY <1>4, <1>5, <1>6, <1>7, <1>8, <1>9, <1>10, <1>11, OnlyAt

\* The body of a storable reply is queued for redis under a key.
LEMMA R2CTaskPreserves ==
  ASSUME IInv, NEW c \in Conns, R2CTask(c) PROVE IInv'
<1> USE SessionAssumption, AssistantAssumption
<1>1. /\ r2c[c] = "task"
      /\ UNCHANGED <<logs, batch, redis>>
      /\ tasks' = Append(tasks, Task(cachedCtx[c], cachedBuf[c]))
      /\ cachedBuf' = cachedBuf \/ cachedBuf' = [cachedBuf EXCEPT ![c] = data[c]]
      /\ newCtx' = newCtx \/ newCtx' = [newCtx EXCEPT ![c] = NoCtx]
      /\ cachedCtx' = cachedCtx \/ cachedCtx' = [cachedCtx EXCEPT ![c] = newCtx[c]]
      /\ handler' = handler \/ handler' = [handler EXCEPT ![c] = "c2r"]
         \/ handler' = [handler EXCEPT ![c] = "r2c"]
      /\ r2c' = [r2c EXCEPT ![c] = "log"] \/ r2c' = [r2c EXCEPT ![c] = "respond"]
      /\ UNCHANGED <<proc, conn, clientUp, remoteUp, reqs, answered, executed, inbox,
                     hit, data, fromRemote, toClient, toProxy, toRemote, rbuf, chan,
                     ctx, c2r>>
  BY DEF R2CTask, At, Put, Goto, LogOrInstall, Install, Replace, SendTask, sockets,
         jobVars, c2rVars, r2cVars, clientVars, remoteVars, shared
<1>2. /\ data \in [Conns -> Seq(PartSet)]
      /\ cachedBuf \in [Conns -> Seq(PartSet)]
      /\ newCtx \in [Conns -> Ctxs]
      /\ cachedCtx \in [Conns -> Ctxs]
      /\ handler \in [Conns -> {"free", "c2r", "r2c"}]
      /\ r2c \in [Conns -> {"read", "finish", "task", "log", "respond", "write"}]
  BY DEF IInv, TypeOK, SessionTypeOK
<1>3. NoCtx \in Ctxs /\ ~NoCtx.should_update_cache
  BY DEF NoCtx, NewCtx, Ctxs
<1>4. cachedCtx[c].sql \in Texts /\ cachedBuf[c] \in Seq(PartSet)
  BY <1>1, <1>2 DEF IInv, CacheableOnly, CacheableAt, Storable, SessionAssumption
<1>5. Task(cachedCtx[c], cachedBuf[c]) \in [key : Keys, body : Seq(PartSet)]
  BY <1>4 DEF Task, SessionAssumption
<1>6. SessionTypeOK'
  <2>1. cachedBuf' \in [Conns -> Seq(PartSet)]
    BY <1>1, <1>2, <1>3
  <2>2. newCtx' \in [Conns -> Ctxs]
    <3>1. newCtx' = newCtx \/ newCtx' = [newCtx EXCEPT ![c] = NoCtx]
      BY <1>1
    <3> QED BY <3>1, <1>2, <1>3
  <2>3. cachedCtx' \in [Conns -> Ctxs]
    <3>1. cachedCtx' = cachedCtx \/ cachedCtx' = [cachedCtx EXCEPT ![c] = newCtx[c]]
      BY <1>1
    <3> QED BY <3>1, <1>2
  <2>4. handler' \in [Conns -> {"free", "c2r", "r2c"}]
    BY <1>1, <1>2, <1>3
  <2>5. r2c' \in [Conns -> {"read", "finish", "task", "log", "respond", "write"}]
    BY <1>1, <1>2, <1>3
  <2> QED BY <1>1, <2>1, <2>2, <2>3, <2>4, <2>5 DEF IInv, TypeOK, SessionTypeOK
<1>7. JobsTypeOK'
  BY <1>1, <1>5 DEF IInv, TypeOK, JobsTypeOK
<1>8. \A d \in Conns : Len(chan'[d]) <= 1
  BY <1>1 DEF IInv, TypeOK
<1>9. \A d \in Conns : d # c => Local(d)' = Local(d)
  BY <1>1, <1>2 DEF Local
<1>10. KnownAt(c)'
  BY <1>1, <1>2 DEF IInv, RequestsKnown, KnownAt, Known
<1>11. CacheableAt(c)'
  BY <1>1, <1>2, <1>3, <1>4, <1>5 DEF IInv, CacheableOnly, CacheableAt, Storable
<1>12. InHandAt(c)'
  BY <1>1, <1>2 DEF IInv, InHand, InHandAt
<1>13. ComingAt(c)'
  BY <1>1, <1>2 DEF IInv, ReplyComing, ComingAt
<1> QED BY <1>6, <1>7, <1>8, <1>9, <1>10, <1>11, <1>12, <1>13, OnlyAt

\* The old context is logged and replaced.
LEMMA R2CLogPreserves ==
  ASSUME IInv, NEW c \in Conns, R2CLog(c) PROVE IInv'
<1> USE SessionAssumption, AssistantAssumption
<1>1. /\ UNCHANGED <<tasks, batch, redis>>
      /\ logs' = Append(logs, Log(c, cachedCtx[c]))
      /\ cachedBuf' = [cachedBuf EXCEPT ![c] = data[c]]
      /\ newCtx' = [newCtx EXCEPT ![c] = NoCtx]
      /\ cachedCtx' = [cachedCtx EXCEPT ![c] = newCtx[c]]
      /\ handler' = [handler EXCEPT ![c] = "c2r"]
         \/ handler' = [handler EXCEPT ![c] = "r2c"]
      /\ r2c' = [r2c EXCEPT ![c] = "respond"]
      /\ UNCHANGED <<proc, conn, clientUp, remoteUp, reqs, answered, executed, inbox,
                     hit, data, fromRemote, toClient, toProxy, toRemote, rbuf, chan,
                     ctx, c2r>>
  BY DEF R2CLog, At, Put, Install, Replace, SendLog, sockets, jobVars, c2rVars, r2cVars,
         clientVars, remoteVars, shared
<1>2. /\ data \in [Conns -> Seq(PartSet)]
      /\ cachedBuf \in [Conns -> Seq(PartSet)]
      /\ newCtx \in [Conns -> Ctxs]
      /\ cachedCtx \in [Conns -> Ctxs]
      /\ handler \in [Conns -> {"free", "c2r", "r2c"}]
      /\ r2c \in [Conns -> {"read", "finish", "task", "log", "respond", "write"}]
  BY DEF IInv, TypeOK, SessionTypeOK
<1>3. NoCtx \in Ctxs /\ ~NoCtx.should_update_cache
  BY DEF NoCtx, NewCtx, Ctxs
<1>4. Log(c, cachedCtx[c]) \in Logs
  BY <1>2 DEF Log, Ctxs, Logs
<1>5. SessionTypeOK'
  <2>1. cachedBuf' \in [Conns -> Seq(PartSet)]
    BY <1>1, <1>2, <1>3
  <2>2. newCtx' \in [Conns -> Ctxs]
    BY <1>1, <1>2, <1>3
  <2>3. cachedCtx' \in [Conns -> Ctxs]
    BY <1>1, <1>2, <1>3
  <2>4. handler' \in [Conns -> {"free", "c2r", "r2c"}]
    BY <1>1, <1>2, <1>3
  <2>5. r2c' \in [Conns -> {"read", "finish", "task", "log", "respond", "write"}]
    BY <1>1, <1>2, <1>3
  <2> QED BY <1>1, <2>1, <2>2, <2>3, <2>4, <2>5 DEF IInv, TypeOK, SessionTypeOK
<1>6. JobsTypeOK'
  BY <1>1, <1>4 DEF IInv, TypeOK, JobsTypeOK
<1>7. \A d \in Conns : Len(chan'[d]) <= 1
  BY <1>1 DEF IInv, TypeOK
<1>8. \A d \in Conns : d # c => Local(d)' = Local(d)
  BY <1>1, <1>2 DEF Local
<1>9. KnownAt(c)'
  BY <1>1, <1>2 DEF IInv, RequestsKnown, KnownAt, Known
<1>10. CacheableAt(c)'
  BY <1>1, <1>2, <1>3, <1>4 DEF IInv, CacheableOnly, CacheableAt, Storable
<1>11. InHandAt(c)'
  BY <1>1, <1>2 DEF IInv, InHand, InHandAt
<1>12. ComingAt(c)'
  BY <1>1, <1>2 DEF IInv, ReplyComing, ComingAt
<1> QED BY <1>5, <1>6, <1>7, <1>8, <1>9, <1>10, <1>11, <1>12, OnlyAt

\* handle_response, and conn_handler is released.
LEMMA R2CRespondPreserves ==
  ASSUME IInv, NEW c \in Conns, R2CRespond(c) PROVE IInv'
<1> USE SessionAssumption, AssistantAssumption
<1>1. /\ \/ handler' = [handler EXCEPT ![c] = "c2r"]
         \/ handler' = [handler EXCEPT ![c] = "free"]
      /\ r2c' = [r2c EXCEPT ![c] = "write"]
      /\ UNCHANGED <<proc, conn, clientUp, remoteUp, reqs, answered, executed, inbox,
                     hit, data, cachedBuf, fromRemote, toClient, toProxy, toRemote,
                     rbuf, chan, ctx, newCtx, cachedCtx, c2r>>
      /\ UNCHANGED <<tasks, logs, batch, redis>>
  BY DEF R2CRespond, At, Put, Goto, Unlock, sockets, jobVars, c2rVars, r2cVars,
         clientVars, remoteVars, shared
<1>2. /\ handler \in [Conns -> {"free", "c2r", "r2c"}]
      /\ r2c \in [Conns -> {"read", "finish", "task", "log", "respond", "write"}]
  BY DEF IInv, TypeOK, SessionTypeOK
<1>3. SessionTypeOK'
  <2>1. handler' \in [Conns -> {"free", "c2r", "r2c"}]
    BY <1>1, <1>2
  <2>2. r2c' \in [Conns -> {"read", "finish", "task", "log", "respond", "write"}]
    BY <1>1, <1>2
  <2> QED BY <1>1, <2>1, <2>2 DEF IInv, TypeOK, SessionTypeOK
<1>4. JobsTypeOK'
  BY <1>1 DEF IInv, TypeOK, JobsTypeOK
<1>5. \A d \in Conns : Len(chan'[d]) <= 1
  BY <1>1 DEF IInv, TypeOK
<1>6. \A d \in Conns : d # c => Local(d)' = Local(d)
  BY <1>1, <1>2 DEF Local
<1>7. KnownAt(c)'
  BY <1>1, <1>2 DEF IInv, RequestsKnown, KnownAt, Known
<1>8. CacheableAt(c)'
  BY <1>1, <1>2 DEF IInv, CacheableOnly, CacheableAt, Storable
<1>9. InHandAt(c)'
  BY <1>1, <1>2 DEF IInv, InHand, InHandAt
<1>10. ComingAt(c)'
  BY <1>1, <1>2 DEF IInv, ReplyComing, ComingAt
<1> QED BY <1>3, <1>4, <1>5, <1>6, <1>7, <1>8, <1>9, <1>10, OnlyAt

\* The bytes go to the client.
LEMMA R2CWritePreserves ==
  ASSUME IInv, NEW c \in Conns, R2CWrite(c) PROVE IInv'
<1> USE SessionAssumption, AssistantAssumption
<1>1. /\ proc' = proc \/ proc' = "write_expect"
      /\ data' = [data EXCEPT ![c] = <<>>]
      /\ toClient' = toClient
         \/ toClient' = [toClient EXCEPT ![c] = toClient[c] \o data[c]]
      /\ r2c' = [r2c EXCEPT ![c] = "read"]
      /\ UNCHANGED <<conn, clientUp, remoteUp, reqs, answered, executed, inbox, hit,
                     cachedBuf, fromRemote, toProxy, toRemote, rbuf, chan, ctx, newCtx,
                     cachedCtx, handler, c2r>>
      /\ UNCHANGED <<tasks, logs, batch, redis>>
  BY DEF R2CWrite, At, Put, Goto, ToClient, sockets, jobVars, c2rVars, r2cVars,
         clientVars, remoteVars, shared
<1>2. /\ proc \in {"up", "redis_unwrap", "write_expect", "short_read"}
      /\ data \in [Conns -> Seq(PartSet)]
      /\ toClient \in [Conns -> Seq(PartSet)]
      /\ r2c \in [Conns -> {"read", "finish", "task", "log", "respond", "write"}]
  BY DEF IInv, TypeOK, SessionTypeOK
<1>3. toClient[c] \o data[c] \in Seq(PartSet) /\ <<>> \in Seq(PartSet)
  BY <1>2
<1>4. SessionTypeOK'
  <2>1. proc' \in {"up", "redis_unwrap", "write_expect", "short_read"}
    BY <1>1, <1>2, <1>3
  <2>2. data' \in [Conns -> Seq(PartSet)]
    BY <1>1, <1>2, <1>3
  <2>3. toClient' \in [Conns -> Seq(PartSet)]
    BY <1>1, <1>2, <1>3
  <2>4. r2c' \in [Conns -> {"read", "finish", "task", "log", "respond", "write"}]
    BY <1>1, <1>2, <1>3
  <2> QED BY <1>1, <2>1, <2>2, <2>3, <2>4 DEF IInv, TypeOK, SessionTypeOK
<1>5. JobsTypeOK'
  BY <1>1 DEF IInv, TypeOK, JobsTypeOK
<1>6. \A d \in Conns : Len(chan'[d]) <= 1
  BY <1>1 DEF IInv, TypeOK
<1>7. \A d \in Conns : d # c => Local(d)' = Local(d)
  BY <1>1, <1>2 DEF Local
<1>8. KnownAt(c)'
  BY <1>1, <1>2 DEF IInv, RequestsKnown, KnownAt, Known
<1>9. CacheableAt(c)'
  BY <1>1, <1>2 DEF IInv, CacheableOnly, CacheableAt, Storable
<1>10. InHandAt(c)'
  BY <1>1, <1>2 DEF IInv, InHand, InHandAt
<1>11. ComingAt(c)'
  BY <1>1, <1>2 DEF IInv, ReplyComing, ComingAt
<1> QED BY <1>4, <1>5, <1>6, <1>7, <1>8, <1>9, <1>10, <1>11, OnlyAt

\* A client sends one more request.
LEMMA ClientSendPreserves ==
  ASSUME IInv, NEW c \in Conns, NEW s \in Stmts, ClientSend(c, s) PROVE IInv'
<1> USE SessionAssumption, AssistantAssumption
<1>1. /\ reqs' = [reqs EXCEPT ![c] = Append(reqs[c], s)]
      /\ toProxy' = [toProxy EXCEPT ![c] = toProxy[c] \o [i \in DOMAIN Frames[s] |-> [n |-> Len(reqs[c]) + 1, i |-> i]]]
      /\ UNCHANGED <<proc, conn, clientUp, remoteUp, answered, executed, inbox, hit,
                     data, cachedBuf, fromRemote, toClient, toRemote, rbuf, chan, ctx,
                     newCtx, cachedCtx, handler, c2r, r2c>>
      /\ UNCHANGED <<tasks, logs, batch, redis>>
  BY DEF ClientSend, Put, sockets, jobVars, c2rVars, r2cVars, clientVars, remoteVars,
         shared
<1>2. /\ reqs \in [Conns -> Seq(Stmts)]
      /\ toProxy \in [Conns -> Seq(Units)]
      /\ chan \in [Conns -> Seq(Ctxs)]
  BY DEF IInv, TypeOK, SessionTypeOK
<1>3. reqs[c] \in Seq(Stmts) /\ toProxy[c] \in Seq(Units) /\ chan[c] \in Seq(Ctxs)
  BY <1>2
<1>4. Frames[s] \in Seq(FrameTypes)
  BY DEF SessionAssumption
<1>5. Len(reqs[c]) + 1 \in Nat
  BY <1>3
<1>6. PICK pkt \in Seq(Units) :
        /\ pkt = [i \in DOMAIN Frames[s] |-> [n |-> Len(reqs[c]) + 1, i |-> i]]
        /\ \A i \in DOMAIN pkt : pkt[i].n = Len(reqs[c]) + 1
  <2>1. PICK F \in Seq(FrameTypes) : F = Frames[s]
    BY <1>4
  <2>2. PICK m \in Nat : m = Len(reqs[c]) + 1
    BY <1>5
  <2>3. PICK p : p = [i \in DOMAIN F |-> [n |-> m, i |-> i]]
    OBVIOUS
  <2>4. p \in Seq(Units) /\ \A i \in DOMAIN p : p[i].n = m
    BY <2>3, NewPacket
  <2> QED BY <2>1, <2>2, <2>3, <2>4
<1>7. /\ toProxy'[c] = toProxy[c] \o pkt /\ chan'[c] = chan[c] /\ rbuf'[c] = rbuf[c]
      /\ toRemote'[c] = toRemote[c]
      /\ reqs'[c] = Append(reqs[c], s) /\ toProxy[c] \o pkt \in Seq(Units)
  BY <1>1, <1>2, <1>3, <1>6, Joined
<1>8. /\ \A n \in DOMAIN reqs[c] : n \in DOMAIN reqs'[c] /\ reqs'[c][n] = reqs[c][n]
      /\ Len(reqs[c]) + 1 \in DOMAIN reqs'[c]
  <2> DEFINE old == reqs[c]
             new == reqs'[c]
  <2>1. old \in Seq(Stmts) /\ new = Append(old, s)
    BY <1>3, <1>7
  <2> HIDE DEF old, new
  <2>2. /\ \A n \in DOMAIN old : n \in DOMAIN new /\ new[n] = old[n]
        /\ Len(old) + 1 \in DOMAIN new
    BY <2>1, OneMore
  <2> QED BY <2>2 DEF old, new
<1>9. /\ \A i \in DOMAIN toProxy[c] : toProxy[c][i].n \in DOMAIN reqs'[c]
      /\ \A i \in DOMAIN pkt : pkt[i].n \in DOMAIN reqs'[c]
  BY <1>6, <1>8 DEF IInv, RequestsKnown, KnownAt, Known
<1>10. \A i \in DOMAIN (toProxy[c] \o pkt) : (toProxy[c] \o pkt)[i].n \in DOMAIN reqs'[c]
  BY <1>3, <1>6, <1>9, NumbersJoined
<1>11. \A i \in DOMAIN chan[c] : chan[c][i].n \in DOMAIN reqs[c]
  BY DEF IInv, RequestsKnown, KnownAt, Known
<1>12. SessionTypeOK'
  <2>1. reqs' \in [Conns -> Seq(Stmts)]
    BY <1>1, <1>2, <1>6, <1>7
  <2>2. toProxy' \in [Conns -> Seq(Units)]
    BY <1>1, <1>2, <1>6, <1>7
  <2> QED BY <1>1, <2>1, <2>2 DEF IInv, TypeOK, SessionTypeOK
<1>13. JobsTypeOK'
  BY <1>1 DEF IInv, TypeOK, JobsTypeOK
<1>14. \A d \in Conns : Len(chan'[d]) <= 1
  BY <1>1 DEF IInv, TypeOK
<1>15. \A d \in Conns : d # c => Local(d)' = Local(d)
  BY <1>1, <1>2 DEF Local
<1>16. KnownAt(c)'
  BY <1>7, <1>8, <1>10 DEF IInv, RequestsKnown, KnownAt, Known
<1>17. CacheableAt(c)'
  BY <1>1, <1>2 DEF IInv, CacheableOnly, CacheableAt, Storable
<1>18. InHandAt(c)'
  BY <1>1, <1>2 DEF IInv, InHand, InHandAt
<1>19. ComingAt(c)'
  BY <1>1, <1>8, <1>11 DEF IInv, ReplyComing, ComingAt
<1> QED BY <1>12, <1>13, <1>14, <1>15, <1>16, <1>17, <1>18, <1>19, OnlyAt

\* A client reads a part.
LEMMA ClientRecvPreserves ==
  ASSUME IInv, NEW c \in Conns, ClientRecv(c) PROVE IInv'
<1> USE SessionAssumption, AssistantAssumption
<1>1. /\ toClient[c] # <<>>
      /\ answered' = answered \/ answered' = [answered EXCEPT ![c] = answered[c] + 1]
      /\ inbox' = [inbox EXCEPT ![c] = <<>>]
         \/ inbox' = [inbox EXCEPT ![c] = Append(inbox[c], Head(toClient[c]))]
      /\ toClient' = [toClient EXCEPT ![c] = Tail(toClient[c])]
      /\ UNCHANGED <<proc, conn, clientUp, remoteUp, reqs, executed, hit, data,
                     cachedBuf, fromRemote, toProxy, toRemote, rbuf, chan, ctx, newCtx,
                     cachedCtx, handler, c2r, r2c>>
      /\ UNCHANGED <<tasks, logs, batch, redis>>
  BY DEF ClientRecv, Put, sockets, jobVars, c2rVars, r2cVars, clientVars, remoteVars,
         shared
<1>2. /\ answered \in [Conns -> Nat]
      /\ inbox \in [Conns -> Seq(PartSet)]
      /\ toClient \in [Conns -> Seq(PartSet)]
  BY DEF IInv, TypeOK, SessionTypeOK
<1>3. /\ <<>> \in Seq(PartSet) /\ Append(inbox[c], Head(toClient[c])) \in Seq(PartSet)
      /\ Tail(toClient[c]) \in Seq(PartSet) /\ answered[c] + 1 \in Nat
  BY <1>1, <1>2
<1>4. SessionTypeOK'
  <2>1. answered' \in [Conns -> Nat]
    BY <1>1, <1>2, <1>3
  <2>2. inbox' \in [Conns -> Seq(PartSet)]
    BY <1>1, <1>2, <1>3
  <2>3. toClient' \in [Conns -> Seq(PartSet)]
    BY <1>1, <1>2, <1>3
  <2> QED BY <1>1, <2>1, <2>2, <2>3 DEF IInv, TypeOK, SessionTypeOK
<1>5. JobsTypeOK'
  BY <1>1 DEF IInv, TypeOK, JobsTypeOK
<1>6. \A d \in Conns : Len(chan'[d]) <= 1
  BY <1>1 DEF IInv, TypeOK
<1>7. \A d \in Conns : d # c => Local(d)' = Local(d)
  BY <1>1, <1>2 DEF Local
<1>8. KnownAt(c)'
  BY <1>1, <1>2 DEF IInv, RequestsKnown, KnownAt, Known
<1>9. CacheableAt(c)'
  BY <1>1, <1>2 DEF IInv, CacheableOnly, CacheableAt, Storable
<1>10. InHandAt(c)'
  BY <1>1, <1>2 DEF IInv, InHand, InHandAt
<1>11. ComingAt(c)'
  BY <1>1, <1>2 DEF IInv, ReplyComing, ComingAt
<1> QED BY <1>4, <1>5, <1>6, <1>7, <1>8, <1>9, <1>10, <1>11, OnlyAt

\* A client closes.
LEMMA ClientClosePreserves ==
  ASSUME IInv, NEW c \in Conns, ClientClose(c) PROVE IInv'
<1> USE SessionAssumption, AssistantAssumption
<1>1. /\ clientUp' = [clientUp EXCEPT ![c] = FALSE]
      /\ inbox' = [inbox EXCEPT ![c] = <<>>]
      /\ toClient' = [toClient EXCEPT ![c] = <<>>]
      /\ UNCHANGED <<proc, conn, remoteUp, reqs, answered, executed, hit, data,
                     cachedBuf, fromRemote, toProxy, toRemote, rbuf, chan, ctx, newCtx,
                     cachedCtx, handler, c2r, r2c>>
      /\ UNCHANGED <<tasks, logs, batch, redis>>
  BY DEF ClientClose, Put, sockets, jobVars, c2rVars, r2cVars, clientVars, remoteVars,
         shared
<1>2. /\ clientUp \in [Conns -> BOOLEAN]
      /\ inbox \in [Conns -> Seq(PartSet)]
      /\ toClient \in [Conns -> Seq(PartSet)]
  BY DEF IInv, TypeOK, SessionTypeOK
<1>3. <<>> \in Seq(PartSet)
  OBVIOUS
<1>4. SessionTypeOK'
  <2>1. clientUp' \in [Conns -> BOOLEAN]
    BY <1>1, <1>2, <1>3
  <2>2. inbox' \in [Conns -> Seq(PartSet)]
    BY <1>1, <1>2, <1>3
  <2>3. toClient' \in [Conns -> Seq(PartSet)]
    BY <1>1, <1>2, <1>3
  <2> QED BY <1>1, <2>1, <2>2, <2>3 DEF IInv, TypeOK, SessionTypeOK
<1>5. JobsTypeOK'
  BY <1>1 DEF IInv, TypeOK, JobsTypeOK
<1>6. \A d \in Conns : Len(chan'[d]) <= 1
  BY <1>1 DEF IInv, TypeOK
<1>7. \A d \in Conns : d # c => Local(d)' = Local(d)
  BY <1>1, <1>2 DEF Local
<1>8. KnownAt(c)'
  BY <1>1, <1>2 DEF IInv, RequestsKnown, KnownAt, Known
<1>9. CacheableAt(c)'
  BY <1>1, <1>2 DEF IInv, CacheableOnly, CacheableAt, Storable
<1>10. InHandAt(c)'
  BY <1>1, <1>2 DEF IInv, InHand, InHandAt
<1>11. ComingAt(c)'
  BY <1>1, <1>2 DEF IInv, ReplyComing, ComingAt
<1> QED BY <1>4, <1>5, <1>6, <1>7, <1>8, <1>9, <1>10, <1>11, OnlyAt

\* MySQL closes: no reply is to come any more.
LEMMA RemoteClosePreserves ==
  ASSUME IInv, NEW c \in Conns, RemoteClose(c) PROVE IInv'
<1> USE SessionAssumption, AssistantAssumption
<1>1. /\ remoteUp' = [remoteUp EXCEPT ![c] = FALSE]
      /\ UNCHANGED <<proc, conn, clientUp, reqs, answered, executed, inbox, hit, data,
                     cachedBuf, fromRemote, toClient, toProxy, toRemote, rbuf, chan,
                     ctx, newCtx, cachedCtx, handler, c2r, r2c>>
      /\ UNCHANGED <<tasks, logs, batch, redis>>
  BY DEF RemoteClose, Put, sockets, jobVars, c2rVars, r2cVars, clientVars, remoteVars,
         shared
<1>2. /\ remoteUp \in [Conns -> BOOLEAN]
  BY DEF IInv, TypeOK, SessionTypeOK
<1>3. SessionTypeOK'
  <2>1. remoteUp' \in [Conns -> BOOLEAN]
    BY <1>1, <1>2
  <2> QED BY <1>1, <2>1 DEF IInv, TypeOK, SessionTypeOK
<1>4. JobsTypeOK'
  BY <1>1 DEF IInv, TypeOK, JobsTypeOK
<1>5. \A d \in Conns : Len(chan'[d]) <= 1
  BY <1>1 DEF IInv, TypeOK
<1>6. \A d \in Conns : d # c => Local(d)' = Local(d)
  BY <1>1, <1>2 DEF Local
<1>7. KnownAt(c)'
  BY <1>1, <1>2 DEF IInv, RequestsKnown, KnownAt, Known
<1>8. CacheableAt(c)'
  BY <1>1, <1>2 DEF IInv, CacheableOnly, CacheableAt, Storable
<1>9. InHandAt(c)'
  BY <1>1, <1>2 DEF IInv, InHand, InHandAt
<1>10. ComingAt(c)'
  BY <1>1, <1>2 DEF IInv, ReplyComing, ComingAt
<1> QED BY <1>3, <1>4, <1>5, <1>6, <1>7, <1>8, <1>9, <1>10, OnlyAt

\* A connection is accepted: the greeting is on its way.
LEMMA AcceptPreserves ==
  ASSUME IInv, NEW c \in Conns, Accept(c) PROVE IInv'
<1> USE SessionAssumption, AssistantAssumption
<1>1. /\ \/ fromRemote' = [fromRemote EXCEPT ![c] = Reply(c, 0)]
         \/ conn' = [conn EXCEPT ![c] = "closed"]
         \/ conn' = conn /\ fromRemote' = fromRemote
      /\ proc' = proc \/ proc' = "redis_unwrap"
      /\ conn' = conn \/ conn' = [conn EXCEPT ![c] = "open"]
         \/ conn' = [conn EXCEPT ![c] = "closed"]
      /\ fromRemote' = fromRemote
         \/ fromRemote' = [fromRemote EXCEPT ![c] = Reply(c, 0)]
      /\ UNCHANGED <<clientUp, remoteUp, reqs, answered, executed, inbox, hit, data,
                     cachedBuf, toClient, toProxy, toRemote, rbuf, chan, ctx, newCtx,
                     cachedCtx, handler, c2r, r2c>>
      /\ UNCHANGED <<tasks, logs, batch, redis>>
  BY DEF Accept, Put, Close, sockets, jobVars, c2rVars, r2cVars, clientVars, remoteVars,
         shared
<1>2. /\ proc \in {"up", "redis_unwrap", "write_expect", "short_read"}
      /\ conn \in [Conns -> {"new", "open", "closed"}]
      /\ fromRemote \in [Conns -> Seq(PartSet)]
  BY DEF IInv, TypeOK, SessionTypeOK
<1>3. Reply(c, 0) \in Seq(PartSet) /\ Reply(c, 0) # <<>>
  BY ReplyType DEF IInv, TypeOK
<1>4. SessionTypeOK'
  <2>1. proc' \in {"up", "redis_unwrap", "write_expect", "short_read"}
    BY <1>1, <1>2, <1>3
  <2>2. conn' \in [Conns -> {"new", "open", "closed"}]
    BY <1>1, <1>2, <1>3
  <2>3. fromRemote' \in [Conns -> Seq(PartSet)]
    BY <1>1, <1>2, <1>3
  <2> QED BY <1>1, <2>1, <2>2, <2>3 DEF IInv, TypeOK, SessionTypeOK
<1>5. JobsTypeOK'
  BY <1>1 DEF IInv, TypeOK, JobsTypeOK
<1>6. \A d \in Conns : Len(chan'[d]) <= 1
  BY <1>1 DEF IInv, TypeOK
<1>7. \A d \in Conns : d # c => Local(d)' = Local(d)
  BY <1>1, <1>2 DEF Local
<1>8. KnownAt(c)'
  BY <1>1, <1>2 DEF IInv, RequestsKnown, KnownAt, Known
<1>9. CacheableAt(c)'
  BY <1>1, <1>2 DEF IInv, CacheableOnly, CacheableAt, Storable
<1>10. InHandAt(c)'
  BY <1>1, <1>2 DEF IInv, InHand, InHandAt
<1>11. ComingAt(c)'
  BY <1>1, <1>2, <1>3 DEF IInv, ReplyComing, ComingAt
<1> QED BY <1>4, <1>5, <1>6, <1>7, <1>8, <1>9, <1>10, <1>11, OnlyAt

\* MySQL takes a packet: its reply, if it has one, is on its way.
LEMMA RemoteExecPreserves ==
  ASSUME IInv, NEW c \in Conns, RemoteExec(c) PROVE IInv'
<1> USE SessionAssumption, AssistantAssumption
<1>1. /\ toRemote[c] # <<>>
      /\ IsPrefix(NextPacket(c), toRemote[c])
      /\ \/ reqs[c][toRemote[c][1].n] \in Mute /\ fromRemote' = fromRemote
         \/ remoteUp' = [remoteUp EXCEPT ![c] = FALSE]
         \/ fromRemote' = [fromRemote EXCEPT ![c] = fromRemote[c] \o Reply(c, toRemote[c][1].n)]
      /\ remoteUp' = remoteUp \/ remoteUp' = [remoteUp EXCEPT ![c] = FALSE]
      /\ executed' = [executed EXCEPT ![c] = executed[c] \cup {toRemote[c][1].n}]
      /\ fromRemote' = fromRemote
         \/ fromRemote' = [fromRemote EXCEPT ![c] = fromRemote[c] \o Reply(c, toRemote[c][1].n)]
      /\ toRemote' = [toRemote EXCEPT ![c] = SubSeq(toRemote[c], Len(NextPacket(c)) + 1, Len(toRemote[c]))]
      /\ UNCHANGED <<proc, conn, clientUp, reqs, answered, inbox, hit, data, cachedBuf,
                     toClient, toProxy, rbuf, chan, ctx, newCtx, cachedCtx, handler,
                     c2r, r2c>>
      /\ UNCHANGED <<tasks, logs, batch, redis>>
  BY DEF RemoteExec, Put, sockets, jobVars, c2rVars, r2cVars, clientVars, remoteVars,
         shared
<1>2. /\ remoteUp \in [Conns -> BOOLEAN]
      /\ reqs \in [Conns -> Seq(Stmts)]
      /\ executed \in [Conns -> SUBSET Nat]
      /\ fromRemote \in [Conns -> Seq(PartSet)]
      /\ toRemote \in [Conns -> Seq(Units)]
  BY DEF IInv, TypeOK, SessionTypeOK
<1>3. toRemote[c] \in Seq(Units) /\ fromRemote[c] \in Seq(PartSet) /\ reqs[c] \in Seq(Stmts)
  BY <1>2
<1>4. 1 \in DOMAIN toRemote[c] /\ toRemote[c][1] \in Units
  BY <1>1, <1>3
<1>5. toRemote[c][1].n \in Nat /\ toRemote[c][1].n \in DOMAIN reqs[c]
  BY <1>4 DEF IInv, RequestsKnown, KnownAt, Known, Units
<1>6. /\ Reply(c, toRemote[c][1].n) \in Seq(PartSet)
      /\ Reply(c, toRemote[c][1].n) # <<>>
  BY <1>5, ReplyType DEF IInv, TypeOK
<1>7. /\ fromRemote[c] \o Reply(c, toRemote[c][1].n) \in Seq(PartSet)
      /\ fromRemote[c] \o Reply(c, toRemote[c][1].n) # <<>>
  BY <1>3, <1>6
<1>8. /\ Len(NextPacket(c)) \in 1 .. Len(toRemote[c])
      /\ \A j \in 1 .. Len(NextPacket(c)) : toRemote[c][j].n = toRemote[c][1].n
  BY <1>1, <1>3, <1>4, <1>5, PacketPrefix DEF IInv, TypeOK
<1>9. SubSeq(toRemote[c], Len(NextPacket(c)) + 1, Len(toRemote[c])) \in Seq(Units)
  BY <1>3, <1>8, ReadSplit
<1>10. /\ toRemote'[c] = SubSeq(toRemote[c], Len(NextPacket(c)) + 1, Len(toRemote[c]))
       /\ fromRemote[c] # <<>> => fromRemote'[c] # <<>>
       /\ chan'[c] = chan[c] /\ reqs'[c] = reqs[c] /\ conn'[c] = conn[c]
       /\ remoteUp'[c] => remoteUp[c]
  <2>1. toRemote'[c] = SubSeq(toRemote[c], Len(NextPacket(c)) + 1, Len(toRemote[c]))
    BY <1>1, <1>2
  <2>2. fromRemote[c] # <<>> => fromRemote'[c] # <<>>
    BY <1>1, <1>2, <1>3, <1>7
  <2>3. chan'[c] = chan[c] /\ reqs'[c] = reqs[c] /\ conn'[c] = conn[c]
    BY <1>1
  <2>4. remoteUp'[c] => remoteUp[c]
    BY <1>1, <1>2, <1>3
  <2> QED BY <2>1, <2>2, <2>3, <2>4
<1>11. \/ reqs[c][toRemote[c][1].n] \in Mute \/ ~remoteUp'[c] \/ fromRemote'[c] # <<>>
  BY <1>1, <1>2, <1>7
<1>12. Known(c, SubSeq(toRemote[c], Len(NextPacket(c)) + 1, Len(toRemote[c])))
  BY <1>3, <1>8, ReadSplit DEF IInv, RequestsKnown, KnownAt, Known
<1>13. SessionTypeOK'
  <2>1. remoteUp' \in [Conns -> BOOLEAN]
    BY <1>1, <1>2, <1>5, <1>7, <1>9
  <2>2. executed' \in [Conns -> SUBSET Nat]
    BY <1>1, <1>2, <1>5, <1>7, <1>9
  <2>3. fromRemote' \in [Conns -> Seq(PartSet)]
    BY <1>1, <1>2, <1>5, <1>7, <1>9
  <2>4. toRemote' \in [Conns -> Seq(Units)]
    BY <1>1, <1>2, <1>5, <1>7, <1>9
  <2> QED BY <1>1, <2>1, <2>2, <2>3, <2>4 DEF IInv, TypeOK, SessionTypeOK
<1>14. JobsTypeOK'
  BY <1>1 DEF IInv, TypeOK, JobsTypeOK
<1>15. \A d \in Conns : Len(chan'[d]) <= 1
  BY <1>1 DEF IInv, TypeOK
<1>16. \A d \in Conns : d # c => Local(d)' = Local(d)
  BY <1>1, <1>2 DEF Local
<1>17. KnownAt(c)'
  BY <1>1, <1>10, <1>12 DEF IInv, RequestsKnown, KnownAt, Known
<1>18. CacheableAt(c)'
  BY <1>1, <1>2 DEF IInv, CacheableOnly, CacheableAt, Storable
<1>19. InHandAt(c)'
  BY <1>1, <1>2 DEF IInv, InHand, InHandAt
<1>20. ComingAt(c)'
  <2>1. SUFFICES ASSUME NEW i \in DOMAIN chan[c], conn[c] = "open", remoteUp'[c],
                        reqs[c][chan[c][i].n] \notin Mute, fromRemote'[c] = <<>>
                 PROVE \/ c2r[c] = "write" /\ Has(rbuf[c], chan[c][i].n)
                       \/ Has(toRemote'[c], chan[c][i].n)
    BY <1>1, <1>10 DEF ComingAt
  <2>2. \/ c2r[c] = "write" /\ Has(rbuf[c], chan[c][i].n)
        \/ Has(toRemote[c], chan[c][i].n)
    BY <2>1, <1>10 DEF IInv, ReplyComing, ComingAt
  <2>3. chan[c][i].n # toRemote[c][1].n
    BY <2>1, <1>11
  <2>4. Has(toRemote[c], chan[c][i].n) => Has(toRemote'[c], chan[c][i].n)
    <3>1. SUFFICES ASSUME Has(toRemote[c], chan[c][i].n)
                   PROVE Has(toRemote'[c], chan[c][i].n)
      OBVIOUS
    <3>2. toRemote[c] \in Seq(Units) /\ Len(NextPacket(c)) \in 1 .. Len(toRemote[c])
      BY <1>3, <1>8
    <3>3. \A j \in 1 .. Len(NextPacket(c)) : toRemote[c][j].n # chan[c][i].n
      BY <1>8, <2>3
    <3>4. Has(SubSeq(toRemote[c], Len(NextPacket(c)) + 1, Len(toRemote[c])), chan[c][i].n)
      BY <3>1, <3>2, <3>3, HasLeft
    <3> QED BY <1>10, <3>4
  <2> QED BY <2>2, <2>4
<1> QED BY <1>13, <1>14, <1>15, <1>16, <1>17, <1>18, <1>19, <1>20, OnlyAt

\* What the jobs move between the queues and redis keeps its type.
LEMMA JobsTyped ==
  ASSUME JobsTypeOK, AssistantNext PROVE JobsTypeOK'
<1> DEFINE TaskSet == [key : Keys, body : Seq(PartSet)]
           LogSet  == Logs
<1>1. /\ tasks \in Seq(TaskSet) /\ logs \in Seq(LogSet) /\ batch \in Seq(LogSet)
      /\ redis \in [Keys -> Seq(PartSet)]
  BY DEF JobsTypeOK
<1>2. <<>> \in Seq(LogSet) /\ <<>> \in Seq(PartSet)
  OBVIOUS
<1>3. CASE CacheTaskJob
  <2>1. /\ tasks # <<>> /\ tasks' = Tail(tasks) /\ UNCHANGED <<logs, batch>>
        /\ \/ redis' = [redis EXCEPT ![Head(tasks).key] = Head(tasks).body]
           \/ UNCHANGED redis
    BY <1>3 DEF CacheTaskJob
  <2>2. Head(tasks) \in TaskSet /\ Tail(tasks) \in Seq(TaskSet)
    BY <1>1, <2>1, HeadTailProperties
  <2>3. redis' \in [Keys -> Seq(PartSet)]
    BY <1>1, <2>1, <2>2
  <2> QED BY <1>1, <2>1, <2>2, <2>3 DEF JobsTypeOK
<1>4. CASE MetricsTick
  BY <1>1, <1>2, <1>4 DEF MetricsTick, JobsTypeOK
<1>5. CASE RegisterDone
  BY <1>1, <1>2, <1>5 DEF RegisterDone, JobsTypeOK
<1>6. CASE \E k \in Keys : RedisExpire(k)
  BY <1>1, <1>2, <1>6 DEF RedisExpire, JobsTypeOK
<1> QED BY <1>3, <1>4, <1>5, <1>6 DEF AssistantNext

\* A step that leaves the sessions alone.
LEMMA SessionsAlone ==
  ASSUME IInv, UNCHANGED <<proc, sessionVars>>, JobsTypeOK' PROVE IInv'
<1>1. UNCHANGED <<proc, conn, clientUp, remoteUp, reqs, answered, executed, inbox, hit,
                  data, cachedBuf, fromRemote, toClient, toProxy, toRemote, rbuf, chan,
                  ctx, newCtx, cachedCtx, handler, c2r, r2c>>
  BY DEF sessionVars, sockets, c2rVars, r2cVars, clientVars, remoteVars, shared
<1>2. TypeOK'
  BY <1>1 DEF IInv, TypeOK, SessionTypeOK
<1>3. RequestsKnown'
  BY <1>1 DEF IInv, RequestsKnown, KnownAt, Known
<1>4. CacheableOnly'
  BY <1>1 DEF IInv, CacheableOnly, CacheableAt, Storable
<1>5. InHand'
  BY <1>1 DEF IInv, InHand, InHandAt
<1>6. ReplyComing'
  BY <1>1 DEF IInv, ReplyComing, ComingAt, Has
<1> QED BY <1>2, <1>3, <1>4, <1>5, <1>6 DEF IInv

\* A step of the background jobs or of redis.
LEMMA JobsPreserve == IInv /\ Jobs => IInv'
<1> SUFFICES ASSUME IInv, Jobs PROVE IInv'
  OBVIOUS
<1>1. AssistantNext /\ UNCHANGED <<proc, sessionVars>>
  BY DEF Jobs
<1>2. JobsTypeOK'
  BY <1>1, JobsTyped DEF IInv, TypeOK
<1> QED BY <1>1, <1>2, SessionsAlone

\* A step that changes nothing.
LEMMA StutterPreserves == IInv /\ UNCHANGED vars => IInv'
<1> SUFFICES ASSUME IInv, UNCHANGED vars PROVE IInv'
  OBVIOUS
<1>1. UNCHANGED <<proc, sessionVars>> /\ UNCHANGED <<tasks, logs, batch, redis>>
  BY DEF vars, jobVars
<1>2. JobsTypeOK'
  BY <1>1 DEF IInv, TypeOK, JobsTypeOK
<1> QED BY <1>1, <1>2, SessionsAlone

\* The invariant holds before the first connection is accepted.
LEMMA InitIInv == Init => IInv
<1> SUFFICES ASSUME Init PROVE IInv
  OBVIOUS
<1> USE DEF Init, Empty
<1>1. /\ <<>> \in Seq(PartSet) /\ <<>> \in Seq(Units) /\ <<>> \in Seq(Ctxs)
      /\ <<>> \in Seq(Stmts) /\ Len(<<>>) = 0 /\ NoCtx \in Ctxs
  BY EmptySeq DEF NoCtx, NewCtx, Ctxs
<1>2. Empty \in [Conns -> Seq(PartSet)] /\ Empty \in [Conns -> Seq(Units)]
  BY <1>1
<1>3. Empty \in [Conns -> Seq(Ctxs)] /\ Empty \in [Conns -> Seq(Stmts)]
  BY <1>1
<1>4. [c \in Conns |-> NoCtx] \in [Conns -> Ctxs]
  BY <1>1
<1>5. SessionTypeOK
  BY <1>2, <1>3, <1>4 DEF SessionTypeOK
<1>6. JobsTypeOK
  BY <1>1 DEF AssistantInit, JobsTypeOK
<1>7. \A c \in Conns : Len(chan[c]) <= 1 /\ chan[c] = <<>>
  BY <1>1
<1>8. \A c \in Conns : KnownAt(c)
  BY DEF KnownAt, Known
<1>9. \A c \in Conns : CacheableAt(c)
  BY <1>7 DEF CacheableAt, Storable, NoCtx, NewCtx
<1>10. \A c \in Conns : InHandAt(c) /\ ComingAt(c)
  BY <1>7 DEF InHandAt, ComingAt
<1> QED BY <1>5, <1>6, <1>7, <1>8, <1>9, <1>10
        DEF IInv, TypeOK, RequestsKnown, CacheableOnly, InHand, ReplyComing

\* IInv is inductive.
LEMMA NextPreserves == IInv /\ [Next]_vars => IInv'
<1> SUFFICES ASSUME IInv, [Next]_vars PROVE IInv'
  OBVIOUS
<1>1. ASSUME NEW c \in Conns, C2R(c) PROVE IInv'
  BY <1>1, C2RReadPreserves, C2RShortPreserves, C2REofPreserves, C2RRawPreserves, C2RRequestPreserves,
     C2RExistsPreserves, C2RGetPreserves, C2RReplyPreserves, C2RLogPreserves,
     C2RSendPreserves, C2RWritePreserves DEF C2R
<1>2. ASSUME NEW c \in Conns, R2C(c) PROVE IInv'
  BY <1>2, R2CReadPreserves, R2CEofPreserves, R2CFinishPreserves, R2CTaskPreserves,
     R2CLogPreserves, R2CRespondPreserves, R2CWritePreserves DEF R2C
<1>3. ASSUME NEW c \in Conns, Client(c) PROVE IInv'
  BY <1>3, ClientSendPreserves, ClientRecvPreserves, ClientClosePreserves DEF Client
<1>4. ASSUME NEW c \in Conns, Remote(c) PROVE IInv'
  BY <1>4, RemoteExecPreserves, RemoteClosePreserves DEF Remote
<1>5. ASSUME NEW c \in Conns, Accept(c) PROVE IInv'
  BY <1>5, AcceptPreserves
<1>6. CASE Jobs
  BY <1>6, JobsPreserve
<1>7. CASE Terminated \/ UNCHANGED vars
  BY <1>7, StutterPreserves DEF Terminated
<1> QED BY <1>1, <1>2, <1>3, <1>4, <1>5, <1>6, <1>7 DEF Next

\* Every variable keeps its type and the context channel never holds two
\* contexts, whatever the interleaving of the two halves (serve/mod.rs:74-230).
THEOREM TypeCorrect == Spec => []TypeOK
<1>1. IInv => TypeOK
  BY DEF IInv
<1> QED BY <1>1, InitIInv, NextPreserves, PTL DEF Spec

\* If MySQL waits for the rest of a packet, all it has is of that request.
LEMMA UnfinishedPacket ==
  ASSUME IInv, NEW c \in Conns, NEW n, Has(toRemote[c], n), Unfinished(c)
  PROVE n \in DOMAIN reqs[c] /\ Len(Frames[reqs[c][n]]) > 1
<1> DEFINE p == NextPacket(c)
           us == toRemote[c]
<1>1. us \in Seq(Units)
  BY DEF IInv, TypeOK, SessionTypeOK
<1>2. PICK j \in DOMAIN us : us[j].n = n
  BY DEF Has
<1>3. us # <<>> /\ j \in 1 .. Len(us) /\ Len(us) \in Nat
  BY <1>1, <1>2
<1>4. 1 \in DOMAIN us
  BY <1>1, <1>3
<1>5. us[1].n \in DOMAIN reqs[c]
  BY <1>4 DEF IInv, RequestsKnown, KnownAt, Known
<1>6. /\ p \in Seq(Units) /\ Len(p) = Len(Frames[reqs[c][us[1].n]])
      /\ \A i \in DOMAIN p : p[i].n = us[1].n
  BY <1>5, PacketUnits DEF IInv, TypeOK, NextPacket
<1>7. us # p /\ Len(us) <= Len(p) /\ SubSeq(us, 1, Len(us)) = SubSeq(p, 1, Len(us))
  BY <1>3 DEF Unfinished, IsStrictPrefix, IsPrefix
<1>8. \A i \in 1 .. Len(us) : us[i] = p[i]
  <2>1. ASSUME NEW i \in 1 .. Len(us)
        PROVE SubSeq(us, 1, Len(us))[i] = us[i] /\ SubSeq(p, 1, Len(us))[i] = p[i]
    BY <1>1, <1>3, <1>6, <1>7
  <2> QED BY <1>7, <2>1
<1>9. Len(us) # Len(p)
  BY <1>1, <1>6, <1>7, <1>8, SeqEqual
<1>10. us[j].n = us[1].n
  <2>1. j \in DOMAIN p
    BY <1>3, <1>6, <1>7
  <2> QED BY <1>3, <1>6, <1>8, <2>1
<1>11. Len(p) > 1
  BY <1>3, <1>6, <1>7, <1>9
<1> QED BY <1>2, <1>5, <1>6, <1>10, <1>11

\* A session never starves on a command whose reply is still to come: behind the
\* capacity-one channel (serve/mod.rs:118) the reply that empties it is under way.
THEOREM StarvationFree == Spec => []StarvedOnlyByMute
<1>1. IInv => StarvedOnlyByMute
  <2> SUFFICES ASSUME IInv, NEW c \in Conns, Starved(c)
               PROVE \/ reqs[c][Head(chan[c]).n] \in Mute
                     \/ Len(Frames[reqs[c][Head(chan[c]).n]]) > 1
    BY DEF StarvedOnlyByMute
  <2>1. /\ conn[c] = "open" /\ remoteUp[c] /\ c2r[c] = "send" /\ chan[c] # <<>>
        /\ fromRemote[c] = <<>> /\ Unfinished(c)
    BY DEF Starved
  <2>2. 1 \in DOMAIN chan[c] /\ Head(chan[c]) = chan[c][1]
    <3>1. chan[c] \in Seq(Ctxs) /\ Len(chan[c]) <= 1
      BY DEF IInv, TypeOK, SessionTypeOK
    <3> QED BY <2>1, <3>1, AtMostOne
  <2>3. reqs[c][chan[c][1].n] \in Mute \/ Has(toRemote[c], chan[c][1].n)
    BY <2>1, <2>2 DEF IInv, ReplyComing, ComingAt
  <2> QED BY <2>1, <2>2, <2>3, UnfinishedPacket
<1> QED BY <1>1, InitIInv, NextPreserves, PTL DEF Spec
=============================================================================
