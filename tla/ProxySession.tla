---------------------------- MODULE ProxySession ----------------------------
(***************************************************************************)
(* The sessions of the proxy: handle_client and VirtDBConnectionHandler    *)
(* (server/src/serve/mod.rs), the accept loop (server/src/server.rs), and, *)
(* as their environment, the MySQL clients and the MySQL server behind the *)
(* proxy.                                                                  *)
(*                                                                         *)
(* A session is ONE task that polls two futures under tokio::select!:      *)
(*   client_to_remote (variable c2r is its program counter)                *)
(*   remote_to_client (variable r2c)                                       *)
(* They switch only at an .await, so an action is the code between two     *)
(* awaits.  They share a context channel of capacity one, the client-writer*)
(* mutex (c2r holds it at "log", r2c within R2CWrite), and the handler     *)
(* mutex conn_handler.  tokio's mutex is fair: lock().await takes it or    *)
(* queues, and a release hands it to the half that queues.                 *)
(*                                                                         *)
(* Bytes are abstracted to pieces of the size of one read.  A request is   *)
(* the sequence of units [n |-> number of the request, i |-> piece]; a     *)
(* reply is the sequence of parts [c, n, i]: the i-th part of the server's *)
(* reply to the n-th request of connection c.  Request 0 is no request:    *)
(* its reply is the greeting the server sends first.                       *)
(***************************************************************************)
EXTENDS Assistant, SequencesExt

CONSTANTS
  Conns,      \* client connections
  Stmts,      \* what a client may send, each standing for one packet
  Login,      \* the handshake response, always the first request
  NoStmt,     \* no text, or text that matches no rule and has no pattern
  Scraps,     \* Scraps[s]: the other texts a read that starts with bytes of s
              \*   can have when it is not exactly the packet of s
  Frames,     \* Frames[s][i]: what Packet::packet_type says of a buffer that
              \*   starts with the i-th unit of s (the type is at offset 4)
  Parts,      \* number of parts of the reply
  Cacheable,  \* texts of SELECTs that a row of cache_config can match
  Loggable,   \* texts for which sql_to_pattern is Some
  Mute,       \* commands MySQL never answers (COM_STMT_CLOSE, ...)
  Quits,      \* commands on which MySQL closes the connection (COM_QUIT)
  LookupKey,  \* cache:"..." of the text without comments (serve/mod.rs:314)
  StoreKey,   \* cache:{:?} of the whole text (sys_assistant_client.rs:169)
  ReadMax,    \* BUFFER_SIZE, in units
  RemoteCap,  \* units the socket to MySQL buffers
  RespCap,    \* parts the socket from MySQL buffers while MySQL still reads
  MaxReqs,    \* bound: requests per connection
  Window      \* how many requests a client leaves unanswered at a time

FrameTypes == {"ComQuery", "ComOther", "Invalid"}

Texts == Stmts \cup UNION {Scraps[s] : s \in Stmts}

ASSUME SessionAssumption ==
  /\ Login \in Stmts /\ NoStmt \notin Texts
  /\ DOMAIN Scraps = Stmts
  /\ Frames \in [Stmts -> Seq(FrameTypes) \ {<<>>}]
  /\ Parts \in [Stmts -> Nat \ {0}]
  /\ Cacheable \subseteq Texts /\ Loggable \subseteq Texts
  /\ Mute \subseteq Stmts /\ Quits \subseteq Stmts
  /\ LookupKey \in [Texts -> Keys] /\ StoreKey \in [Texts -> Keys]
  /\ {ReadMax, RemoteCap} \subseteq Nat \ {0}
  /\ {RespCap, MaxReqs} \subseteq Nat
  /\ Window \in Nat \ {0}

\* What MySQL's side of the socket buffers has room for a whole packet.
ASSUME PacketFits == \A s \in Stmts : Len(Frames[s]) <= RemoteCap

VARIABLES
  proc,        \* "up", or the panic that has aborted the process
  conn,        \* conn[c]: "new", "open", "closed"
  clientUp,    \* has the client not closed its socket?
  remoteUp,    \* has MySQL not closed its socket?
  reqs,        \* the statements the client has sent
  answered,    \* whole replies the client has read, the greeting included
  inbox,       \* parts of the reply the client is reading
  executed,    \* the requests MySQL has executed
  toProxy, toRemote, fromRemote, toClient,  \* the four socket directions
  chan,        \* the context channel: mpsc::channel(1)
  handler,     \* who holds conn_handler: "c2r", "r2c" or "free"
  c2r, rbuf, ctx, hit,                      \* locals of client_to_remote
  r2c, data, newCtx, cachedCtx, cachedBuf   \* locals of remote_to_client

clientVars == <<clientUp, reqs, answered, inbox>>
remoteVars == <<remoteUp, executed>>
c2rVars    == <<c2r, rbuf, ctx, hit>>
r2cVars    == <<r2c, data, newCtx, cachedCtx, cachedBuf>>
sockets    == <<toProxy, toRemote, fromRemote, toClient>>
shared     == <<chan, handler>>
sessionVars == <<conn, clientVars, remoteVars, c2rVars, r2cVars, sockets, shared>>
vars == <<proc, sessionVars, jobVars>>
-----------------------------------------------------------------------------
(***************************************************************************)
(* Units, texts and replies.                                               *)
(***************************************************************************)
Packet(c, n) == [i \in DOMAIN Frames[reqs[c][n]] |-> [n |-> n, i |-> i]]

Reply(c, n) ==
  [i \in 1 .. (IF n = 0 THEN 1 ELSE Parts[reqs[c][n]]) |->
     [c |-> c, n |-> n, i |-> i]]

PacketType(c, us) == Frames[reqs[c][us[1].n]][us[1].i]

\* String::from_utf8(data[5..n]), matched against the rules, looked up, stored
\* and recorded whether or not the read is one packet.  A piece of s may be a
\* statement too (cut in 'WHERE x = 123', or before a UNION), and so may several
\* packets in one read, when a '--' comment of the first swallows the others.
TextsOf(c, us) ==
  LET s == reqs[c][us[1].n]
  IN IF us = Packet(c, us[1].n) THEN {s} ELSE {NoStmt} \cup Scraps[s]

\* A context stands for the read that starts with unit i of request n.
NewCtx(u, text) == [n |-> u.n, i |-> u.i, sql |-> text,
                    should_update_cache |-> FALSE, from_cache |-> FALSE]

NoCtx == NewCtx([n |-> 0, i |-> 0], NoStmt)

Log(c, x) == [c |-> c, n |-> x.n, i |-> x.i, from_cache |-> x.from_cache]

Task(x, body) == [key |-> StoreKey[x.sql], body |-> body]

\* lock().await by one half, and the end of the scope of the guard.
Lock(c, half) ==
  handler' = IF handler[c] = "free" THEN [handler EXCEPT ![c] = half] ELSE handler

Unlock(c, other, queues) ==
  handler' = [handler EXCEPT ![c] = IF queues THEN other ELSE "free"]

C2RQueues(c) == c2r[c] = "lock"
R2CQueues(c) == r2c[c] \in {"finish", "respond"}

At(c, pc, label) == proc = "up" /\ conn[c] = "open" /\ pc[c] = label

Close(c) == conn' = [conn EXCEPT ![c] = "closed"]

Put(f, c, v) == [f EXCEPT ![c] = v]
-----------------------------------------------------------------------------
(***************************************************************************)
(* The accept loop.  Without redis the unwrap() of get_async_connection    *)
(* panics, and panic = 'abort'; without MySQL the session just ends.       *)
(***************************************************************************)
Accept(c) ==
  /\ proc = "up"
  /\ conn[c] = "new"
  /\ \/ conn' = Put(conn, c, "open")
        /\ fromRemote' = Put(fromRemote, c, Reply(c, 0))
        /\ UNCHANGED proc
     \/ "backend" \in Faults /\ Close(c) /\ UNCHANGED <<proc, fromRemote>>
     \/ "redis" \in Faults /\ proc' = "redis_unwrap" /\ UNCHANGED <<conn, fromRemote>>
  /\ UNCHANGED <<clientVars, remoteVars, c2rVars, r2cVars, toProxy, toRemote,
                 toClient, shared, jobVars>>
-----------------------------------------------------------------------------
(***************************************************************************)
(* client_to_remote                                                        *)
(***************************************************************************)
\* read_buf returned n > 0.  The buffer was cleared, unless the previous
\* packet was one packet_type() rejects.
C2RRead(c) ==
  /\ At(c, c2r, "read")
  /\ \E k \in 1 .. Len(toProxy[c]) :
       LET us == rbuf[c] \o SubSeq(toProxy[c], 1, k)
           invalid == PacketType(c, us) = "Invalid"
       IN /\ Len(us) <= ReadMax
          /\ rbuf' = Put(rbuf, c, us)
          /\ IF invalid THEN UNCHANGED ctx
             ELSE \E text \in TextsOf(c, us) : ctx' = Put(ctx, c, NewCtx(us[1], text))
          /\ c2r' = Put(c2r, c, IF invalid THEN "raw" ELSE "lock")
          /\ IF invalid THEN UNCHANGED handler ELSE Lock(c, "c2r")
          /\ toProxy' = Put(toProxy, c, SubSeq(toProxy[c], k + 1, Len(toProxy[c])))
  /\ UNCHANGED <<proc, conn, clientVars, remoteVars, hit, r2cVars, toRemote,
                 fromRemote, toClient, chan, jobVars>>

\* A read of fewer bytes than a packet's header and type: bytes[4] or data[5..n]
\* is out of range, and the panic aborts the process.
C2RShort(c) ==
  /\ At(c, c2r, "read")
  /\ "short" \in Faults
  /\ toProxy[c] # <<>> /\ Len(rbuf[c]) < ReadMax
  /\ proc' = "short_read"
  /\ UNCHANGED <<sessionVars, jobVars>>

\* read_buf returned 0: the client has closed, or the buffer has no room.
C2REof(c) ==
  /\ At(c, c2r, "read")
  /\ Len(rbuf[c]) = ReadMax \/ (~clientUp[c] /\ toProxy[c] = <<>>)
  /\ Close(c)
  /\ UNCHANGED <<proc, clientVars, remoteVars, c2rVars, r2cVars, sockets, shared, jobVars>>

\* remote_writer.write_all(data).await?  It waits while the socket has no
\* room; on an error the session ends.
Sent(c) ==
  /\ Len(toRemote[c]) < RemoteCap
  /\ toRemote' = Put(toRemote, c, toRemote[c] \o rbuf[c])

\* A packet that packet_type() rejects: forwarded, and the buffer is kept.
C2RRaw(c) ==
  /\ At(c, c2r, "raw")
  /\ \/ Sent(c) /\ c2r' = Put(c2r, c, "read") /\ UNCHANGED conn
     \/ ~remoteUp[c] /\ Close(c) /\ UNCHANGED <<c2r, toRemote>>
  /\ UNCHANGED <<proc, clientVars, remoteVars, rbuf, ctx, hit, r2cVars, toProxy,
                 fromRemote, toClient, shared, jobVars>>

\* conn_handler is locked: handle_request up to its first redis call.  The
\* rules of cache_config are refreshed concurrently: a SELECT one of them can
\* match may or may not match now.
C2RRequest(c) ==
  /\ At(c, c2r, "lock")
  /\ handler[c] = "c2r"
  /\ \/ c2r' = Put(c2r, c, "send")
     \/ /\ PacketType(c, rbuf[c]) = "ComQuery"
        /\ ctx[c].sql \in Cacheable
        /\ c2r' = Put(c2r, c, "exists")
  /\ UNCHANGED <<proc, conn, clientVars, remoteVars, rbuf, ctx, hit, r2cVars,
                 sockets, shared, jobVars>>

Cached(c) == redis[LookupKey[ctx[c].sql]]

\* EXISTS: an error, a miss (this reply will be stored) or a hit.
C2RExists(c) ==
  /\ At(c, c2r, "exists")
  /\ \/ "redis" \in Faults /\ c2r' = Put(c2r, c, "send") /\ UNCHANGED ctx
     \/ /\ Cached(c) = <<>>
        /\ c2r' = Put(c2r, c, "send")
        /\ ctx' = [ctx EXCEPT ![c].should_update_cache = TRUE]
     \/ Cached(c) # <<>> /\ c2r' = Put(c2r, c, "get") /\ UNCHANGED ctx
  /\ UNCHANGED <<proc, conn, clientVars, remoteVars, rbuf, hit, r2cVars, sockets,
                 shared, jobVars>>

\* Mutant of Usable: cache_v is not checked for emptiness.
AnyValue(c) == TRUE

Usable(c) == Cached(c) # <<>>

\* GET: an error or an empty value (the entry has expired since EXISTS) is
\* forwarded and not stored; otherwise the value answers the client.
C2RGet(c) ==
  /\ At(c, c2r, "get")
  /\ \/ /\ ~Usable(c) \/ "redis" \in Faults
        /\ c2r' = Put(c2r, c, "send")
        /\ UNCHANGED <<ctx, hit>>
     \/ /\ Usable(c)
        /\ c2r' = Put(c2r, c, "reply")
        /\ hit' = Put(hit, c, Cached(c))
        /\ ctx' = [ctx EXCEPT ![c].from_cache = TRUE]
  /\ UNCHANGED <<proc, conn, clientVars, remoteVars, rbuf, r2cVars, sockets, shared,
                 jobVars>>

\* Mutant of NextRequest: r_buf is not cleared.
NextRequestKeeps(c) ==
  /\ c2r' = Put(c2r, c, "read")
  /\ UNCHANGED rbuf
  /\ Unlock(c, "r2c", R2CQueues(c))

\* End of the iteration: r_buf.clear(), and the guard of conn_handler drops.
NextRequest(c) ==
  /\ c2r' = Put(c2r, c, "read")
  /\ rbuf' = Put(rbuf, c, <<>>)
  /\ Unlock(c, "r2c", R2CQueues(c))

ToClient(c, parts) ==
  toClient' = IF clientUp[c] THEN Put(toClient, c, toClient[c] \o parts) ELSE toClient

\* Action::RESPONSED: the value is written to the client (a failed write is
\* only logged) and, still under both locks, the execution is logged.
C2RReply(c) ==
  /\ At(c, c2r, "reply")
  /\ ToClient(c, hit[c])
  /\ hit' = Put(hit, c, <<>>)
  /\ IF ctx[c].sql \in Loggable
     THEN c2r' = Put(c2r, c, "log") /\ UNCHANGED <<rbuf, handler>>
     ELSE NextRequest(c)
  /\ UNCHANGED <<proc, conn, clientVars, remoteVars, ctx, r2cVars, toProxy, toRemote,
                 fromRemote, chan, jobVars>>

\* Mutant of C2RLog: skip is not set, the request goes on to MySQL as well.
C2RLogFallsThrough(c) ==
  /\ At(c, c2r, "log")
  /\ SendLog(Log(c, ctx[c]))
  /\ c2r' = Put(c2r, c, "send")
  /\ UNCHANGED <<proc, conn, clientVars, remoteVars, rbuf, ctx, hit, r2cVars, sockets,
                 shared>>

C2RLog(c) ==
  /\ At(c, c2r, "log")
  /\ SendLog(Log(c, ctx[c]))
  /\ NextRequest(c)
  /\ UNCHANGED <<proc, conn, clientVars, remoteVars, ctx, hit, r2cVars, sockets, chan>>

ChanCapTwo == 2  \* mutant of ChanCap: room for two contexts
ChanCap == 1     \* mpsc::channel(1)

\* Action::FORWARD: ctx_sender.send(ctx) waits until r2c has taken the
\* previous context ...
C2RSend(c) ==
  /\ At(c, c2r, "send")
  /\ Len(chan[c]) < ChanCap
  /\ chan' = Put(chan, c, Append(chan[c], ctx[c]))
  /\ c2r' = Put(c2r, c, "write")
  /\ UNCHANGED <<proc, conn, clientVars, remoteVars, rbuf, ctx, hit, r2cVars, sockets,
                 handler, jobVars>>

\* ... and then the bytes go to MySQL, handler still locked.
C2RWrite(c) ==
  /\ At(c, c2r, "write")
  /\ \/ Sent(c) /\ NextRequest(c) /\ UNCHANGED conn
     \/ ~remoteUp[c] /\ Close(c) /\ UNCHANGED <<c2r, rbuf, toRemote, handler>>
  /\ UNCHANGED <<proc, clientVars, remoteVars, ctx, hit, r2cVars, toProxy, fromRemote,
                 toClient, chan, jobVars>>
-----------------------------------------------------------------------------
(***************************************************************************)
(* remote_to_client                                                        *)
(***************************************************************************)
\* Mutant of Takes: only the first context is taken.
TakesOnce(c) == chan[c] # <<>> /\ cachedCtx[c] = NoCtx

\* ctx_receiver.try_recv() finds a context.
Takes(c) == chan[c] # <<>>

\* A read, then ONE try_recv.  A new context first flushes the previous one;
\* the first context has none to flush, and keeps what is in cached_buf.
R2CRead(c) ==
  /\ At(c, r2c, "read")
  /\ \E k \in 1 .. Len(fromRemote[c]) :
       /\ data' = Put(data, c, SubSeq(fromRemote[c], 1, k))
       /\ fromRemote' = Put(fromRemote, c, SubSeq(fromRemote[c], k + 1, Len(fromRemote[c])))
  /\ chan' = IF Takes(c) THEN Put(chan, c, Tail(chan[c])) ELSE chan
  /\ IF Takes(c) /\ cachedCtx[c] # NoCtx
     THEN /\ newCtx' = Put(newCtx, c, Head(chan[c]))
          /\ r2c' = Put(r2c, c, "finish")
          /\ UNCHANGED <<cachedCtx, cachedBuf>>
     ELSE /\ cachedCtx' = IF Takes(c) THEN Put(cachedCtx, c, Head(chan[c])) ELSE cachedCtx
          /\ cachedBuf' = Put(cachedBuf, c, cachedBuf[c] \o data'[c])
          /\ r2c' = Put(r2c, c, IF cachedCtx'[c] = NoCtx THEN "write" ELSE "respond")
          /\ UNCHANGED newCtx
  /\ IF r2c'[c] = "write" THEN UNCHANGED handler ELSE Lock(c, "r2c")
  /\ UNCHANGED <<proc, conn, clientVars, remoteVars, c2rVars, toProxy, toRemote,
                 toClient, jobVars>>

R2CEof(c) ==
  /\ At(c, r2c, "read")
  /\ fromRemote[c] = <<>>
  /\ ~remoteUp[c]
  /\ Close(c)
  /\ UNCHANGED <<proc, clientVars, remoteVars, c2rVars, r2cVars, sockets, shared, jobVars>>

\* handle_remote_response_finished has returned: the guard drops, the context
\* and the bytes are replaced, and conn_handler is locked again.
Replace(c, context, buf) ==
  /\ cachedCtx' = Put(cachedCtx, c, context)
  /\ cachedBuf' = Put(cachedBuf, c, buf)
  /\ newCtx' = Put(newCtx, c, NoCtx)
  /\ r2c' = Put(r2c, c, "respond")
  /\ handler' = Put(handler, c, IF C2RQueues(c) THEN "c2r" ELSE "r2c")

\* Mutants of Install: cached_buf is not cleared; it is cleared after data was
\* added.
InstallKeepsBuffer(c) == Replace(c, newCtx[c], cachedBuf[c] \o data[c])
InstallSwapped(c)     == Replace(c, newCtx[c], <<>>)

\* cached_buf.clear(), the new context, cached_buf.extend_from_slice(data).
Install(c) == Replace(c, newCtx[c], data[c])

Goto(c, label) == r2c' = Put(r2c, c, label) /\ UNCHANGED <<newCtx, cachedCtx, cachedBuf>>

LogOrInstall(c) ==
  IF cachedCtx[c].sql \in Loggable THEN Goto(c, "log") /\ UNCHANGED handler
  ELSE Install(c)

\* conn_handler is locked: handle_remote_response_finished(old_ctx, ..)
R2CFinish(c) ==
  /\ At(c, r2c, "finish")
  /\ handler[c] = "r2c"
  /\ IF cachedCtx[c].should_update_cache THEN Goto(c, "task") /\ UNCHANGED handler
     ELSE LogOrInstall(c)
  /\ UNCHANGED <<proc, conn, clientVars, remoteVars, c2rVars, data, sockets, chan,
                 jobVars>>

R2CTask(c) ==
  /\ At(c, r2c, "task")
  /\ SendTask(Task(cachedCtx[c], cachedBuf[c]))
  /\ LogOrInstall(c)
  /\ UNCHANGED <<proc, conn, clientVars, remoteVars, c2rVars, data, sockets, chan>>

R2CLog(c) ==
  /\ At(c, r2c, "log")
  /\ SendLog(Log(c, cachedCtx[c]))
  /\ Install(c)
  /\ UNCHANGED <<proc, conn, clientVars, remoteVars, c2rVars, data, sockets, chan>>

\* conn_handler is locked: handle_response, which notes durations, and unlock.
R2CRespond(c) ==
  /\ At(c, r2c, "respond")
  /\ handler[c] = "r2c"
  /\ Goto(c, "write")
  /\ Unlock(c, "c2r", C2RQueues(c))
  /\ UNCHANGED <<proc, conn, clientVars, remoteVars, c2rVars, data, sockets, chan,
                 jobVars>>

\* client_writer.write_all(data).await.expect(..).  A write to a client that
\* has gone is lost, or fails, and then the process aborts.
R2CWrite(c) ==
  /\ At(c, r2c, "write")
  /\ c2r[c] # "log"                 \* c2r holds client_writer there
  /\ ToClient(c, data[c])
  /\ data' = Put(data, c, <<>>)
  /\ Goto(c, "read")
  /\ \/ UNCHANGED proc
     \/ ~clientUp[c] /\ proc' = "write_expect"
  /\ UNCHANGED <<conn, clientVars, remoteVars, c2rVars, toProxy, toRemote, fromRemote,
                 shared, jobVars>>
-----------------------------------------------------------------------------
(***************************************************************************)
(* The clients (external).  A client speaks after the greeting, starts     *)
(* with Login and waits for its answer.  With Window = 1 it then waits for *)
(* the reply to each command that has one; a larger Window is pipelining.  *)
(***************************************************************************)
Awaited(c) == {n \in DOMAIN reqs[c] : reqs[c][n] \notin Mute \cup Quits}

Outstanding(c) == 1 + Cardinality(Awaited(c)) - answered[c]

Idle(c) == Outstanding(c) = 0

ClientSend(c, s) ==
  /\ proc = "up" /\ conn[c] = "open" /\ clientUp[c]
  /\ Len(reqs[c]) < MaxReqs
  /\ (s = Login) <=> (reqs[c] = <<>>)
  /\ answered[c] >= 1 /\ (s # Login => answered[c] >= 2)
  /\ ~\E n \in DOMAIN reqs[c] : reqs[c][n] \in Quits
  /\ Outstanding(c) < Window
  /\ reqs' = Put(reqs, c, Append(reqs[c], s))
  /\ toProxy' = Put(toProxy, c, toProxy[c] \o
                  [i \in DOMAIN Frames[s] |-> [n |-> Len(reqs[c]) + 1, i |-> i]])
  /\ UNCHANGED <<proc, conn, clientUp, answered, inbox, remoteVars, c2rVars, r2cVars,
                 toRemote, fromRemote, toClient, shared, jobVars>>

\* The client reads one part; the last part of a reply completes it.
ClientRecv(c) ==
  /\ proc = "up" /\ conn[c] = "open" /\ clientUp[c]
  /\ toClient[c] # <<>>
  /\ LET p == Head(toClient[c]) IN
       IF p.i = Len(Reply(p.c, p.n))
       THEN inbox' = Put(inbox, c, <<>>) /\ answered' = Put(answered, c, answered[c] + 1)
       ELSE inbox' = Put(inbox, c, Append(inbox[c], p)) /\ UNCHANGED answered
  /\ toClient' = Put(toClient, c, Tail(toClient[c]))
  /\ UNCHANGED <<proc, conn, clientUp, reqs, remoteVars, c2rVars, r2cVars, toProxy,
                 toRemote, fromRemote, shared, jobVars>>

\* A client closes when it waits for nothing; with the fault "reset", anytime.
ClientClose(c) ==
  /\ proc = "up" /\ conn[c] = "open" /\ clientUp[c]
  /\ Idle(c) \/ "reset" \in Faults
  /\ clientUp' = Put(clientUp, c, FALSE)
  /\ inbox' = Put(inbox, c, <<>>)
  /\ toClient' = Put(toClient, c, <<>>)
  /\ UNCHANGED <<proc, conn, reqs, answered, remoteVars, c2rVars, r2cVars, toProxy,
                 toRemote, fromRemote, shared, jobVars>>
-----------------------------------------------------------------------------
(***************************************************************************)
(* MySQL (external): executes the packets of a connection in order, one at *)
(* a time, and does not read on while its replies are not taken.           *)
(***************************************************************************)
NextPacket(c) == Packet(c, toRemote[c][1].n)

RemoteExec(c) ==
  /\ proc = "up" /\ conn[c] = "open" /\ remoteUp[c]
  /\ toRemote[c] # <<>>
  /\ Len(fromRemote[c]) <= RespCap
  /\ IsPrefix(NextPacket(c), toRemote[c])
  /\ LET n == toRemote[c][1].n
         s == reqs[c][n]
     IN /\ n \notin executed[c]
        /\ executed' = Put(executed, c, executed[c] \cup {n})
        /\ toRemote' = Put(toRemote, c, SubSeq(toRemote[c], Len(NextPacket(c)) + 1,
                                               Len(toRemote[c])))
        /\ fromRemote' = IF s \in Mute \cup Quits THEN fromRemote
                         ELSE Put(fromRemote, c, fromRemote[c] \o Reply(c, n))
        /\ remoteUp' = IF s \in Quits THEN Put(remoteUp, c, FALSE) ELSE remoteUp
  /\ UNCHANGED <<proc, conn, clientVars, c2rVars, r2cVars, toProxy, toClient, shared,
                 jobVars>>

\* MySQL closes on a malformed stream and, with the fault "backend", anytime.
Malformed(c) ==
  /\ toRemote[c] # <<>>
  /\ \/ toRemote[c][1].n \in executed[c]
     \/ /\ ~IsPrefix(NextPacket(c), toRemote[c])
        /\ ~IsPrefix(toRemote[c], NextPacket(c))

RemoteClose(c) ==
  /\ proc = "up" /\ conn[c] = "open" /\ remoteUp[c]
  /\ Malformed(c) \/ "backend" \in Faults
  /\ remoteUp' = Put(remoteUp, c, FALSE)
  /\ UNCHANGED <<proc, conn, clientVars, executed, c2rVars, r2cVars, sockets, shared,
                 jobVars>>
-----------------------------------------------------------------------------
Empty == [c \in Conns |-> <<>>]

Init ==
  /\ proc = "up"
  /\ conn = [c \in Conns |-> "new"]
  /\ clientUp = [c \in Conns |-> TRUE]
  /\ remoteUp = [c \in Conns |-> TRUE]
  /\ executed = [c \in Conns |-> {}]
  /\ answered = [c \in Conns |-> 0]
  /\ c2r = [c \in Conns |-> "read"]
  /\ r2c = [c \in Conns |-> "read"]
  /\ reqs = Empty
  /\ inbox = Empty
  /\ toProxy = Empty
  /\ toRemote = Empty
  /\ fromRemote = Empty
  /\ toClient = Empty
  /\ chan = Empty
  /\ handler = [c \in Conns |-> "free"]
  /\ rbuf = Empty
  /\ hit = Empty
  /\ data = Empty
  /\ cachedBuf = Empty
  /\ ctx = [c \in Conns |-> NoCtx]
  /\ newCtx = [c \in Conns |-> NoCtx]
  /\ cachedCtx = [c \in Conns |-> NoCtx]
  /\ AssistantInit

C2R(c) == \/ C2RRead(c) \/ C2RShort(c) \/ C2REof(c) \/ C2RRaw(c) \/ C2RRequest(c)
          \/ C2RExists(c) \/ C2RGet(c) \/ C2RReply(c) \/ C2RLog(c) \/ C2RSend(c) \/ C2RWrite(c)

R2C(c) == \/ R2CRead(c) \/ R2CEof(c) \/ R2CFinish(c) \/ R2CTask(c) \/ R2CLog(c)
          \/ R2CRespond(c) \/ R2CWrite(c)

Client(c) == (\E s \in Stmts : ClientSend(c, s)) \/ ClientRecv(c) \/ ClientClose(c)

Remote(c) == RemoteExec(c) \/ RemoteClose(c)

Jobs == proc = "up" /\ AssistantNext /\ UNCHANGED <<proc, sessionVars>>

\* Nothing is left to do: every session has ended, or the process has.
Terminated ==
  /\ \/ proc # "up"
     \/ /\ \A c \in Conns : conn[c] = "closed"
        /\ tasks = <<>> /\ logs = <<>> /\ batch = <<>>
        /\ \A k \in Keys : redis[k] = <<>>
  /\ UNCHANGED vars

Next ==
  \/ \E c \in Conns : Accept(c) \/ C2R(c) \/ R2C(c) \/ Client(c) \/ Remote(c)
  \/ Jobs
  \/ Terminated

Spec == Init /\ [][Next]_vars
=============================================================================
