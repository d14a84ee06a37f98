----------------------------- MODULE Assistant -----------------------------
(***************************************************************************)
(* The two background jobs of the proxy process and the in-memory queues   *)
(* that feed them (server/src/sys_assistant_client.rs, created in          *)
(* server/src/main.rs):                                                    *)
(*                                                                         *)
(*   tasks   the mpsc channel of CacheTaskInfo, drained one at a time by   *)
(*           enable_cache_task_handle_job, which runs SETEX on redis       *)
(*   logs    the mpsc channel of ExecLog, drained as a whole every five    *)
(*           seconds by handle_messages                                    *)
(*   batch   the ExecLogs of the POST /vt_node/register that handle_metrics*)
(*           is awaiting; handle_messages does not tick while it waits     *)
(*   redis   the cache: <<>> is "no such key"; expiry is a step of redis   *)
(*                                                                         *)
(* The sessions (module ProxySession) are the producers of both queues.    *)
(***************************************************************************)
EXTENDS Integers, Sequences

CONSTANTS
  Keys,      \* redis keys
  TaskCap,   \* capacity of the cache-task channel (1 000 000 in main.rs)
  LogCap,    \* capacity of the exec-log channel  (1 000 000 in main.rs)
  Faults     \* the failures the environment may produce, see FaultKinds

FaultKinds == {"redis", "backend", "reset", "short"}

ASSUME AssistantAssumption ==
  /\ TaskCap \in Nat \ {0}
  /\ LogCap \in Nat \ {0}
  /\ Faults \subseteq FaultKinds

VARIABLES tasks, logs, batch, redis

jobVars == <<tasks, logs, batch, redis>>

AssistantInit ==
  /\ tasks = <<>>
  /\ logs = <<>>
  /\ batch = <<>>
  /\ redis = [k \in Keys |-> <<>>]

(***************************************************************************)
(* cache_load_task_channel_sender.send(..).await and                       *)
(* exec_log_channel_sender.send(..).await: the sender waits for room.      *)
(***************************************************************************)
SendTask(task) ==
  /\ Len(tasks) < TaskCap
  /\ tasks' = Append(tasks, task)
  /\ UNCHANGED <<logs, batch, redis>>

SendLog(log) ==
  /\ Len(logs) < LogCap
  /\ logs' = Append(logs, log)
  /\ UNCHANGED <<tasks, batch, redis>>

\* One turn of the cache job: recv, then SETEX; a failed SETEX is only logged.
CacheTaskJob ==
  /\ tasks # <<>>
  /\ tasks' = Tail(tasks)
  /\ \/ redis' = [redis EXCEPT ![Head(tasks).key] = Head(tasks).body]
     \/ "redis" \in Faults /\ UNCHANGED redis
  /\ UNCHANGED <<logs, batch>>

\* Mutant of MetricsTick: the messages are copied, not received.
MetricsTickKeeps ==
  /\ batch = <<>>
  /\ logs # <<>>
  /\ batch' = logs
  /\ UNCHANGED <<tasks, logs, redis>>

\* A tick of handle_messages: try_recv until the channel is empty, then POST.
MetricsTick ==
  /\ batch = <<>>
  /\ logs # <<>>
  /\ batch' = logs
  /\ logs' = <<>>
  /\ UNCHANGED <<tasks, redis>>

\* The POST ends.  Whatever the outcome, handle_metrics only logs it.
RegisterDone ==
  /\ batch # <<>>
  /\ batch' = <<>>
  /\ UNCHANGED <<tasks, logs, redis>>

\* The time to live of an entry has run out (external: redis).
RedisExpire(k) ==
  /\ redis[k] # <<>>
  /\ redis' = [redis EXCEPT ![k] = <<>>]
  /\ UNCHANGED <<tasks, logs, batch>>

AssistantNext ==
  \/ CacheTaskJob
  \/ MetricsTick
  \/ RegisterDone
  \/ \E k \in Keys : RedisExpire(k)
=============================================================================
