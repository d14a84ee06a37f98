----------------------------- MODULE CacheRules -----------------------------
(***************************************************************************)
(* The caching rules: the table cache_config, edited through the admin     *)
(* process (cache_config_controller.rs), the thread that copies it into a  *)
(* static mut Vec of the proxy (server/src/meta.rs), and the sessions that *)
(* look statements up in that Vec (serve/mod.rs:294-346).                  *)
(*                                                                         *)
(* Nothing orders the thread and the sessions.  buf is the memory of the   *)
(* Vec, a sequence as long as its capacity, of which the first len slots   *)
(* are live.  clear() drops the rules but leaves the bytes; a push that    *)
(* exceeds the capacity moves the memory, and a reference into the old one *)
(* then reads anything (Junk), or faults.                                  *)
(***************************************************************************)
EXTENDS Integers, SequencesExt

CONSTANTS
  Ids,        \* ids of the rows
  Stmts,      \* statements the sessions look up
  Templates,  \* Templates[t]: the statements that template t matches
  Durations,  \* durations of a rule
  Junk,       \* what freed memory may hold in place of a duration
  Sessions,   \* sessions that look up
  MinCap,     \* capacity of the first allocation of a Vec (4)
  MaxEdits,   \* bound: edits of cache_config
  MetaFaults  \* "conn": no connection; "query": the query fails

ASSUME RulesAssumption ==
  /\ Ids \subseteq Nat /\ IsFiniteSet(Ids)
  /\ \A t \in DOMAIN Templates : Templates[t] \subseteq Stmts
  /\ Durations \subseteq Nat /\ Junk \notin Durations
  /\ MinCap \in Nat \ {0} /\ MaxEdits \in Nat
  /\ MetaFaults \subseteq {"conn", "query"}

VARIABLES
  rows,    \* cache_config: the row of each id, or Absent
  edits,   \* edits so far
  proc,    \* "up", or how the proxy died
  job,     \* program counter of the refresh thread
  fetched, \* entity_list: the rules still to be pushed
  list,    \* history: the rules of the last refresh that started to be copied
  buf, len,
  look     \* the lookup of each session

jobState == <<job, fetched, list, buf, len>>
vars == <<rows, edits, proc, jobState, look>>

Rules == [t : DOMAIN Templates, dur : Durations, enabled : BOOLEAN]
Absent == [enabled |-> FALSE]
Blank == [t |-> 0]   \* uninitialised memory

\* A set of ids in the order of the key.
InKeyOrder(S) ==
  CHOOSE ids \in [1 .. Cardinality(S) -> S] :
    \A j, k \in DOMAIN ids : j < k => ids[j] < ids[k]

\* select .. from cache_config where enabled = true.
Enabled ==
  LET ids == InKeyOrder({i \in Ids : rows[i].enabled})
  IN [k \in DOMAIN ids |-> [t |-> rows[ids[k]].t, dur |-> rows[ids[k]].dur]]

\* touched: a refresh has changed the Vec since the lookup began; moved: it has
\* moved the memory.
NoLook == [pc |-> "idle"]

Init ==
  /\ rows = [i \in Ids |-> Absent]
  /\ edits = 0
  /\ proc = "up"
  /\ job = "due"
  /\ fetched = <<>> /\ list = <<>>
  /\ buf = <<>> /\ len = 0
  /\ look = [s \in Sessions |-> NoLook]
-----------------------------------------------------------------------------
(***************************************************************************)
(* cache_config/createOrUpdate and cache_config/delete.                    *)
(***************************************************************************)
Edit(i, row) ==
  /\ edits < MaxEdits
  /\ rows' = [rows EXCEPT ![i] = row]
  /\ edits' = edits + 1
  /\ UNCHANGED <<proc, jobState, look>>

\* save(): an insert without id, an update of the fields given with one.
Create(i, rule) == rows[i] = Absent /\ Edit(i, rule)
Update(i, rule) == rows[i] # Absent /\ rule # rows[i] /\ Edit(i, rule)
Delete(i) == rows[i] # Absent /\ Edit(i, Absent)
-----------------------------------------------------------------------------
(***************************************************************************)
(* The refresh thread.                                                     *)
(***************************************************************************)
\* get_conn(): an error is only logged, and the old rules stay.
Connect ==
  /\ proc = "up" /\ job = "due"
  /\ \/ job' = "query"
     \/ "conn" \in MetaFaults /\ job' = "sleeps"
  /\ UNCHANGED <<rows, edits, proc, fetched, list, buf, len, look>>

\* Mutant of Query: a result without rows is taken for a failure.
QueryIgnoresEmpty ==
  /\ proc = "up" /\ job = "query"
  /\ fetched' = Enabled
  /\ job' = IF Enabled = <<>> THEN "sleeps" ELSE "clear"
  /\ UNCHANGED <<rows, edits, proc, list, buf, len, look>>

\* The query; unwrap() of an error aborts the proxy.
Query ==
  /\ proc = "up" /\ job = "query"
  /\ \/ /\ fetched' = Enabled
        /\ job' = "clear"
        /\ UNCHANGED proc
     \/ /\ "query" \in MetaFaults
        /\ proc' = "query_unwrap"
        /\ UNCHANGED <<fetched, job>>
  /\ UNCHANGED <<rows, edits, list, buf, len, look>>

Looking(s) == look[s].pc \in {"scan", "held"}

\* The lookups in progress see the Vec change under them.
Disturb(moves) ==
  look' = [s \in Sessions |->
             IF Looking(s)
             THEN [look[s] EXCEPT !.touched = TRUE, !.moved = @ \/ moves] ELSE look[s]]

\* Mutant of Cleared: the old rules stay in front.
NotCleared == len' = len

\* CACHE_CONFIG_ENTITY_LIST.clear()
Cleared == len' = 0

Clear ==
  /\ proc = "up" /\ job = "clear"
  /\ Cleared
  /\ list' = fetched
  /\ Disturb(FALSE)
  /\ job' = "push"
  /\ UNCHANGED <<rows, edits, proc, fetched, buf>>

Grown == buf \o [i \in 1 .. (IF buf = <<>> THEN MinCap ELSE Len(buf)) |-> Blank]

\* Mutant of Push: the rule is written one slot too far.
PushOffByOne ==
  /\ proc = "up" /\ job = "push" /\ fetched # <<>>
  /\ buf' = [(IF len = Len(buf) THEN Grown ELSE buf) EXCEPT ![len + 2] = Head(fetched)]
  /\ len' = len + 1
  /\ fetched' = Tail(fetched)
  /\ Disturb(len = Len(buf) /\ buf # <<>>)
  /\ UNCHANGED <<rows, edits, proc, job, list>>

\* CACHE_CONFIG_ENTITY_LIST.push(entity)
Push ==
  /\ proc = "up" /\ job = "push" /\ fetched # <<>>
  /\ buf' = [(IF len = Len(buf) THEN Grown ELSE buf) EXCEPT ![len + 1] = Head(fetched)]
  /\ len' = len + 1
  /\ fetched' = Tail(fetched)
  /\ Disturb(len = Len(buf) /\ buf # <<>>)
  /\ UNCHANGED <<rows, edits, proc, job, list>>

\* The list is copied, or the sleep of refresh_duration_in_seconds is over.
Sleep ==
  /\ proc = "up" /\ job = "push" /\ fetched = <<>>
  /\ job' = "sleeps"
  /\ UNCHANGED <<rows, edits, proc, fetched, list, buf, len, look>>

Wake ==
  /\ proc = "up" /\ job = "sleeps"
  /\ job' = "due"
  /\ UNCHANGED <<rows, edits, proc, fetched, list, buf, len, look>>
-----------------------------------------------------------------------------
(***************************************************************************)
(* A lookup of handle_request: the first rule that matches, and later,     *)
(* through the same reference, its duration.                               *)
(***************************************************************************)
\* The iterator keeps the address and the length that it finds.
Begin(s, q) ==
  /\ proc = "up" /\ ~Looking(s)
  /\ look' = [look EXCEPT ![s] =
                [pc |-> "scan", stmt |-> q, next |-> 1, end |-> len, slot |-> 0,
                 touched |-> job = "push", moved |-> FALSE, dur |-> 0, seen |-> list]]
  /\ UNCHANGED <<rows, edits, proc, jobState>>

\* Is the slot a live rule, in the memory the reference points to?
Sound(s, i) == ~look[s].moved /\ i <= len

\* One slot; reading one that is dropped or moved finds anything, or faults.
Scan(s) ==
  LET i == look[s].next IN
  /\ proc = "up" /\ look[s].pc = "scan" /\ i <= look[s].end
  /\ \/ \E matches \in BOOLEAN :
          /\ Sound(s, i) => matches = (look[s].stmt \in Templates[buf[i].t])
          /\ look' = IF matches THEN [look EXCEPT ![s].pc = "held", ![s].slot = i]
                     ELSE [look EXCEPT ![s].next = i + 1]
          /\ UNCHANGED proc
     \/ ~Sound(s, i) /\ proc' = "fault" /\ UNCHANGED look
  /\ UNCHANGED <<rows, edits, jobState>>

\* No rule matches: the statement is only forwarded.
Unmatched(s) ==
  /\ proc = "up" /\ look[s].pc = "scan" /\ look[s].next > look[s].end
  /\ look' = [look EXCEPT ![s].pc = "done"]
  /\ UNCHANGED <<rows, edits, proc, jobState>>

\* redis has answered that the key is absent, or failed: the duration is read
\* through the reference.  After a cache hit it is not.
Take(s) ==
  /\ proc = "up" /\ look[s].pc = "held"
  /\ \/ \E d \in (IF look[s].moved THEN Durations \cup {Junk}
                  ELSE {buf[look[s].slot].dur}) :
          look' = [look EXCEPT ![s].pc = "done", ![s].dur = d]
        /\ UNCHANGED proc
     \/ look' = [look EXCEPT ![s] = NoLook] /\ UNCHANGED proc
     \/ look[s].moved /\ proc' = "fault" /\ UNCHANGED look
  /\ UNCHANGED <<rows, edits, jobState>>

Refresh == Connect \/ Query \/ Clear \/ Push \/ Sleep \/ Wake

Lookup(s) == (\E q \in Stmts : Begin(s, q)) \/ Scan(s) \/ Unmatched(s) \/ Take(s)

Admin ==
  \E i \in Ids : (\E rule \in Rules : Create(i, rule) \/ Update(i, rule)) \/ Delete(i)

Dead == proc # "up" /\ UNCHANGED vars

Next == Admin \/ Refresh \/ (\E s \in Sessions : Lookup(s)) \/ Dead

Spec == Init /\ [][Next]_vars
=============================================================================
