----------------------------- MODULE RulesProps -----------------------------
(***************************************************************************)
(* What a lookup of the caching rules promises, although it is not         *)
(* synchronised with the thread that refreshes them.                       *)
(***************************************************************************)
EXTENDS CacheRules

Entities == [t : DOMAIN Templates, dur : Durations]

\* Every variable has its type, and the live slots are initialised.
TypeOK ==
  /\ rows \in [Ids -> Rules \cup {Absent}]
  /\ edits \in 0 .. MaxEdits
  /\ proc \in {"up", "query_unwrap", "fault"}
  /\ job \in {"due", "query", "clear", "push", "sleeps"}
  /\ fetched \in Seq(Entities) /\ list \in Seq(Entities)
  /\ buf \in Seq(Entities \cup {Blank}) /\ len \in 0 .. Len(buf)
  /\ \A i \in 1 .. len : buf[i] # Blank

Matching(rules, q) == {i \in DOMAIN rules : q \in Templates[rules[i].t]}

\* The duration of the first rule that matches q; 0 if none does.
FirstMatch(rules, q) ==
  IF Matching(rules, q) = {} THEN 0
  ELSE rules[CHOOSE i \in Matching(rules, q) : \A j \in Matching(rules, q) : i <= j].dur

\* What a lookup finds wrong, or faults on, is the doing of a refresh that overlaps
\* it.  As long as none does, the slots the iterator has before it are exactly the
\* rules of the last refresh, alive and in order, and the lookup ends with the first
\* enabled rule that matches, with its own duration, of the one query of cache_config
\* that list is of, never with a mixture of two (meta.rs:16-23, serve/mod.rs:294-328).
LookupSeesOneRefresh ==
  \A s \in Sessions :
    /\ Looking(s) /\ ~look[s].touched
         => look[s].end = len /\ SubSeq(buf, 1, len) = look[s].seen
    /\ look[s].pc = "done" /\ ~look[s].touched
         => look[s].dur = FirstMatch(look[s].seen, look[s].stmt)

-----------------------------------------------------------------------------
(***************************************************************************)
(* Liveness: the refresh thread goes on, and a connection to the meta      *)
(* database is got again and again.                                        *)
(***************************************************************************)
FairSpec == Spec /\ WF_vars(Refresh) /\ SF_vars(Connect /\ job' = "query")

\* An edit reaches the sessions: the rules in force become, and stay, those of
\* the table once it is no longer edited, a deleted or disabled rule included
\* (meta.rs:57-103), unless the proxy has died.
EditsReachSessions ==
  <>[](proc # "up" \/ job = "push" \/ SubSeq(buf, 1, len) = Enabled)
=============================================================================
