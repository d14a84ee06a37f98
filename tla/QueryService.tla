---------------------------- MODULE QueryService ----------------------------
(***************************************************************************)
(* What the proxy is to clients that wait for each answer: a MySQL server  *)
(* that, instead of executing a statement, may give the answer it has      *)
(* given before to a statement with the same key.  There are no halves of  *)
(* a session here, no sockets, buffers, locks or queues: an answer is on   *)
(* its way as a whole, or not at all.                                      *)
(***************************************************************************)
EXTENDS Integers, Sequences

CONSTANTS
  Clients,
  Stmts,
  Silent,     \* statements without an answer
  Cacheable,  \* statements whose answers may come from the cache
  LookupKey, StoreKey, Keys,
  Parts       \* parts of the answer to a statement

VARIABLES
  asked,    \* the statements of each client
  waiting,  \* does it wait for an answer?
  coming,   \* the answer on its way to it, <<>> if none
  made,     \* its requests that were executed
  cache     \* the answer kept under each key, <<>> if none

service == <<asked, waiting, coming, made, cache>>

\* The answer made for request n of client c; request 0 is the connection.
Answer(c, n) ==
  [i \in 1 .. (IF n = 0 THEN 1 ELSE Parts[asked[c][n]]) |->
     [c |-> c, n |-> n, i |-> i]]

Init ==
  /\ asked = [c \in Clients |-> <<>>]
  /\ waiting = [c \in Clients |-> TRUE]
  /\ coming = [c \in Clients |-> <<>>]
  /\ made = [c \in Clients |-> {}]
  /\ cache = [k \in Keys |-> <<>>]

Waits(c) == waiting[c] /\ coming[c] = <<>>

Greet(c) ==
  /\ Waits(c) /\ asked[c] = <<>>
  /\ coming' = [coming EXCEPT ![c] = Answer(c, 0)]
  /\ UNCHANGED <<asked, waiting, made, cache>>

Ask(c, s) ==
  /\ ~waiting[c]
  /\ asked' = [asked EXCEPT ![c] = Append(@, s)]
  /\ waiting' = [waiting EXCEPT ![c] = s \notin Silent]
  /\ UNCHANGED <<coming, made, cache>>

\* The request is executed, at most once and only if it was not answered already.
Make(c) ==
  LET n == Len(asked[c]) IN
  /\ n > 0 /\ n \notin made[c]
  /\ made' = [made EXCEPT ![c] = @ \cup {n}]
  /\ IF asked[c][n] \in Silent THEN UNCHANGED coming
     ELSE Waits(c) /\ coming' = [coming EXCEPT ![c] = Answer(c, n)]
  /\ UNCHANGED <<asked, waiting, cache>>

\* The answer comes from the cache, and the request is not executed.
Hit(c) ==
  LET n == Len(asked[c]) IN
  /\ Waits(c) /\ n > 0 /\ n \notin made[c]
  /\ asked[c][n] \in Cacheable
  /\ cache[LookupKey[asked[c][n]]] # <<>>
  /\ coming' = [coming EXCEPT ![c] = cache[LookupKey[asked[c][n]]]]
  /\ UNCHANGED <<asked, waiting, made, cache>>

Get(c) ==
  /\ coming[c] # <<>>
  /\ coming' = [coming EXCEPT ![c] = <<>>]
  /\ waiting' = [waiting EXCEPT ![c] = FALSE]
  /\ UNCHANGED <<asked, made, cache>>

\* The cache takes only what was made for a request, and given to its client,
\* who has asked something else since.
Keep(c, n) ==
  /\ n \in made[c] /\ n < Len(asked[c])
  /\ asked[c][n] \in Cacheable
  /\ cache' = [cache EXCEPT ![StoreKey[asked[c][n]]] = Answer(c, n)]
  /\ UNCHANGED <<asked, waiting, coming, made>>

Forget(k) ==
  /\ cache' = [cache EXCEPT ![k] = <<>>]
  /\ UNCHANGED <<asked, waiting, coming, made>>

Next ==
  \/ \E c \in Clients : \/ Greet(c) \/ Make(c) \/ Hit(c) \/ Get(c)
                        \/ \E s \in Stmts : Ask(c, s)
                        \/ \E n \in made[c] : Keep(c, n)
  \/ \E k \in Keys : Forget(k)

Spec == Init /\ [][Next]_service
=============================================================================
