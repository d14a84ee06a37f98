------------------------------ MODULE Account ------------------------------
(***************************************************************************)
(* The accounts of the administrators: login and update_password           *)
(* (user_controller.rs) on the rows of sys_user, and the tokens that tie   *)
(* the one to the other (jwt.rs, FromRequest in model/mod.rs).  Each       *)
(* request reads a row, and decides on what it read: two requests          *)
(* interleave in between.                                                  *)
(***************************************************************************)
EXTENDS Integers, SequencesExt

CONSTANTS
  Users,      \* the accounts
  Passwords,  \* what users type
  Short,      \* passwords of less than 8 bytes
  Initial,    \* the password of each row at first
  Salts,      \* thirty random characters
  FirstSalt,  \* the salt of each row at first
  Lifetime,   \* 24 hours, in ticks of the clock
  Leeway,     \* what jsonwebtoken adds to it: 60 seconds
  Requests,   \* bound: the requests made
  MaxClock    \* bound: the ticks of the clock

ASSUME AccountAssumption ==
  /\ Short \subseteq Passwords /\ Initial \in Passwords /\ FirstSalt \in Salts
  /\ {Lifetime, Leeway, MaxClock} \subseteq Nat

VARIABLES
  clock,
  row,     \* row[u]: the row of sys_user
  tokens,  \* the tokens that login has signed
  req,     \* the requests
  stored   \* history: stored[u], the passwords stored by update_password, in order

vars == <<clock, row, tokens, req, stored>>

\* md5 of the password and the salt, without collisions.
encode(plain, salt) == <<plain, salt>>

NoRequest == [pc |-> "none"]

Init ==
  /\ clock = 0
  /\ row = [u \in Users |-> [user_password |-> encode(Initial, FirstSalt),
                             user_salt |-> FirstSalt]]
  /\ tokens = {}
  /\ req = [r \in Requests |-> NoRequest]
  /\ stored = [u \in Users |-> <<>>]

At(r, pc) == req[r].pc = pc

\* The row is read; since counts the updates stored before that.  A login has no new
\* password: password stands in its place.
Reads(r, pc, u, password, new, confirm) ==
  req' = [req EXCEPT ![r] =
            [pc |-> pc, user |-> u, password |-> password, new |-> new,
             confirm |-> confirm, found |-> row[u], since |-> Len(stored[u]), at |-> clock]]

\* What is left of a request that has been answered; at says when.
Answer(r, result, at) ==
  req' = [req EXCEPT ![r] = [pc |-> result, user |-> @.user, password |-> @.password,
                             since |-> @.since, at |-> at]]

Wrong(r) == encode(req[r].password, req[r].found.user_salt) # req[r].found.user_password
-----------------------------------------------------------------------------
Login(r, u, password) ==
  /\ At(r, "none")
  /\ Reads(r, "login", u, password, password, password)
  /\ UNCHANGED <<clock, row, tokens, stored>>

LoginFails(r) ==
  /\ At(r, "login")
  /\ Wrong(r)
  /\ Answer(r, "wrong password", req[r].at)
  /\ UNCHANGED <<clock, row, tokens, stored>>

\* encode_token(current_user, 3600 * 24).
LoginSucceeds(r) ==
  /\ At(r, "login")
  /\ ~Wrong(r)
  /\ tokens' = tokens \cup {[user |-> req[r].user, exp |-> clock + Lifetime]}
  /\ Answer(r, "token", clock)
  /\ UNCHANGED <<clock, row, stored>>
-----------------------------------------------------------------------------
\* Mutant of Accepted: exp is not looked at.
SignedOnly(t) == TRUE

\* verify_and_parse_token of a token signed here.
Accepted(t) == clock <= t.exp + Leeway

\* update_password: the token first, then the length of the new password; then
\* the row of the token's user is read.
UpdatePassword(r, t, current, new, confirm) ==
  /\ At(r, "none")
  /\ Accepted(t) /\ new \notin Short
  /\ Reads(r, "update", t.user, current, new, confirm)
  /\ UNCHANGED <<clock, row, tokens, stored>>

\* Neither a token that has expired nor a short password gets that far.
UpdateDenied(r, t, new) ==
  /\ At(r, "none")
  /\ ~Accepted(t) \/ new \in Short
  /\ req' = [req EXCEPT ![r].pc = "denied"]
  /\ UNCHANGED <<clock, row, tokens, stored>>

\* Mutant of Refused: current_password is not looked at.
RefusedConfirm(r) == req[r].new # req[r].confirm

Refused(r) == req[r].new # req[r].confirm \/ Wrong(r)

UpdateRefused(r) ==
  /\ At(r, "update")
  /\ Refused(r)
  /\ Answer(r, "refused", req[r].at)
  /\ UNCHANGED <<clock, row, tokens, stored>>

\* Mutant of Changed: the hash in the model is the one that was read.
Unchanged(r, salt) == row[req[r].user]

\* The ActiveModel sets id and user_password; user_salt is NotSet.
Changed(r, salt) ==
  [row[req[r].user] EXCEPT !.user_password = encode(req[r].new, salt)]

UpdateStores(r) ==
  /\ At(r, "update")
  /\ ~Refused(r)
  /\ \E salt \in Salts : row' = [row EXCEPT ![req[r].user] = Changed(r, salt)]
  /\ stored' = [stored EXCEPT ![req[r].user] = Append(@, req[r].new)]
  /\ Answer(r, "updated", req[r].at)
  /\ UNCHANGED <<clock, tokens>>

Tick ==
  /\ clock < MaxClock
  /\ clock' = clock + 1
  /\ UNCHANGED <<row, tokens, req, stored>>

Next ==
  \/ Tick
  \/ \E r \in Requests :
       \/ \E u \in Users, p \in Passwords : Login(r, u, p)
       \/ LoginFails(r)
       \/ LoginSucceeds(r)
       \/ \E t \in tokens, current, new, confirm \in Passwords :
            UpdatePassword(r, t, current, new, confirm)
       \/ \E t \in tokens, new \in Passwords : UpdateDenied(r, t, new)
       \/ UpdateRefused(r)
       \/ UpdateStores(r)

Spec == Init /\ [][Next]_vars
-----------------------------------------------------------------------------
InForce(u, n) == IF n = 0 THEN Initial ELSE stored[u][n]

\* A login or an update that reads the row after an update was stored, and before
\* any other, succeeds with no other password than the one of that update; two
\* updates that both read the row before either was stored are no exception
\* (user_controller.rs:33-42, 84-114).
OldPasswordDead ==
  \A r \in Requests :
    At(r, "token") \/ At(r, "updated")
      => req[r].password = InForce(req[r].user, req[r].since)

\* Who changes a password has logged in to the same account at most a lifetime and
\* the leeway before asking, however often passwords have changed since, and
\* whatever other accounts did (jwt.rs:31-71, model/mod.rs:119-143).
UpdateNeedsLogin ==
  \A r \in Requests :
    At(r, "updated") =>
      \E l \in Requests :
        /\ At(l, "token")
        /\ req[l].user = req[r].user
        /\ req[r].at - req[l].at \in 0 .. Lifetime + Leeway

\* "user name or password wrong" (user_controller.rs:41) is the answer to a wrong
\* password only: not to the one whose update was the last stored before.
WrongPasswordIsWrong ==
  \A r \in Requests :
    At(r, "wrong password") /\ req[r].since > 0
      => req[r].password # stored[req[r].user][req[r].since]
=============================================================================
