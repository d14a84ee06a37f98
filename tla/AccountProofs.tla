--------------------------- MODULE AccountProofs ---------------------------
(***************************************************************************)
(* For any accounts, passwords, salts, lifetimes and requests: only the    *)
(* last password opens an account, and only a recent login changes it.     *)
(***************************************************************************)
EXTENDS Account, TLAPS

-----------------------------------------------------------------------------
(***************************************************************************)
(* The inductive invariant.                                                *)
(***************************************************************************)
ShapeOK ==
  /\ clock \in Nat
  /\ DOMAIN req = Requests /\ DOMAIN row = Users
  /\ stored \in [Users -> Seq(Passwords)]

\* The row holds the hash of the last password stored, with whatever salt.
RowOK == \A u \in Users : row[u].user_password[1] = InForce(u, Len(stored[u]))

\* What a request has read is the row as it was when since updates were stored.
ReadOK(r) ==
  At(r, "login") \/ At(r, "update") =>
    /\ req[r].user \in Users
    /\ req[r].since \in 0 .. Len(stored[req[r].user])
    /\ req[r].found.user_password[1] = InForce(req[r].user, req[r].since)

OpenedOK(r) ==
  At(r, "token") \/ At(r, "updated") =>
    /\ req[r].user \in Users
    /\ req[r].since \in 0 .. Len(stored[req[r].user])
    /\ req[r].password = InForce(req[r].user, req[r].since)

\* Somebody logged in to account u a short time before t.
LoggedIn(u, t) ==
  \E l \in Requests : /\ At(l, "token") /\ req[l].user = u
                      /\ t - req[l].at \in 0 .. Lifetime + Leeway

\* A request on its way to an update brought a token that was good then.
BroughtOK(r) ==
  /\ At(r, "update") => req[r].new \in Passwords
  /\ At(r, "update") \/ At(r, "updated") => LoggedIn(req[r].user, req[r].at)

\* A token is of a login that succeeded, and ends a lifetime after it.
TokenOK(t) ==
  /\ t.user \in Users
  /\ \E l \in Requests : /\ At(l, "token") /\ req[l].user = t.user
                         /\ req[l].at \in 0 .. clock
                         /\ t.exp = req[l].at + Lifetime

AccountInv ==
  /\ ShapeOK
  /\ RowOK
  /\ \A r \in Requests : ReadOK(r) /\ OpenedOK(r) /\ BroughtOK(r)
  /\ \A t \in tokens : TokenOK(t)
-----------------------------------------------------------------------------
(***************************************************************************)
(* Steps of one request.                                                   *)
(***************************************************************************)
\* What a step of r has to establish: the passwords stored are a continuation of
\* those before, no token's login is undone, the others are left alone.
Continues ==
  \A u \in Users : /\ Len(stored[u]) <= Len(stored'[u])
                   /\ \A i \in 1 .. Len(stored[u]) : stored'[u][i] = stored[u][i]

\* The passwords in force at an earlier count stay what they were.
LEMMA StaysInForce ==
  ASSUME ShapeOK, Continues, NEW u \in Users, NEW n \in 0 .. Len(stored[u])
  PROVE  n \in 0 .. Len(stored'[u]) /\ InForce(u, n)' = InForce(u, n)
<1>1. Len(stored[u]) \in Nat
  BY DEF ShapeOK
<1>2. n \in Nat /\ (n # 0 => n \in 1 .. Len(stored[u]))
  BY <1>1
<1>3. InForce(u, n)' = InForce(u, n)
  BY <1>2 DEF Continues, InForce
<1> QED BY <1>2, <1>3 DEF Continues

\* A login stays what it was.
LEMMA StaysLoggedIn ==
  ASSUME NEW u, NEW t, LoggedIn(u, t),
         \A l \in Requests : At(l, "token") => req'[l] = req[l]
  PROVE  LoggedIn(u, t)'
BY DEF LoggedIn, At

\* A request that a step leaves alone stays as good as it was.
LEMMA OthersStay ==
  ASSUME AccountInv, Continues, NEW q \in Requests, req'[q] = req[q],
         \A l \in Requests : At(l, "token") => req'[l] = req[l]
  PROVE  ReadOK(q)' /\ OpenedOK(q)' /\ BroughtOK(q)'
<1>1. ReadOK(q) /\ OpenedOK(q) /\ BroughtOK(q) /\ ShapeOK
  BY DEF AccountInv
<1>2. ReadOK(q)'
  BY <1>1, StaysInForce DEF ReadOK, At
<1>3. OpenedOK(q)'
  BY <1>1, StaysInForce DEF OpenedOK, At
<1>4. BroughtOK(q)'
  BY <1>1, StaysLoggedIn DEF BroughtOK, At
<1> QED BY <1>2, <1>3, <1>4

\* A step of request r, which has no token yet.
LEMMA StepOf ==
  ASSUME AccountInv, Continues, NEW r \in Requests, ~At(r, "token"),
         ShapeOK', RowOK', \A t \in tokens' : t \in tokens \/ TokenOK(t)',
         \A q \in Requests : q # r => req'[q] = req[q],
         clock' = clock,
         ReadOK(r)', OpenedOK(r)', BroughtOK(r)'
  PROVE  AccountInv'
<1>1. \A l \in Requests : At(l, "token") => req'[l] = req[l]
  BY DEF At
<1>2. \A q \in Requests : ReadOK(q)' /\ OpenedOK(q)' /\ BroughtOK(q)'
  BY <1>1, OthersStay
<1>3. \A t \in tokens : TokenOK(t)'
  BY <1>1 DEF AccountInv, TokenOK, At
<1> QED BY <1>2, <1>3 DEF AccountInv
-----------------------------------------------------------------------------
\* Both kinds of request read the row as it is.
LEMMA LoginPreserves ==
  ASSUME AccountInv, NEW r \in Requests, NEW u \in Users, NEW p \in Passwords,
         Login(r, u, p)
  PROVE  AccountInv'
<1>1. /\ DOMAIN req = Requests /\ Len(stored[u]) \in Nat
      /\ UNCHANGED <<clock, row, tokens, stored>>
  BY DEF AccountInv, ShapeOK, Login
<1>2. /\ DOMAIN req' = Requests
      /\ \A q \in Requests : q # r => req'[q] = req[q]
      /\ req'[r] = [pc |-> "login", user |-> u, password |-> p, new |-> p,
                    confirm |-> p, found |-> row[u], since |-> Len(stored[u]), at |-> clock]
  BY <1>1 DEF Login, Reads
<1>3. ReadOK(r)'
  BY <1>1, <1>2 DEF ReadOK, At, AccountInv, RowOK, InForce
<1>4. OpenedOK(r)' /\ BroughtOK(r)'
  BY <1>2 DEF OpenedOK, BroughtOK, At
<1>5. Continues /\ ShapeOK' /\ RowOK' /\ ~At(r, "token")
  BY <1>1, <1>2 DEF Continues, AccountInv, ShapeOK, RowOK, InForce, Login, At
<1> QED BY <1>1, <1>2, <1>3, <1>4, <1>5, StepOf

\* A request that is answered without a token or an update asks for nothing more.
LEMMA RefusalPreserves ==
  ASSUME AccountInv, NEW r \in Requests,
         LoginFails(r) \/ UpdateRefused(r)
         \/ \E t \in tokens, new \in Passwords : UpdateDenied(r, t, new)
  PROVE  AccountInv'
<1>1. /\ DOMAIN req = Requests
      /\ UNCHANGED <<clock, row, tokens, stored>>
  BY DEF AccountInv, ShapeOK, LoginFails, UpdateRefused, UpdateDenied
<1>2. /\ DOMAIN req' = Requests /\ ~At(r, "token")
      /\ \A q \in Requests : q # r => req'[q] = req[q]
  BY <1>1 DEF LoginFails, UpdateRefused, UpdateDenied, Answer, At
<1>3. req'[r].pc \in {"wrong password", "refused", "denied"}
  <2>1. CASE LoginFails(r)
    BY <1>1, <2>1 DEF LoginFails, Answer
  <2>2. CASE UpdateRefused(r)
    BY <1>1, <2>2 DEF UpdateRefused, Answer
  <2>3. ASSUME NEW t \in tokens, NEW new \in Passwords, UpdateDenied(r, t, new)
        PROVE  req'[r].pc = "denied"
    <3>1. req[r].pc = "none" /\ req' = [req EXCEPT ![r].pc = "denied"]
      BY <2>3 DEF UpdateDenied, At
    <3> QED BY <1>1, <3>1
  <2> QED BY <2>1, <2>2, <2>3
<1>4. ReadOK(r)' /\ OpenedOK(r)' /\ BroughtOK(r)'
  BY <1>3 DEF ReadOK, OpenedOK, BroughtOK, At
<1>5. Continues /\ ShapeOK' /\ RowOK'
  BY <1>1, <1>2 DEF Continues, AccountInv, ShapeOK, RowOK, InForce
<1> QED BY <1>1, <1>2, <1>4, <1>5, StepOf

\* The password whose hash is in the row that was read is the one in force then.
LEMMA RightPassword ==
  ASSUME AccountInv, NEW r \in Requests, At(r, "login") \/ At(r, "update"), ~Wrong(r)
  PROVE  /\ req[r].user \in Users
         /\ req[r].since \in 0 .. Len(stored[req[r].user])
         /\ req[r].password = InForce(req[r].user, req[r].since)
<1>1. ReadOK(r)
  BY DEF AccountInv
<1>2. req[r].found.user_password = <<req[r].password, req[r].found.user_salt>>
  BY DEF Wrong, encode
<1> QED BY <1>1, <1>2 DEF ReadOK

LEMMA LoginSucceedsPreserves ==
  ASSUME AccountInv, NEW r \in Requests, LoginSucceeds(r)
  PROVE  AccountInv'
<1>1. /\ DOMAIN req = Requests /\ At(r, "login") /\ ~Wrong(r)
      /\ UNCHANGED <<clock, row, stored>>
      /\ tokens' = tokens \cup {[user |-> req[r].user, exp |-> clock + Lifetime]}
      /\ clock \in Nat
  BY DEF AccountInv, ShapeOK, LoginSucceeds
<1>2. /\ DOMAIN req' = Requests
      /\ \A q \in Requests : q # r => req'[q] = req[q]
      /\ req'[r] = [pc |-> "token", user |-> req[r].user, password |-> req[r].password,
                    since |-> req[r].since, at |-> clock]
  BY <1>1 DEF LoginSucceeds, Answer
<1>3. /\ req[r].user \in Users
      /\ req[r].since \in 0 .. Len(stored[req[r].user])
      /\ req[r].password = InForce(req[r].user, req[r].since)
  BY <1>1, RightPassword
<1>4. OpenedOK(r)'
  BY <1>1, <1>2, <1>3 DEF OpenedOK, InForce
<1>5. ReadOK(r)' /\ BroughtOK(r)'
  BY <1>2 DEF ReadOK, BroughtOK, At
<1>6. TokenOK([user |-> req[r].user, exp |-> clock + Lifetime])'
  BY <1>1, <1>2, <1>3 DEF TokenOK, At
<1>7. \A t \in tokens' : t \in tokens \/ TokenOK(t)'
  <2>1. SUFFICES ASSUME NEW t \in tokens', t \notin tokens PROVE TokenOK(t)'
    OBVIOUS
  <2>2. t = [user |-> req[r].user, exp |-> clock + Lifetime]
    BY <1>1, <2>1
  <2> QED BY <1>1, <1>2, <1>3, <2>2 DEF TokenOK, At
<1>8. Continues /\ ShapeOK' /\ RowOK' /\ ~At(r, "token")
  BY <1>1, <1>2 DEF Continues, AccountInv, ShapeOK, RowOK, InForce, At
<1> QED BY <1>1, <1>2, <1>4, <1>5, <1>7, <1>8, StepOf

LEMMA UpdatePasswordPreserves ==
  ASSUME AccountInv, NEW r \in Requests, NEW t \in tokens, NEW current \in Passwords,
         NEW new \in Passwords, NEW confirm \in Passwords,
         UpdatePassword(r, t, current, new, confirm)
  PROVE  AccountInv'
<1> USE AccountAssumption
<1>1. /\ DOMAIN req = Requests /\ TokenOK(t) /\ Accepted(t) /\ clock \in Nat
      /\ UNCHANGED <<clock, row, tokens, stored>>
  BY DEF AccountInv, ShapeOK, UpdatePassword
<1>2. /\ DOMAIN req' = Requests
      /\ \A q \in Requests : q # r => req'[q] = req[q]
      /\ req'[r] = [pc |-> "update", user |-> t.user, password |-> current, new |-> new,
                    confirm |-> confirm, found |-> row[t.user],
                    since |-> Len(stored[t.user]), at |-> clock]
      /\ ~At(r, "token")
  BY <1>1 DEF UpdatePassword, Reads, At
<1>3. t.user \in Users /\ Len(stored[t.user]) \in Nat
  BY <1>1 DEF TokenOK, AccountInv, ShapeOK
<1>4. ReadOK(r)'
  BY <1>1, <1>2, <1>3 DEF ReadOK, At, AccountInv, RowOK, InForce
<1>5. LoggedIn(t.user, clock)
  <2>1. PICK l \in Requests : /\ At(l, "token") /\ req[l].user = t.user
                              /\ req[l].at \in 0 .. clock
                              /\ t.exp = req[l].at + Lifetime
    BY <1>1 DEF TokenOK
  <2>2. clock - req[l].at \in 0 .. Lifetime + Leeway
    BY <1>1, <2>1 DEF Accepted
  <2> QED BY <2>1, <2>2 DEF LoggedIn
<1>6. LoggedIn(t.user, clock)'
  BY <1>1, <1>2, <1>5 DEF LoggedIn, At
<1>7. OpenedOK(r)' /\ BroughtOK(r)'
  BY <1>1, <1>2, <1>6 DEF OpenedOK, BroughtOK, At
<1>8. Continues /\ ShapeOK' /\ RowOK'
  BY <1>1, <1>2 DEF Continues, AccountInv, ShapeOK, RowOK, InForce
<1> QED BY <1>1, <1>2, <1>4, <1>7, <1>8, StepOf

\* The row gets the hash of the password that is stored.
LEMMA UpdateStoresPreserves ==
  ASSUME AccountInv, NEW r \in Requests, UpdateStores(r)
  PROVE  AccountInv'
<1>1. /\ DOMAIN req = Requests /\ At(r, "update") /\ ~Wrong(r)
      /\ UNCHANGED <<clock, tokens>>
      /\ DOMAIN row = Users /\ stored \in [Users -> Seq(Passwords)]
      /\ stored' = [stored EXCEPT ![req[r].user] = Append(@, req[r].new)]
  BY DEF AccountInv, ShapeOK, UpdateStores, Refused
<1>2. /\ req[r].user \in Users
      /\ req[r].since \in 0 .. Len(stored[req[r].user])
      /\ req[r].password = InForce(req[r].user, req[r].since)
  BY <1>1, RightPassword
<1>3. req[r].new \in Passwords /\ LoggedIn(req[r].user, req[r].at)
  BY <1>1 DEF AccountInv, BroughtOK
<1>4. /\ DOMAIN req' = Requests
      /\ \A q \in Requests : q # r => req'[q] = req[q]
      /\ req'[r] = [pc |-> "updated", user |-> req[r].user, password |-> req[r].password,
                    since |-> req[r].since, at |-> req[r].at]
      /\ ~At(r, "token")
  BY <1>1 DEF UpdateStores, Answer, At
<1>5. /\ stored[req[r].user] \in Seq(Passwords)
      /\ stored'[req[r].user] = Append(stored[req[r].user], req[r].new)
      /\ \A u \in Users : u # req[r].user => stored'[u] = stored[u]
  BY <1>1, <1>2
<1>6. stored' \in [Users -> Seq(Passwords)]
  BY <1>1, <1>2, <1>3, <1>5
<1>7. PICK salt \in Salts : row' = [row EXCEPT ![req[r].user] = Changed(r, salt)]
  BY DEF UpdateStores
<1>8. Continues
  <2>1. SUFFICES ASSUME NEW u \in Users
                 PROVE /\ Len(stored[u]) <= Len(stored'[u])
                       /\ \A i \in 1 .. Len(stored[u]) : stored'[u][i] = stored[u][i]
    BY DEF Continues
  <2>2. CASE u = req[r].user
    BY <1>3, <1>5, <2>2
  <2>3. CASE u # req[r].user
    <3>1. Len(stored[u]) \in Nat /\ stored'[u] = stored[u]
      BY <1>1, <1>5, <2>3
    <3> QED BY <3>1
  <2> QED BY <2>2, <2>3
<1>9. RowOK'
  <2>1. SUFFICES ASSUME NEW u \in Users
                 PROVE row'[u].user_password[1] = InForce(u, Len(stored[u]))'
    BY DEF RowOK
  <2>2. CASE u = req[r].user
    <3>1. /\ Len(stored'[u]) = Len(stored[u]) + 1 /\ Len(stored[u]) \in Nat
          /\ stored'[u][Len(stored[u]) + 1] = req[r].new
      BY <1>3, <1>5, <2>2
    <3>2. InForce(u, Len(stored[u]))' = req[r].new
      BY <3>1 DEF InForce
    <3>3. row'[u].user_password = <<req[r].new, salt>>
      BY <1>1, <1>7, <2>2 DEF Changed, encode, AccountInv, ShapeOK
    <3> QED BY <3>2, <3>3
  <2>3. CASE u # req[r].user
    BY <1>1, <1>5, <1>7, <2>3 DEF AccountInv, RowOK, InForce
  <2> QED BY <2>2, <2>3
<1>10. ShapeOK'
  BY <1>1, <1>4, <1>6, <1>7 DEF AccountInv, ShapeOK
<1>11. OpenedOK(r)'
  BY <1>2, <1>4, <1>8, StaysInForce DEF OpenedOK, AccountInv
<1>12. LoggedIn(req[r].user, req[r].at)'
  <2>1. PICK l \in Requests : /\ At(l, "token") /\ req[l].user = req[r].user
                              /\ req[r].at - req[l].at \in 0 .. Lifetime + Leeway
    BY <1>3 DEF LoggedIn
  <2>2. req'[l] = req[l] /\ req'[r].user = req[r].user /\ req'[r].at = req[r].at
    BY <1>4, <2>1 DEF At
  <2> QED BY <2>1, <2>2 DEF LoggedIn, At
<1>13. ReadOK(r)' /\ BroughtOK(r)'
  BY <1>4, <1>12 DEF ReadOK, BroughtOK, At
<1> QED BY <1>1, <1>4, <1>8, <1>9, <1>10, <1>11, <1>13, StepOf
-----------------------------------------------------------------------------
LEMMA TickPreserves == AccountInv /\ (Tick \/ UNCHANGED vars) => AccountInv'
<1> SUFFICES ASSUME AccountInv, Tick \/ UNCHANGED vars PROVE AccountInv'
  OBVIOUS
<1>1. UNCHANGED <<row, tokens, req, stored>> /\ clock' \in Nat /\ clock <= clock'
      /\ clock \in Nat
  BY DEF Tick, vars, AccountInv, ShapeOK
<1>2. ShapeOK' /\ RowOK'
  BY <1>1 DEF AccountInv, ShapeOK, RowOK, InForce
<1>3. \A r \in Requests : ReadOK(r)' /\ OpenedOK(r)' /\ BroughtOK(r)'
  BY <1>1 DEF AccountInv, ReadOK, OpenedOK, BroughtOK, InForce, LoggedIn, At
<1>4. \A t \in tokens' : TokenOK(t)'
  BY <1>1 DEF AccountInv, TokenOK, At
<1> QED BY <1>2, <1>3, <1>4 DEF AccountInv

\* The accounts as they are at first are in order.
LEMMA InitHolds == Init => AccountInv
<1> SUFFICES ASSUME Init PROVE AccountInv
  OBVIOUS
<1>1. ShapeOK /\ \A u \in Users : Len(stored[u]) = 0
  BY DEF Init, ShapeOK
<1>2. RowOK
  BY <1>1 DEF Init, RowOK, InForce, encode
<1>3. \A r \in Requests : ReadOK(r) /\ OpenedOK(r) /\ BroughtOK(r)
  BY DEF Init, NoRequest, ReadOK, OpenedOK, BroughtOK, At
<1> QED BY <1>1, <1>2, <1>3 DEF AccountInv, Init

LEMMA StepHolds == AccountInv /\ [Next]_vars => AccountInv'
<1> SUFFICES ASSUME AccountInv, [Next]_vars PROVE AccountInv'
  OBVIOUS
<1>1. CASE Tick \/ UNCHANGED vars
  BY <1>1, TickPreserves
<1>2. ASSUME NEW r \in Requests, NEW u \in Users, NEW p \in Passwords, Login(r, u, p)
      PROVE AccountInv'
  BY <1>2, LoginPreserves
<1>3. ASSUME NEW r \in Requests, LoginSucceeds(r) PROVE AccountInv'
  BY <1>3, LoginSucceedsPreserves
<1>4. ASSUME NEW r \in Requests, NEW t \in tokens, NEW current \in Passwords,
             NEW new \in Passwords, NEW confirm \in Passwords,
             UpdatePassword(r, t, current, new, confirm)
      PROVE AccountInv'
  BY <1>4, UpdatePasswordPreserves
<1>5. ASSUME NEW r \in Requests, UpdateStores(r) PROVE AccountInv'
  BY <1>5, UpdateStoresPreserves
<1>6. ASSUME NEW r \in Requests,
             LoginFails(r) \/ UpdateRefused(r)
             \/ \E t \in tokens, new \in Passwords : UpdateDenied(r, t, new)
      PROVE AccountInv'
  BY <1>6, RefusalPreserves
<1> QED BY <1>1, <1>2, <1>3, <1>4, <1>5, <1>6 DEF Next

\* In every reachable state a login or an update that has succeeded was made with the
\* password that was in force when it read the row (user_controller.rs:33-42, 84-114).
THEOREM OnlyLastPassword == Spec => []OldPasswordDead
<1>1. AccountInv => OldPasswordDead
  BY DEF AccountInv, OpenedOK, OldPasswordDead
<1> QED BY <1>1, InitHolds, StepHolds, PTL DEF Spec

\* In every reachable state an update that has succeeded follows a login to the same
\* account within a token's lifetime and the leeway (jwt.rs:31-71).
THEOREM OnlyRecentLogin == Spec => []UpdateNeedsLogin
<1>1. AccountInv => UpdateNeedsLogin
  BY DEF AccountInv, BroughtOK, LoggedIn, UpdateNeedsLogin
<1> QED BY <1>1, InitHolds, StepHolds, PTL DEF Spec
=============================================================================
