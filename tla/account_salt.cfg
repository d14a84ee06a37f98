CONSTANTS
  u1 = u1  u2 = u2  old = old  new = new  short = short  x = x  y = y
  r1 = r1  r2 = r2  r3 = r3  r4 = r4
  Users = {u1}
  Passwords = {old, new, short}
  Short = {short}
  Initial = old
  Salts = {x, y}
  FirstSalt = x
  Lifetime = 1
  Leeway = 1
  MaxClock = 0
  Requests = {r1, r2, r3}
SPECIFICATION Spec
INVARIANTS WrongPasswordIsWrong
CHECK_DEADLOCK FALSE
