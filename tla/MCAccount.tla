------------------------------ MODULE MCAccount ------------------------------
\* Instances of the account for TLC.
EXTENDS Account

CONSTANTS u1, u2, old, new, short, x, y, r1, r2, r3, r4

\* Requests and accounts are interchangeable.
AccountSymmetry == Permutations(Requests) \cup Permutations(Users)
=============================================================================
