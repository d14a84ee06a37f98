------------------------------ MODULE MCSession ------------------------------
(***************************************************************************)
(* Instances of the sessions for TLC.                                      *)
(*                                                                         *)
(*   sel   SELECT a rule matches, its text is its key, a reply of two reads*)
(*   com   the same statement with a comment: it looks up sel's key but    *)
(*         stores under a key nobody looks up                              *)
(*   ins   any other command, one read of reply                            *)
(*   close a command MySQL does not answer (COM_STMT_CLOSE)                *)
(*   quit  COM_QUIT                                                        *)
(*   big   a SELECT of two reads, the second of an unknown packet type     *)
(*   cut   a SELECT of two reads, the second of a known packet type        *)
(*                                                                         *)
(* The pieces of big and cut may each have the text of sel (a SELECT that  *)
(* goes on after it), and so may sel joined with what follows (sel ends in *)
(* a comment that swallows it).                                            *)
(***************************************************************************)
EXTENDS SessionProps

CONSTANTS c1, c2, login, sel, com, ins, close, quit, big, cut, none, k1, k2

AllStmts == {login, sel, com, ins, close, quit, big, cut}

MCFrames == [s \in Stmts |->
  CASE s \in {sel, com} -> <<"ComQuery">>
    [] s = big          -> <<"ComQuery", "Invalid">>
    [] s = cut          -> <<"ComQuery", "ComOther">>
    [] OTHER            -> <<"ComOther">>]

MCParts == [s \in Stmts |-> IF s \in {sel, com} THEN 2 ELSE 1]

\* The sessions are interchangeable, where no liveness is checked.
SessionSymmetry == Permutations(Conns)

MCScraps == [s \in Stmts |-> IF s \in {sel, big, cut} THEN {sel} ELSE {}]

MCLookupKey == [s \in Texts |-> k1]
MCStoreKey  == [s \in Texts |-> IF s = com THEN k2 ELSE k1]
=============================================================================
