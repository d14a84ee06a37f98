------------------------------- MODULE MCRules -------------------------------
(***************************************************************************)
(* Instances of the rules for TLC: template 1 matches both statements,     *)
(* template 2 only the second.                                             *)
(***************************************************************************)
EXTENDS RulesProps

CONSTANTS q1, q2, a, b

MCTemplates == <<{q1, q2}, {q2}>>
=============================================================================
