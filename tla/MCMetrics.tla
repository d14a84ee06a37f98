------------------------------ MODULE MCMetrics ------------------------------
(***************************************************************************)
(* Instances of the metrics for TLC: patterns 1 and 2 differ in case only; *)
(* one execution, of pattern 3, overflows an i32.                          *)
(***************************************************************************)
EXTENDS MetricsProps

MCSamples == {[p |-> 1, d |-> 0, hit |-> TRUE], [p |-> 1, d |-> 3, hit |-> FALSE],
              [p |-> 2, d |-> 2, hit |-> FALSE], [p |-> 3, d |-> 5, hit |-> FALSE]}

MCFold == [p \in Patterns |-> IF p = 2 THEN 1 ELSE p]
=============================================================================
