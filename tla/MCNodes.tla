------------------------------- MODULE MCNodes -------------------------------
\* Instances of the registry for TLC.
EXTENDS NodesProps

CONSTANTS s1, s2, h1, h2

\* A report of two rows can fail half way; one pattern is enough for the others.
MCPatterns == [s \in Servers |-> IF s = s1 THEN {1, 2} ELSE {1}]
=============================================================================
