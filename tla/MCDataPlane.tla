---------------------------- MODULE MCDataPlane ----------------------------
EXTENDS DataPlane

CONSTANTS a1, a2

MCWorkerOf == [a \in Assets |-> IF a = a1 THEN 0 ELSE 1]
MCMaxMessages == [a \in Assets |-> IF a = a1 THEN 2 ELSE 1]

=============================================================================
