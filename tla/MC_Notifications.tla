---------------------------- MODULE MC_Notifications ----------------------------
(* Instances of Notifications, and of the delta it is based on, for TLC.        *)
EXTENDS Notifications, TLC

CONSTANTS i1, i2, o, x, y

Symmetry == Permutations({i1, i2}) \cup Permutations({x, y})

S(hard, previous, soft, volatile, muted) ==
  [hard |-> hard, previous |-> previous, soft |-> soft, volatile |-> volatile, muted |-> muted]

\* OK after a problem, a problem and the same muted, a soft one with and without
\* volatile, OK in a downtime, PENDING, and OK after it.
SomeStates ==
  { S(0, 2, FALSE, FALSE, FALSE), S(2, 0, FALSE, FALSE, FALSE), S(2, 0, FALSE, FALSE, TRUE),
    S(2, 0, TRUE, FALSE, FALSE), S(1, 1, TRUE, TRUE, FALSE), S(0, 2, FALSE, FALSE, TRUE),
    S(99, 99, FALSE, FALSE, FALSE), S(0, 99, FALSE, FALSE, FALSE) }
===============================================================================
