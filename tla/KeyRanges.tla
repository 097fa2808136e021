----------------------------- MODULE KeyRanges -----------------------------
(***************************************************************************)
(* The boundaries of the synthetic partition-key ranges, topology_engine.py*)
(* 37-50, as numbers: the byte a boundary prints, -1 for the least key "". *)
(***************************************************************************)
EXTENDS Integers

AtMost(a, b) == IF a < b THEN a ELSE b

\* Python's round of n/d: to the nearest, ties to the even.
Round(n, d) == LET q == n \div d
                   r == n % d
               IN  IF 2 * r < d \/ (2 * r = d /\ q % 2 = 0) THEN q ELSE q + 1

\* Mutant: the upper clause tests the wrong end of the range.
BoundaryShort(k, m) ==
    IF k <= 0 THEN -1 ELSE IF k >= m - 1 THEN 255 ELSE AtMost(255, Round(k * 256, m))

Boundary(k, m) ==
    IF k <= 0 THEN -1 ELSE IF k >= m THEN 255 ELSE AtMost(255, Round(k * 256, m))

Boundaries(m) == [k \in 0..m |-> Boundary(k, m)]
=============================================================================
