--------------------------- MODULE MCRunExecution ---------------------------
(* Small instances of the run engine for TLC.  Jobs are model values; the  *)
(* functions over them are given here.                                     *)
EXTENDS RunExecutionProps, TLC

CONSTANTS r1, r2, f1, f2, n1, s1

\* Two sweeps that overlap: r1 has a fault pair, a plain pair and perhaps a
\* skipped pair, r2 has a fault pair.
MCOwner == (f1 :> r1) @@ (n1 :> r1) @@ (s1 :> r1) @@ (f2 :> r2)
MCRunOf == [j \in Jobs |-> MCOwner[j]]

\* One row and one display key per pair.
MCOwn == [j \in Jobs |-> j]

\* No run names a Toxiproxy; or r1 does, and r2 goes by the environment.
MCNoneAsked == [r \in Runs |-> NoUrl]
MCOneAsks == [r \in Runs |-> IF r = r1 THEN "staging" ELSE NoUrl]
=============================================================================
