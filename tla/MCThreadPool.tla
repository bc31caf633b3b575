---------------------------- MODULE MCThreadPool ----------------------------
(* Small instances of ThreadPool for TLC. *)
EXTENDS ThreadPool, TLC

CONSTANTS j1, j2, j3

MCJobs == {j1, j2, j3}
MCJobs2 == {j1, j2}

MCMaxRemaining == {-1, 1}

\* Jobs are interchangeable.  Workers are not: main starts and joins them in
\* the order of their numbers.
JobSymmetry == Permutations(MCJobs)
=============================================================================
