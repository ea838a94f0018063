--------------------------- MODULE MCRunLifecycle ---------------------------
(* Model-checking instance of a run and its lease: three transaction ids,  *)
(* two coroutines that ask a person, two work units.                       *)
EXTENDS RunLease, TLC

Symm == Permutations(Tx) \cup Permutations(Waiters) \cup Permutations(Followers)
=============================================================================
