---------------------------- MODULE MCRepoWrites ----------------------------
(* Small instances of RepoWrites: who writes, through which process. *)
EXTENDS RepoWrites, TLC

CONSTANTS s1, s2, r1, r2, r3

\* Every call reaches one process.
OneProcess == [r \in Requests |-> s1]

\* All but the first call reach a second process on the same files.
TwoProcesses == [r \in Requests |-> IF r = r1 THEN s1 ELSE s2]

Symmetric == Permutations(Requests)
=============================================================================
