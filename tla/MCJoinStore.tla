----------------------------- MODULE MCJoinStore -----------------------------
(* Small instances of JoinStore for TLC.  Applicants are interchangeable    *)
(* in every safety property; the liveness runs do without the symmetry.     *)
EXTENDS JoinStore

Applicants == Permutations(Pubs)
=============================================================================
