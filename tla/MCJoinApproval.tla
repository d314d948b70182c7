--------------------------- MODULE MCJoinApproval ---------------------------
(* Small instances of JoinApproval for TLC.  Members are interchangeable,   *)
(* and so are applicants' connections and keys.                             *)
EXTENDS JoinApproval

Names == Permutations(Members) \cup Permutations(Applicants) \cup Permutations(Pubs)
=============================================================================
