------------------------------ MODULE Admission ------------------------------
(***************************************************************************)
(* What asking to join promises, whatever messages, connections, tabs and   *)
(* server restarts it takes: a request is decided once, the room key goes   *)
(* only to applicants whose request is approved, and an approval is kept    *)
(* until the applicant has the key.  JoinApproval implements this.          *)
(*                                                                          *)
(* An applicant is named by its public key.  Requests do not expire here,   *)
(* as in JoinApproval.                                                      *)
(***************************************************************************)
CONSTANT Pubs   \* applicants' public keys

VARIABLES
    status,     \* what has become of the request of each applicant
    admitted    \* applicants that have the room key

vars == <<status, admitted>>

Init ==
    /\ status = [p \in Pubs |-> "none"]
    /\ admitted = {}

Apply(p) ==
    /\ status[p] = "none"
    /\ status' = [status EXCEPT ![p] = "pending"]
    /\ UNCHANGED admitted

Decide(p, decision) ==
    /\ status[p] = "pending"
    /\ status' = [status EXCEPT ![p] = decision]
    /\ UNCHANGED admitted

Admit(p) ==
    /\ status[p] = "approved"
    /\ admitted' = admitted \cup {p}
    /\ UNCHANGED status

Forget(p) ==
    /\ status[p] = "approved" /\ p \in admitted
    /\ status' = [status EXCEPT ![p] = "none"]
    /\ UNCHANGED admitted

Next ==
    \E p \in Pubs :
      \/ Apply(p)
      \/ \E decision \in {"approved", "rejected"} : Decide(p, decision)
      \/ Admit(p)
      \/ Forget(p)

Spec == Init /\ [][Next]_vars
=============================================================================
