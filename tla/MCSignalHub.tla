----------------------------- MODULE MCSignalHub -----------------------------
(* Small instances of SignalHub for TLC.  Connections are interchangeable,  *)
(* and so are rooms; the liveness run does without the symmetry.            *)
EXTENDS SignalHub

Names == Permutations(Conns) \cup Permutations(Rooms)
=============================================================================
