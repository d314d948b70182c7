------------------------------ MODULE MCRoomKey ------------------------------
(* Small instances of RoomKey for TLC.  Tabs and browsers are               *)
(* interchangeable.                                                         *)
EXTENDS RoomKey, TLC

Names == Permutations(Tabs) \cup Permutations(Browsers)
=============================================================================
