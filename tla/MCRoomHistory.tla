---------------------------- MODULE MCRoomHistory ----------------------------
(* Small instances of RoomHistory for TLC.  Browsers are interchangeable,   *)
(* and so are the chunks of a file.                                         *)
EXTENDS RoomHistory, TLC

Names == Permutations(Browsers) \cup Permutations(Chunks)
=============================================================================
