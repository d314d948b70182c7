-------------------------------- MODULE IPLog --------------------------------
(***************************************************************************)
(* The connection log (src/internal/iplog/iplog.go): one file per UTC day,  *)
(* the open file of the Logger, the hourly purge and the search.  Time is   *)
(* counted in days, which is all that file names and the purge tell apart.  *)
(*                                                                          *)
(* Log reads the clock before it takes the lock: a line is stamped in one   *)
(* step, by the modules that use this one, and written in another.          *)
(***************************************************************************)
EXTENDS Integers, FiniteSets, FiniteSetsExt

CONSTANTS
    Peers,       \* peer IDs; a peer ID is used once, by one connection
    Addrs,       \* addresses that TURN requests come from
    None,        \* no file is open, no address, no session
    Retention,   \* Logger.retention, in days
    MaxDay       \* bound of the model: the last day

ASSUME RetentionAssumption == Retention \in Nat
ASSUME MaxDayAssumption == MaxDay \in Nat \ {0}

Days == 1..MaxDay

(* Connect and disconnect lines carry the hash of the room, turn_auth lines *)
(* only the peer.  All peers here are of one room.                          *)
RoomEvents == {"connect", "disconnect"}
Entry ==
    [event : RoomEvents, peer : Peers, addr : {None}, day : Days]
      \cup [event : {"turn_auth"}, peer : Peers, addr : Addrs, day : Days]

ASSUME NoneAssumption == None \notin Peers \cup Days

VARIABLES
    files,     \* the log directory: the lines of each day that has a file
    openDay,   \* Logger.day while Logger.f is open
    today,     \* the clock
    lost       \* history: lines that were not written

logVars == <<files, openDay, today, lost>>

LogInit ==
    /\ files = [d \in {} |-> {}]
    /\ openDay = None
    /\ today = 1
    /\ lost = {}

Lines(d) == IF d \in DOMAIN files THEN files[d] ELSE {}

(* The file of the line's day is opened, and created if need be, if another *)
(* one is open.                                                             *)
Opened(d, lines) ==
    /\ openDay' = d
    /\ files' = [x \in DOMAIN files \cup {d} |-> IF x = d THEN lines ELSE files[x]]

Write(e) ==
    /\ Opened(e.day, Lines(e.day) \cup {e})
    /\ UNCHANGED lost

(* The file cannot be written to, or not even opened: the line is gone and  *)
(* the caller goes on.                                                      *)
WriteFails(e) ==
    /\ lost' = lost \cup {e}
    /\ \/ Opened(e.day, Lines(e.day))
       \/ openDay # e.day /\ openDay' = None /\ UNCHANGED files

(* The hourly purge removes the files whose whole day is out of retention,  *)
(* oldest first.  It gives up at the first file it cannot remove, if any;   *)
(* the open file is closed before its name is removed.  Nothing is written  *)
(* to a file that is being removed: lines are not written days after they   *)
(* were stamped.                                                            *)

(* Mutant of Expired: a day late. *)
LateExpired(d) == d + Retention + 1 < today

Expired(d) == d + Retention < today

ExpiredDays == {d \in DOMAIN files : Expired(d)}

PurgeUpTo(stop) ==
    LET removed == {d \in ExpiredDays : d < stop} IN
    /\ files' = [d \in DOMAIN files \ removed |-> files[d]]
    /\ openDay' = IF openDay \in removed \cup (ExpiredDays \cap {stop})
                  THEN None ELSE openDay
    /\ UNCHANGED <<today, lost>>

Purge == ExpiredDays # {} /\ PurgeUpTo(MaxDay + 1)

PurgeFails == \E stop \in ExpiredDays : PurgeUpTo(stop)

(* A new process: nothing is open.  Lines on their way are lost.            *)
LogRestart(waiting) ==
    /\ openDay' = None
    /\ lost' = lost \cup waiting
    /\ UNCHANGED <<files, today>>

(* Search for the lines of the room from midnight `from` up to midnight     *)
(* `to`.  The file of the day that ends at `from` is still read: the peers  *)
(* of the room are collected from every file read, whatever the times of    *)
(* their lines.                                                             *)

(* Mutant of DaysRead: reads the files of the days asked for only. *)
ExactDaysRead(from, to) == {d \in Days : d >= from /\ d < to}

DaysRead(from, to) == {d \in Days : d + 1 >= from /\ d < to}

Search(from, to) ==
    LET all   == UNION {Lines(d) : d \in DaysRead(from, to)}
        peers == {e.peer : e \in {l \in all : l.event \in RoomEvents}} IN
    {e \in all : /\ e.day >= from /\ e.day < to
                 /\ e.event \in RoomEvents \/ e.peer \in peers}
=============================================================================
