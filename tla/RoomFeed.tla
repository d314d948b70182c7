------------------------------ MODULE RoomFeed ------------------------------
(***************************************************************************)
(* What the hub promises: whoever is in a room is told what happens in it,  *)
(* in order and without a gap, until it is dropped; it is never told        *)
(* anything else.  There are no queues, writers or session stages here:     *)
(* each connection has a feed that it reads at its own pace.  SignalHub     *)
(* implements this.                                                         *)
(***************************************************************************)
EXTENDS Integers, Sequences

CONSTANTS
    Conns, Rooms,
    None,       \* in no room
    All,        \* a message to everybody else in the room
    Payloads    \* what connections say to each other

VARIABLES
    room,       \* the room each connection is in
    found,      \* whom it found there
    served,     \* connections that have not been dropped
    told,       \* the feed of each of them
    heard       \* what it has read of its feed

vars == <<room, found, served, told, heard>>

Init ==
    /\ room = [c \in Conns |-> None]
    /\ found = [c \in Conns |-> {}]
    /\ served = {}
    /\ told = [c \in Conns |-> <<>>]
    /\ heard = [c \in Conns |-> <<>>]

In(r) == {c \in Conns : room[c] = r}

(* The connections in cs are told m, of those that are open; any of them    *)
(* may be dropped instead, which ends its feed.                             *)
Tell(cs, m, open) ==
    \E dropped \in SUBSET cs :
      /\ served' = open \ dropped
      /\ told' = [c \in Conns |-> IF c \notin served' THEN <<>>
                                  ELSE IF c \in cs THEN Append(told[c], m) ELSE told[c]]
      /\ heard' = [c \in Conns |-> IF c \in served' THEN heard[c] ELSE <<>>]

Enter(c, r) ==
    /\ room[c] = None
    /\ room' = [room EXCEPT ![c] = r]
    /\ found' = [found EXCEPT ![c] = In(r)]
    /\ Tell(In(r), [type |-> "peer-joined", id |-> c], served \cup {c})

(* Once, and not necessarily first.                                         *)
Greet(c) ==
    /\ room[c] # None
    /\ \A i \in 1..Len(told[c]) : told[c][i].type # "welcome"
    /\ Tell({c}, [type |-> "welcome", peers |-> found[c]], served)
    /\ UNCHANGED <<room, found>>

Say(c, to, n) ==
    /\ room[c] # None
    /\ Tell({p \in In(room[c]) : p # c /\ (to = All \/ to = p)},
            [type |-> "relay", id |-> c, n |-> n], served)
    /\ UNCHANGED <<room, found>>

Hear(c) ==
    /\ c \in served /\ Len(heard[c]) < Len(told[c])
    /\ heard' = [heard EXCEPT ![c] = Append(@, told[c][Len(@) + 1])]
    /\ UNCHANGED <<room, found, served, told>>

Drop(c) ==
    /\ c \in served
    /\ served' = served \ {c}
    /\ told' = [told EXCEPT ![c] = <<>>]
    /\ heard' = [heard EXCEPT ![c] = <<>>]
    /\ UNCHANGED <<room, found>>

Exit(c) ==
    /\ room[c] # None /\ c \notin served
    /\ room' = [room EXCEPT ![c] = None]
    /\ found' = [found EXCEPT ![c] = {}]
    /\ Tell(In(room[c]) \ {c}, [type |-> "peer-left", id |-> c], served)

Next ==
    \E c \in Conns :
      \/ \E r \in Rooms : Enter(c, r)
      \/ Greet(c)
      \/ \E to \in Conns \cup {All}, n \in Payloads : Say(c, to, n)
      \/ Hear(c)
      \/ Drop(c)
      \/ Exit(c)

Spec == Init /\ [][Next]_vars
=============================================================================
