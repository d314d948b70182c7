------------------------------ MODULE SignalHub ------------------------------
(***************************************************************************)
(* The WebSocket hub (src/internal/signaling/hub.go).  Every connection has *)
(* a session goroutine (ServeWS: join, welcome, readLoop, leave), a writer  *)
(* goroutine and a bounded send queue between everybody else and the        *)
(* writer.  Hub.mu makes join, leave and forward atomic; joining and        *)
(* welcoming are two steps, and so are overflowing a queue and              *)
(* disconnecting its owner.  The receiving browser is modelled as far as    *)
(* its list of the peers in the room (roomPeers of                          *)
(* src/web/static/room.js).                                                 *)
(*                                                                          *)
(* Payloads of signal, kx and relay messages are opaque to the hub and are  *)
(* numbered here.  A connection ID is used once, as in the code, where it   *)
(* is random.  Taking a message from the queue and writing it is one step;  *)
(* a writer blocked in a write is a writer that takes no step.              *)
(***************************************************************************)
EXTENDS Integers, Sequences, FiniteSets, SequencesExt

CONSTANTS
    Conns,        \* connections (peer IDs)
    Rooms,        \* room names
    None,         \* no room yet
    All,          \* the empty "to" of a relay message: everybody else
    MaxPeers,     \* Config.MaxPeers
    QueueLen,     \* sendQueueLen
    MaxForwards   \* bound of the model: messages the clients send in all

ASSUME SizesAssumption ==
    /\ MaxPeers \in Nat \ {0}
    /\ QueueLen \in Nat \ {0}
    /\ MaxForwards \in Nat
ASSUME NamesAssumption == None \notin Rooms /\ All \notin Conns

Message ==
    [type : {"welcome"}, peers : SUBSET Conns]
      \cup [type : {"peer-joined", "peer-left"}, id : Conns]
      \cup [type : {"relay"}, id : Conns, n : 1..MaxForwards]

Stage == {"new", "joined", "serving", "ended", "closed", "refused"}

VARIABLES
    members,   \* Hub.rooms: the connections of each room
    peers,     \* Hub.peers: the connections of all rooms
    roomOf,    \* client.room
    stage,     \* where the session goroutine is in ServeWS
    snapshot,  \* the peer list join returned, still to be sent as the welcome
    send,      \* client.send
    kicked,    \* client.kick is closed
    writer,    \* the writer goroutine: not started, running, returned
    view,      \* roomPeers in the browser
    got,       \* history: what the browser received
    offered,   \* history: what enqueue was called with
    sends      \* the number of messages forwarded so far

hubVars == <<members, peers, roomOf, stage, snapshot>>
clientVars == <<view, got>>
vars == <<members, peers, roomOf, stage, snapshot, send, kicked, writer,
          view, got, offered, sends>>

Init ==
    /\ members = [r \in Rooms |-> {}]
    /\ peers = {}
    /\ roomOf = [c \in Conns |-> None]
    /\ stage = [c \in Conns |-> "new"]
    /\ snapshot = [c \in Conns |-> {}]
    /\ send = [c \in Conns |-> <<>>]
    /\ kicked = [c \in Conns |-> FALSE]
    /\ writer = [c \in Conns |-> "off"]
    /\ view = [c \in Conns |-> {}]
    /\ got = [c \in Conns |-> <<>>]
    /\ offered = [c \in Conns |-> <<>>]
    /\ sends = 0

-----------------------------------------------------------------------------
(* enqueue never blocks: a full queue drops the message and its owner.      *)

(* Mutant of Full: one too many. *)
LateFull(c) == Len(send[c]) > QueueLen

Full(c) == Len(send[c]) >= QueueLen

(* Mutant of Overflow: drops the message but not its owner. *)
SilentOverflow(c) == kicked[c]

Overflow(c) == kicked[c] \/ Full(c)

Enqueue(cs, m) ==
    /\ send' = [c \in Conns |-> IF c \in cs /\ ~Full(c) THEN Append(send[c], m)
                                                       ELSE send[c]]
    /\ kicked' = [c \in Conns |-> IF c \in cs THEN Overflow(c) ELSE kicked[c]]
    /\ offered' = [c \in Conns |-> IF c \in cs THEN Append(offered[c], m)
                                              ELSE offered[c]]

-----------------------------------------------------------------------------
(* The session goroutine.                                                   *)

(* Mutant of JoinSnapshot: lists only the peers that were welcomed. *)
ForgetfulJoinSnapshot(r) == {p \in members[r] : stage[p] = "serving"}

JoinSnapshot(r) == members[r]

Join(c, r) ==
    /\ stage[c] = "new"
    /\ Cardinality(members[r]) < MaxPeers
    /\ stage' = [stage EXCEPT ![c] = "joined"]
    /\ roomOf' = [roomOf EXCEPT ![c] = r]
    /\ snapshot' = [snapshot EXCEPT ![c] = JoinSnapshot(r)]
    /\ members' = [members EXCEPT ![r] = @ \cup {c}]
    /\ peers' = peers \cup {c}
    /\ Enqueue(members[r], [type |-> "peer-joined", id |-> c])
    /\ UNCHANGED <<writer, view, got, sends>>

RefuseFull(c, r) ==
    /\ stage[c] = "new"
    /\ Cardinality(members[r]) >= MaxPeers
    /\ stage' = [stage EXCEPT ![c] = "refused"]
    /\ UNCHANGED <<members, peers, roomOf, snapshot, send, kicked, writer,
                   view, got, offered, sends>>

(* The welcome is queued, then the writer is started.                       *)
Welcome(c) ==
    /\ stage[c] = "joined"
    /\ stage' = [stage EXCEPT ![c] = "serving"]
    /\ writer' = [writer EXCEPT ![c] = "running"]
    /\ Enqueue({c}, [type |-> "welcome", peers |-> snapshot[c]])
    /\ UNCHANGED <<members, peers, roomOf, snapshot, view, got, sends>>

(* forward: to one other peer of the sender's room, or to all of them.      *)
Reading(c) == stage[c] = "serving"

(* Mutant of Recipients: forwards across rooms. *)
EverybodysRecipients(c, to) == {p \in peers : p # c /\ (to = All \/ to = p)}

Recipients(c, to) ==
    {p \in members[roomOf[c]] : p # c /\ (to = All \/ to = p)}

Forward(c, to) ==
    /\ Reading(c)
    /\ sends < MaxForwards
    /\ sends' = sends + 1
    /\ Enqueue(Recipients(c, to), [type |-> "relay", id |-> c, n |-> sends + 1])
    /\ UNCHANGED <<hubVars, writer, clientVars>>

(* readLoop returns: the peer closed or vanished or broke the rate limit,   *)
(* or the writer returned and cancelled the context.  ServeWS then closes   *)
(* the connection and cancels the writer.  Nothing is read from the queue   *)
(* any more, and what the browser had received is no longer of interest;    *)
(* both are emptied.                                                        *)
EndRead(c) ==
    /\ Reading(c)
    /\ stage' = [stage EXCEPT ![c] = "ended"]
    /\ writer' = [writer EXCEPT ![c] = "stopped"]
    /\ send' = [send EXCEPT ![c] = <<>>]
    /\ view' = [view EXCEPT ![c] = {}]
    /\ got' = [got EXCEPT ![c] = <<>>]
    /\ offered' = [offered EXCEPT ![c] = <<>>]
    /\ UNCHANGED <<members, peers, roomOf, snapshot, kicked, sends>>

Hangup(c) == writer[c] = "running" /\ EndRead(c)

ReadCancelled(c) == writer[c] = "stopped" /\ EndRead(c)

(* Mutant of Leave: leaves the connection in peers. *)
ForgetsPeersLeave(c) ==
    /\ stage[c] = "ended"
    /\ stage' = [stage EXCEPT ![c] = "closed"]
    /\ members' = [members EXCEPT ![roomOf[c]] = @ \ {c}]
    /\ Enqueue(members[roomOf[c]] \ {c}, [type |-> "peer-left", id |-> c])
    /\ UNCHANGED <<peers, roomOf, snapshot, writer, clientVars, sends>>

Leave(c) ==
    /\ stage[c] = "ended"
    /\ stage' = [stage EXCEPT ![c] = "closed"]
    /\ members' = [members EXCEPT ![roomOf[c]] = @ \ {c}]
    /\ peers' = peers \ {c}
    /\ Enqueue(members[roomOf[c]] \ {c}, [type |-> "peer-left", id |-> c])
    /\ UNCHANGED <<roomOf, snapshot, writer, clientVars, sends>>

-----------------------------------------------------------------------------
(* The writer goroutine.  select picks any ready case: a kicked connection  *)
(* may still be sent some of its queue.                                     *)

(* What a received message does to the browser's list of peers.             *)
Seen(known, m) ==
    CASE m.type = "welcome"     -> known \cup m.peers
      [] m.type = "peer-joined" -> known \cup {m.id}
      [] m.type = "peer-left"   -> known \ {m.id}
      [] m.type = "relay"       -> known

Deliver(c) ==
    /\ writer[c] = "running"
    /\ send[c] # <<>>
    /\ send' = [send EXCEPT ![c] = Tail(@)]
    /\ got' = [got EXCEPT ![c] = Append(@, Head(send[c]))]
    /\ view' = [view EXCEPT ![c] = Seen(@, Head(send[c]))]
    /\ UNCHANGED <<hubVars, kicked, writer, offered, sends>>

StopWriter(c) ==
    /\ writer[c] = "running"
    /\ writer' = [writer EXCEPT ![c] = "stopped"]
    /\ UNCHANGED <<hubVars, send, kicked, clientVars, offered, sends>>

(* Mutant of KickReady: empties the queue before looking at the kick. *)
KickWhenDrained(c) == kicked[c] /\ send[c] = <<>>

KickReady(c) == kicked[c]

TakeKick(c) == KickReady(c) /\ StopWriter(c)

(* A write or a ping fails or takes longer than writeTimeout.  (A message   *)
(* being written then counts as still queued.)                              *)
WriteFails(c) == StopWriter(c)

-----------------------------------------------------------------------------
Next ==
    \/ \E c \in Conns, r \in Rooms : Join(c, r)
    \/ \E c \in Conns, r \in Rooms : RefuseFull(c, r)
    \/ \E c \in Conns, to \in Conns \cup {All} : Forward(c, to)
    \/ \E c \in Conns : Welcome(c)
    \/ \E c \in Conns : Hangup(c)
    \/ \E c \in Conns : ReadCancelled(c)
    \/ \E c \in Conns : Leave(c)
    \/ \E c \in Conns : Deliver(c)
    \/ \E c \in Conns : TakeKick(c)
    \/ \E c \in Conns : WriteFails(c)

Spec == Init /\ [][Next]_vars

(* The goroutines of one connection run: ServeWS gets on from join to the   *)
(* welcome and from the end of readLoop to leave, a cancelled read returns, *)
(* and a writer takes the kick (select picks among ready cases at random    *)
(* and every write ends within writeTimeout).  Nothing obliges a browser to *)
(* read, to send or to hang up.                                             *)
FairSpec ==
    /\ Spec
    /\ \A c \in Conns :
         WF_vars(Welcome(c)) /\ WF_vars(ReadCancelled(c))
           /\ WF_vars(Leave(c)) /\ WF_vars(TakeKick(c))

-----------------------------------------------------------------------------
(* Every variable holds a value of its kind; queues never exceed their      *)
(* capacity.                                                                *)
TypeOK ==
    /\ members \in [Rooms -> SUBSET Conns]
    /\ peers \in SUBSET Conns
    /\ roomOf \in [Conns -> Rooms \cup {None}]
    /\ stage \in [Conns -> Stage]
    /\ snapshot \in [Conns -> SUBSET Conns]
    /\ send \in [Conns -> {q \in Seq(Message) : Len(q) <= QueueLen}]
    /\ kicked \in [Conns -> BOOLEAN]
    /\ writer \in [Conns -> {"off", "running", "stopped"}]
    /\ view \in [Conns -> SUBSET Conns]
    /\ got \in [Conns -> Seq(Message)]
    /\ offered \in [Conns -> Seq(Message)]
    /\ sends \in 0..MaxForwards

(* The two tables of the hub agree with each other and with the sessions:   *)
(* a connection is in its room and in peers from join to leave, in no other *)
(* room, and no room holds more than MaxPeers.  (Connected, which gates the *)
(* TURN relay, reads peers.)                                                *)
HubConsistent ==
    /\ \A c \in Conns :
         c \in peers <=> stage[c] \in {"joined", "serving", "ended"}
    /\ \A c \in Conns, r \in Rooms :
         c \in members[r] <=> (c \in peers /\ roomOf[c] = r)
    /\ \A r \in Rooms : Cardinality(members[r]) <= MaxPeers

(* "a peer that cannot keep up is disconnected rather than silently losing  *)
(* messages": what a browser has received is what it was sent, in order and *)
(* without a gap, unless it is marked for disconnection.                    *)
GapFree ==
    \A c \in Conns :
      ~kicked[c] => offered[c] = got[c] \o send[c]

(* An open connection is only sent messages of peers it can know: one that  *)
(* was in its room when it joined or was announced to it earlier, and none  *)
(* after that peer was reported to have left.                               *)
KnownSenders ==
    \A c \in Conns : \A i \in 1..Len(offered[c]) :
      LET m == offered[c][i] IN
      (stage[c] \in {"joined", "serving"} /\ m.type = "relay") =>
        /\ roomOf[m.id] = roomOf[c]
        /\ \/ m.id \in snapshot[c]
           \/ \E j \in 1..(i - 1) : offered[c][j] = [type |-> "peer-joined", id |-> m.id]
        /\ \A j \in 1..(i - 1) : offered[c][j] # [type |-> "peer-left", id |-> m.id]

(* "every signaling ID in the room, key or not" (room.js on roomPeers): a   *)
(* browser that has read everything it was sent knows everybody who is in   *)
(* the room, and nobody else, however joins, welcomes and departures        *)
(* interleave.  Only a peer that left between this connection's join and    *)
(* its welcome is known for good: the welcome lists it after its departure  *)
(* was reported.                                                            *)
UpToDate(c) ==
    /\ stage[c] = "serving" /\ writer[c] = "running" /\ ~kicked[c]
    /\ send[c] = <<>>

LeftBeforeWelcome(c) ==
    {p \in snapshot[c] :
       \E i, j \in DOMAIN got[c] :
         /\ i < j
         /\ got[c][i] = [type |-> "peer-left", id |-> p]
         /\ got[c][j].type = "welcome"}

RoomListed ==
    \A c \in Conns :
      UpToDate(c) => view[c] = (members[roomOf[c]] \ {c}) \cup LeftBeforeWelcome(c)

(* A connection that must go is gone: once its writer has returned or it is *)
(* marked for disconnection, its session ends and it leaves both tables,    *)
(* whatever its browser does or fails to do.                                *)
DroppedLeaves ==
    \A c \in Conns :
      (kicked[c] \/ writer[c] = "stopped") ~> (stage[c] = "closed" /\ c \notin peers)

(* What the hub does is RoomFeed: a connection is served from join until it *)
(* is marked for disconnection or its writer or its session ends, its feed  *)
(* is what enqueue was called with, and what it has read of it is what the  *)
(* browser received.                                                        *)
Served ==
    {c \in Conns : stage[c] \in {"joined", "serving"} /\ ~kicked[c] /\ writer[c] # "stopped"}

Feed == INSTANCE RoomFeed WITH
    Payloads <- 1..MaxForwards,
    room   <- [c \in Conns |-> IF c \in peers THEN roomOf[c] ELSE None],
    found  <- [c \in Conns |-> IF c \in peers THEN snapshot[c] ELSE {}],
    served <- Served,
    told   <- [c \in Conns |-> IF c \in Served THEN offered[c] ELSE <<>>],
    heard  <- [c \in Conns |-> IF c \in Served THEN got[c] ELSE <<>>]

ImplementsFeed == Feed!Spec
=============================================================================
