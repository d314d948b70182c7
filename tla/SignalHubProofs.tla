--------------------------- MODULE SignalHubProofs ---------------------------
(***************************************************************************)
(* Theorems about SignalHub for every set of connections and rooms and      *)
(* every size of rooms and queues.                                          *)
(***************************************************************************)
EXTENDS SignalHub, FiniteSetTheorems, SequenceTheorems, TLAPS

Joined(p) == [type |-> "peer-joined", id |-> p]
Left(p) == [type |-> "peer-left", id |-> p]
Listening(c) == stage[c] \in {"joined", "serving"}
Offers(c) == 1..Len(offered[c])

-----------------------------------------------------------------------------
(* The inductive invariant.                                                 *)

(* A session has a room from join on, and is sent nothing before.           *)
Sessions ==
    \A c \in Conns :
      /\ stage[c] \in {"new", "refused"} => roomOf[c] = None /\ offered[c] = <<>>
      /\ stage[c] \notin {"new", "refused"} => roomOf[c] \in Rooms

Finite == \A r \in Rooms : IsFiniteSet(members[r])

(* A departure is reported once, by the step that closes the session.       *)
LeftOnce ==
    \A c \in Conns, p \in Conns : \A i \in Offers(c) :
      offered[c][i] = Left(p) =>
        /\ stage[p] = "closed"
        /\ \A j \in Offers(c) : offered[c][j] = Left(p) => i = j

(* Whom a connection was told of: by the list its join returned or later.   *)
Announced(c, p) ==
    p \in snapshot[c] \/ \E i \in Offers(c) : offered[c][i] = Joined(p)

(* An open connection is told of everybody in its room, of nobody else, and *)
(* of every departure among them.                                           *)
Neighbours ==
    \A c \in Conns, p \in Conns :
      Listening(c) =>
        /\ p \in members[roomOf[c]] \ {c} => Announced(c, p)
        /\ Announced(c, p) => /\ p # c
                              /\ roomOf[p] = roomOf[c]
                              /\ stage[p] = "closed" =>
                                   \E j \in Offers(c) : offered[c][j] = Left(p)

JoinedBeforeLeft ==
    \A c \in Conns, p \in Conns : \A i, j \in Offers(c) :
      (Listening(c) /\ offered[c][i] = Joined(p) /\ offered[c][j] = Left(p)) => i < j

(* The welcome of an open connection carries the list its join returned.    *)
Welcomed ==
    \A c \in Conns :
      /\ Listening(c) =>
           \A i \in Offers(c) : offered[c][i].type = "welcome" =>
             stage[c] = "serving" /\ offered[c][i].peers = snapshot[c]
      /\ stage[c] = "serving" =>
           \E i \in Offers(c) : offered[c][i] = [type |-> "welcome", peers |-> snapshot[c]]

(* The browser's list is what the received messages say, the last word on a *)
(* peer counting.                                                           *)
Adds(m, p) == m = Joined(p) \/ (m.type = "welcome" /\ p \in m.peers)

Known(s) ==
    {p \in Conns : \E i \in 1..Len(s) :
       Adds(s[i], p) /\ \A j \in 1..Len(s) : j > i => s[j] # Left(p)}

ViewFollows == \A c \in Conns : view[c] = Known(got[c])

Inv ==
    /\ TypeOK /\ Sessions /\ HubConsistent /\ Finite
    /\ GapFree /\ ViewFollows
    /\ LeftOnce /\ Neighbours /\ JoinedBeforeLeft /\ Welcomed /\ KnownSenders

-----------------------------------------------------------------------------
(* A queue is filled at its end and emptied at its head.                    *)
LEMMA AppendToConcat ==
    ASSUME NEW s \in Seq(Message), NEW t \in Seq(Message), NEW m \in Message
    PROVE  Append(s \o t, m) = s \o Append(t, m)
OBVIOUS

LEMMA HeadMoves ==
    ASSUME NEW s \in Seq(Message), NEW t \in Seq(Message), t # <<>>
    PROVE  s \o t = Append(s, Head(t)) \o Tail(t)
OBVIOUS

(* The next message the browser gets is the first it has not received.      *)
LEMMA NextToHear ==
    ASSUME NEW s \in Seq(Message), NEW t \in Seq(Message), t # <<>>
    PROVE  Len(s) < Len(s \o t) /\ (s \o t)[Len(s) + 1] = Head(t)
<1>1. Len(t) \in Nat \ {0} /\ Len(s) \in Nat /\ Head(t) = t[1]
  BY LenProperties, EmptySeq
<1> QED
  BY <1>1, ConcatProperties

(* What enqueue does to a connection it is called for, and to the others.   *)
LEMMA EnqueueLemma ==
    ASSUME TypeOK, NEW cs \in SUBSET Conns, NEW m \in Message, Enqueue(cs, m)
    PROVE  /\ send' \in [Conns -> {q \in Seq(Message) : Len(q) <= QueueLen}]
           /\ kicked' \in [Conns -> BOOLEAN]
           /\ offered' \in [Conns -> Seq(Message)]
           /\ \A c \in Conns :
                /\ Len(offered'[c]) = Len(offered[c]) + (IF c \in cs THEN 1 ELSE 0)
                /\ \A i \in Offers(c) : offered'[c][i] = offered[c][i]
                /\ c \in cs => offered'[c][Len(offered[c]) + 1] = m
<1>1. ASSUME NEW c \in Conns
      PROVE  (IF c \in cs /\ ~Full(c) THEN Append(send[c], m) ELSE send[c])
               \in {q \in Seq(Message) : Len(q) <= QueueLen}
  <2>1. send[c] \in Seq(Message) /\ Len(send[c]) <= QueueLen
    BY DEF TypeOK
  <2>2. Append(send[c], m) \in Seq(Message) /\ Len(Append(send[c], m)) = Len(send[c]) + 1
    BY <2>1, AppendProperties
  <2>3. Len(send[c]) \in Nat
    BY <2>1, LenProperties
  <2> QED
    BY <2>1, <2>2, <2>3, SizesAssumption DEF Full
<1>2. send' \in [Conns -> {q \in Seq(Message) : Len(q) <= QueueLen}]
  BY <1>1 DEF Enqueue
<1>3. kicked' \in [Conns -> BOOLEAN]
  BY DEF Enqueue, TypeOK, Overflow, Full
<1>4. ASSUME NEW c \in Conns
      PROVE  /\ offered[c] \in Seq(Message)
             /\ Len(offered[c]) \in Nat
             /\ Append(offered[c], m) \in Seq(Message)
             /\ Len(Append(offered[c], m)) = Len(offered[c]) + 1
             /\ \A i \in Offers(c) : Append(offered[c], m)[i] = offered[c][i]
             /\ Append(offered[c], m)[Len(offered[c]) + 1] = m
  <2>1. offered[c] \in Seq(Message)
    BY DEF TypeOK
  <2> QED
    BY <2>1, AppendProperties, LenProperties DEF Offers
<1>5. offered' = [c \in Conns |-> IF c \in cs THEN Append(offered[c], m) ELSE offered[c]]
  BY DEF Enqueue
<1>6. offered' \in [Conns -> Seq(Message)]
  BY <1>4, <1>5
<1>7. ASSUME NEW c \in Conns
      PROVE  /\ Len(offered'[c]) = Len(offered[c]) + (IF c \in cs THEN 1 ELSE 0)
             /\ \A i \in Offers(c) : offered'[c][i] = offered[c][i]
             /\ c \in cs => offered'[c][Len(offered[c]) + 1] = m
  <2>1. CASE c \in cs
    <3>1. offered'[c] = Append(offered[c], m)
      BY <1>5, <2>1
    <3> QED
      BY <1>4, <2>1, <3>1
  <2>2. CASE c \notin cs
    <3>1. offered'[c] = offered[c]
      BY <1>5, <2>2
    <3> QED
      BY <1>4, <2>2, <3>1
  <2> QED
    BY <2>1, <2>2
<1> QED
  BY <1>2, <1>3, <1>6, <1>7

(* It leaves no gap behind in a connection it does not mark.                *)
LEMMA EnqueueGapFree ==
    ASSUME TypeOK, GapFree, NEW cs \in SUBSET Conns, NEW m \in Message,
           Enqueue(cs, m), got' = got
    PROVE  GapFree'
<1> SUFFICES ASSUME NEW c \in Conns, ~kicked'[c]
             PROVE  offered'[c] = got[c] \o send'[c]
  BY DEF GapFree
<1>1. /\ offered[c] \in Seq(Message) /\ got[c] \in Seq(Message) /\ send[c] \in Seq(Message)
  BY DEF TypeOK
<1>2. CASE c \in cs
  <2>1. ~kicked[c] /\ ~Full(c)
    BY <1>2 DEF Enqueue, Overflow
  <2>2. /\ send'[c] = Append(send[c], m)
        /\ offered'[c] = Append(offered[c], m)
        /\ offered[c] = got[c] \o send[c]
    BY <1>2, <2>1 DEF Enqueue, GapFree
  <2>3. Append(got[c] \o send[c], m) = got[c] \o Append(send[c], m)
    BY <1>1, AppendToConcat
  <2> QED
    BY <2>2, <2>3
<1>3. CASE c \notin cs
  BY <1>3 DEF Enqueue, GapFree
<1> QED
  BY <1>2, <1>3

(* The offered messages of the connections in cs grow by m at their end,    *)
(* those of the others stay.                                                *)
Grows(cs, m) ==
    \A c \in Conns :
      /\ c \notin cs => offered'[c] = offered[c]
      /\ \A i \in Offers(c) : i \in Offers(c)' /\ offered'[c][i] = offered[c][i]
      /\ c \in cs => Len(offered[c]) + 1 \in Offers(c)'
      /\ \A i \in Offers(c)' :
           \/ i \in Offers(c)
           \/ /\ c \in cs /\ offered'[c][i] = m
              /\ \A j \in Offers(c)' : j # i => j \in Offers(c) /\ j < i

LEMMA EnqueueGrows ==
    ASSUME TypeOK, NEW cs \in SUBSET Conns, NEW m \in Message, Enqueue(cs, m)
    PROVE  Grows(cs, m)
<1> SUFFICES ASSUME NEW c \in Conns
             PROVE  /\ c \notin cs => offered'[c] = offered[c]
                    /\ \A i \in Offers(c) : i \in Offers(c)' /\ offered'[c][i] = offered[c][i]
                    /\ c \in cs => Len(offered[c]) + 1 \in Offers(c)'
                    /\ \A i \in Offers(c)' :
                         \/ i \in Offers(c)
                         \/ /\ c \in cs /\ offered'[c][i] = m
                            /\ \A j \in Offers(c)' : j # i => j \in Offers(c) /\ j < i
  BY DEF Grows
<1>1. Len(offered[c]) \in Nat
  BY LenProperties DEF TypeOK
<1>2. /\ Len(offered'[c]) = Len(offered[c]) + (IF c \in cs THEN 1 ELSE 0)
      /\ \A i \in Offers(c) : offered'[c][i] = offered[c][i]
      /\ c \in cs => offered'[c][Len(offered[c]) + 1] = m
  BY EnqueueLemma
<1>3. c \notin cs => offered'[c] = offered[c]
  BY DEF Enqueue
<1>4. CASE c \in cs
  <2>1. Offers(c)' = 1..(Len(offered[c]) + 1)
    BY <1>2, <1>4 DEF Offers
  <2> QED
    BY <1>1, <1>2, <1>4, <2>1 DEF Offers
<1>5. CASE c \notin cs
  <2>1. Offers(c)' = Offers(c)
    BY <1>3, <1>5 DEF Offers
  <2> QED
    BY <1>3, <1>5, <2>1
<1> QED
  BY <1>4, <1>5

(* The messages the hub makes are messages of their kind.                   *)
LEMMA MessageKinds ==
    /\ \A p \in Conns : Joined(p) \in Message /\ Left(p) \in Message
    /\ \A ps \in SUBSET Conns : [type |-> "welcome", peers |-> ps] \in Message
    /\ \A p \in Conns, n \in 1..MaxForwards :
         [type |-> "relay", id |-> p, n |-> n] \in Message
BY DEF Joined, Left, Message

LEMMA MessageFields ==
    /\ \A p : Joined(p).type = "peer-joined" /\ Joined(p).id = p
    /\ \A p : Left(p).type = "peer-left" /\ Left(p).id = p
BY DEF Joined, Left

(* A connection in a room is open or about to leave, and has that room.     *)
LEMMA MemberLemma ==
    ASSUME Inv, NEW c \in Conns, NEW r \in Rooms
    PROVE  /\ c \in members[r] <=> (stage[c] \in {"joined", "serving", "ended"} /\ roomOf[c] = r)
           /\ c \in members[r] => c \in peers
BY DEF Inv, HubConsistent

LEMMA ListenerLemma ==
    ASSUME Inv, NEW c \in Conns, Listening(c)
    PROVE  roomOf[c] \in Rooms /\ c \in members[roomOf[c]]
BY DEF Inv, HubConsistent, Sessions, Listening

-----------------------------------------------------------------------------
(* One lemma per action.                                                    *)

LEMMA InitInv == Init => Inv
<1> SUFFICES ASSUME Init PROVE Inv
  OBVIOUS
<1> USE DEF Init
<1>1. TypeOK
  BY SizesAssumption DEF TypeOK, Stage
<1>2. Sessions /\ Finite
  BY FS_EmptySet DEF Sessions, Finite
<1>3. HubConsistent
  BY FS_EmptySet, SizesAssumption, NamesAssumption DEF HubConsistent
<1>4. GapFree
  BY DEF GapFree
<1>5. ViewFollows
  BY DEF ViewFollows, Known
<1>6. LeftOnce /\ Neighbours /\ JoinedBeforeLeft /\ Welcomed /\ KnownSenders
  BY DEF LeftOnce, Neighbours, JoinedBeforeLeft, Welcomed, KnownSenders, Listening, Offers
<1> QED
  BY <1>1, <1>2, <1>3, <1>4, <1>5, <1>6 DEF Inv

(* Steps of the writer and the browser change nothing the hub has or offers.*)
LEMMA HubUnchanged ==
    ASSUME Inv, UNCHANGED <<hubVars, offered>>
    PROVE  /\ Sessions' /\ HubConsistent' /\ Finite'
           /\ LeftOnce' /\ Neighbours' /\ JoinedBeforeLeft' /\ Welcomed' /\ KnownSenders'
BY DEF Inv, hubVars, Sessions, HubConsistent, Finite, LeftOnce, Neighbours, Announced,
       JoinedBeforeLeft, Welcomed, KnownSenders, Listening, Offers

LEMMA StopWriterInv ==
    ASSUME Inv, NEW c \in Conns, StopWriter(c)
    PROVE  Inv'
<1>1. TypeOK'
  BY DEF Inv, TypeOK, StopWriter, hubVars, clientVars
<1>2. GapFree'
  BY DEF Inv, GapFree, StopWriter, clientVars
<1>3. ViewFollows'
  BY DEF Inv, ViewFollows, StopWriter, clientVars
<1> QED
  BY <1>1, <1>2, <1>3, HubUnchanged DEF Inv, StopWriter

(* Adding the next message changes what the browser knows as it says.       *)
LEMMA KnownAppend ==
    ASSUME NEW s \in Seq(Message), NEW m \in Message
    PROVE  Known(Append(s, m)) = Seen(Known(s), m)
<1> DEFINE t == Append(s, m)
<1>1. /\ Len(s) \in Nat /\ Len(t) = Len(s) + 1
      /\ \A i \in 1..Len(s) : t[i] = s[i]
      /\ t[Len(s) + 1] = m
  BY LenProperties, AppendProperties
<1> HIDE DEF t
<1>2. ASSUME NEW p \in Conns
      PROVE  p \in Known(t) <=> (Adds(m, p) \/ (p \in Known(s) /\ m # Left(p)))
  <2>1. ASSUME Adds(m, p) PROVE p \in Known(t)
    <3>1. \A j \in 1..Len(t) : ~(j > Len(s) + 1)
      BY <1>1
    <3> QED
      BY <1>1, <2>1, <3>1 DEF Known
  <2>2. ASSUME p \in Known(s), m # Left(p) PROVE p \in Known(t)
    <3>1. PICK i \in 1..Len(s) : Adds(s[i], p) /\ \A j \in 1..Len(s) : j > i => s[j] # Left(p)
      BY <2>2 DEF Known
    <3>2. i \in 1..Len(t) /\ Adds(t[i], p)
      BY <1>1, <3>1
    <3>3. \A j \in 1..Len(t) : j > i => t[j] # Left(p)
      <4> SUFFICES ASSUME NEW j \in 1..Len(t), j > i PROVE t[j] # Left(p)
        OBVIOUS
      <4>1. CASE j \in 1..Len(s)
        BY <1>1, <3>1, <4>1
      <4>2. CASE j = Len(s) + 1
        BY <1>1, <2>2, <4>2
      <4> QED
        BY <1>1, <4>1, <4>2
    <3> QED
      BY <3>2, <3>3 DEF Known
  <2>3. ASSUME p \in Known(t), ~Adds(m, p) PROVE p \in Known(s) /\ m # Left(p)
    <3>1. PICK i \in 1..Len(t) : Adds(t[i], p) /\ \A j \in 1..Len(t) : j > i => t[j] # Left(p)
      BY <2>3 DEF Known
    <3>2. i \in 1..Len(s) /\ Adds(s[i], p)
      BY <1>1, <2>3, <3>1
    <3>3. Len(s) + 1 \in 1..Len(t) /\ Len(s) + 1 > i
      BY <1>1, <3>2
    <3>4. m # Left(p)
      BY <1>1, <3>1, <3>3
    <3>5. \A j \in 1..Len(s) : j > i => s[j] # Left(p)
      BY <1>1, <3>1
    <3> QED
      BY <3>2, <3>4, <3>5 DEF Known
  <2> QED
    BY <2>1, <2>2, <2>3
<1>3. \A p \in Conns : p \in Seen(Known(s), m) <=>
        (Adds(m, p) \/ (p \in Known(s) /\ m # Left(p)))
  <2>1. CASE m \in [type : {"welcome"}, peers : SUBSET Conns]
    BY <2>1 DEF Seen, Adds, Joined, Left
  <2>2. CASE m \in [type : {"peer-joined", "peer-left"}, id : Conns]
    BY <2>2 DEF Seen, Adds, Joined, Left
  <2>3. CASE m \in [type : {"relay"}, id : Conns, n : 1..MaxForwards]
    BY <2>3 DEF Seen, Adds, Joined, Left
  <2> QED
    BY <2>1, <2>2, <2>3 DEF Message
<1>4. Known(t) \subseteq Conns /\ Seen(Known(s), m) \subseteq Conns
  BY DEF Known, Seen, Message
<1> QED
  BY <1>2, <1>3, <1>4 DEF t

LEMMA DeliverInv ==
    ASSUME Inv, NEW c \in Conns, Deliver(c)
    PROVE  Inv'
<1> DEFINE m == Head(send[c])
<1>1. /\ send[c] \in Seq(Message) /\ send[c] # <<>> /\ got[c] \in Seq(Message)
      /\ Len(send[c]) \in Nat /\ Len(send[c]) <= QueueLen
  BY LenProperties DEF Inv, TypeOK, Deliver
<1>2. /\ m \in Message /\ Tail(send[c]) \in Seq(Message)
      /\ Len(Tail(send[c])) <= QueueLen
      /\ Append(got[c], m) \in Seq(Message)
  BY <1>1, HeadTailProperties, AppendProperties, SizesAssumption
<1> HIDE DEF m
<1>3. /\ send' = [send EXCEPT ![c] = Tail(@)]
      /\ got' = [got EXCEPT ![c] = Append(@, m)]
      /\ view' = [view EXCEPT ![c] = Seen(@, m)]
      /\ UNCHANGED <<hubVars, kicked, writer, offered, sends>>
  BY DEF Deliver, m
<1>4. view[c] = Known(got[c])
  BY DEF Inv, ViewFollows
<1>5. Seen(view[c], m) = Known(Append(got[c], m))
  BY <1>1, <1>2, <1>4, KnownAppend
<1>6. TypeOK'
  <2>1. Seen(view[c], m) \in SUBSET Conns
    BY <1>5 DEF Known
  <2> QED
    BY <1>2, <1>3, <2>1 DEF Inv, TypeOK, hubVars
<1>7. ViewFollows'
  BY <1>3, <1>5 DEF Inv, TypeOK, ViewFollows
<1>8. GapFree'
  <2> SUFFICES ASSUME NEW x \in Conns, ~kicked'[x]
               PROVE  offered'[x] = got'[x] \o send'[x]
    BY DEF GapFree
  <2>1. offered[x] = got[x] \o send[x] /\ offered'[x] = offered[x]
    BY <1>3 DEF Inv, GapFree
  <2>2. CASE x = c
    <3>1. got[c] \o send[c] = Append(got[c], m) \o Tail(send[c])
      BY <1>1, HeadMoves DEF m
    <3>2. got'[c] = Append(got[c], m) /\ send'[c] = Tail(send[c])
      BY <1>3 DEF Inv, TypeOK
    <3> QED
      BY <2>1, <2>2, <3>1, <3>2
  <2>3. CASE x # c
    BY <1>3, <2>1, <2>3 DEF Inv, TypeOK
  <2> QED
    BY <2>2, <2>3
<1> QED
  BY <1>3, <1>6, <1>7, <1>8, HubUnchanged DEF Inv

LEMMA RefuseFullInv ==
    ASSUME Inv, NEW c \in Conns, NEW r \in Rooms, RefuseFull(c, r)
    PROVE  Inv'
<1>1. /\ stage[c] = "new" /\ stage' = [stage EXCEPT ![c] = "refused"]
      /\ UNCHANGED <<members, peers, roomOf, snapshot, send, kicked, writer,
                     view, got, offered, sends>>
  BY DEF RefuseFull
<1>2. \A x \in Conns : /\ Listening(x)' = Listening(x)
                       /\ (stage'[x] = "serving") = (stage[x] = "serving")
                       /\ (stage'[x] = "closed") = (stage[x] = "closed")
  BY <1>1 DEF Inv, TypeOK, Listening
<1>3. TypeOK' /\ GapFree' /\ ViewFollows'
  BY <1>1 DEF Inv, TypeOK, Stage, GapFree, ViewFollows
<1>4. Sessions' /\ HubConsistent' /\ Finite'
  BY <1>1 DEF Inv, TypeOK, Sessions, HubConsistent, Finite
<1>5. LeftOnce' /\ Neighbours' /\ JoinedBeforeLeft' /\ Welcomed'
  BY <1>1, <1>2 DEF Inv, LeftOnce, Neighbours, Announced, JoinedBeforeLeft, Welcomed, Offers
<1>6. KnownSenders'
  BY <1>1, <1>2 DEF Inv, KnownSenders, Listening
<1> QED
  BY <1>3, <1>4, <1>5, <1>6 DEF Inv

LEMMA EndReadInv ==
    ASSUME Inv, NEW c \in Conns, EndRead(c)
    PROVE  Inv'
<1>1. /\ stage[c] = "serving" /\ stage' = [stage EXCEPT ![c] = "ended"]
      /\ writer' = [writer EXCEPT ![c] = "stopped"]
      /\ send' = [send EXCEPT ![c] = <<>>]
      /\ view' = [view EXCEPT ![c] = {}]
      /\ got' = [got EXCEPT ![c] = <<>>]
      /\ offered' = [offered EXCEPT ![c] = <<>>]
      /\ UNCHANGED <<members, peers, roomOf, snapshot, kicked, sends>>
  BY DEF EndRead, Reading
<1>2. /\ \A x \in Conns \ {c} :
           /\ stage'[x] = stage[x] /\ offered'[x] = offered[x] /\ send'[x] = send[x]
           /\ got'[x] = got[x] /\ view'[x] = view[x]
      /\ stage'[c] = "ended" /\ offered'[c] = <<>> /\ send'[c] = <<>>
      /\ got'[c] = <<>> /\ view'[c] = {}
  BY <1>1 DEF Inv, TypeOK
<1>3. TypeOK'
  <2>1. <<>> \in Seq(Message) /\ Len(<<>>) <= QueueLen
    BY SizesAssumption
  <2> QED
    BY <1>1, <2>1 DEF Inv, TypeOK, Stage
<1>4. Sessions' /\ HubConsistent' /\ Finite'
  BY <1>1, <1>2 DEF Inv, Sessions, HubConsistent, Finite
<1>5. GapFree'
  <2>1. <<>> \o <<>> = <<>>
    OBVIOUS
  <2>2. \A x \in Conns \ {c} : ~kicked[x] => offered[x] = got[x] \o send[x]
    BY DEF Inv, GapFree
  <2>3. \A x \in Conns \ {c} : ~kicked'[x] => offered'[x] = got'[x] \o send'[x]
    BY <1>1, <1>2, <2>2
  <2>4. offered'[c] = got'[c] \o send'[c]
    BY <1>2, <2>1
  <2> QED
    BY <2>3, <2>4 DEF GapFree
<1>6. ViewFollows'
  <2>1. Known(<<>>) = {}
    BY DEF Known
  <2> QED
    BY <1>2, <2>1 DEF Inv, ViewFollows
<1>7. /\ ~Listening(c)' /\ stage'[c] # "serving" /\ Offers(c)' = {}
      /\ \A x \in Conns \ {c} : Offers(x)' = Offers(x) /\ Listening(x)' = Listening(x)
      /\ \A x \in Conns : (stage'[x] = "closed") = (stage[x] = "closed")
  BY <1>1, <1>2 DEF Listening, Offers
<1>8. LeftOnce' /\ JoinedBeforeLeft'
  BY <1>2, <1>7 DEF Inv, LeftOnce, JoinedBeforeLeft
<1>9. Neighbours'
  BY <1>1, <1>2, <1>7 DEF Inv, Neighbours, Announced
<1>10. Welcomed'
  BY <1>1, <1>2, <1>7 DEF Inv, Welcomed
<1>11. KnownSenders'
  <2>1. KnownSenders
    BY DEF Inv
  <2>2. UNCHANGED <<roomOf, snapshot>>
    BY <1>1
  <2> QED
    BY <1>2, <2>1, <2>2 DEF KnownSenders
<1> QED
  BY <1>3, <1>4, <1>5, <1>6, <1>8, <1>9, <1>10, <1>11 DEF Inv

LEMMA ForwardInv ==
    ASSUME Inv, NEW c \in Conns, NEW to \in Conns \cup {All}, Forward(c, to)
    PROVE  Inv'
<1> DEFINE m == [type |-> "relay", id |-> c, n |-> sends + 1]
<1> DEFINE cs == Recipients(c, to)
<1>1. /\ Listening(c) /\ Enqueue(cs, m) /\ sends' = sends + 1 /\ sends < MaxForwards
      /\ UNCHANGED <<hubVars, writer, clientVars>>
  BY DEF Forward, Reading, Listening
<1>2. c \in members[roomOf[c]] /\ roomOf[c] \in Rooms
  BY <1>1, ListenerLemma
<1>3. /\ cs \in SUBSET Conns
      /\ \A x \in cs : x # c /\ roomOf[x] = roomOf[c]
  BY <1>2, MemberLemma DEF Recipients, Inv, TypeOK
<1>4. m \in Message /\ sends' \in 0..MaxForwards
  <2>1. sends + 1 \in 1..MaxForwards
    BY <1>1, SizesAssumption DEF Inv, TypeOK
  <2> QED
    BY <1>1, <2>1, MessageKinds
<1>5. m.type = "relay" /\ m.id = c /\ \A p : m # Joined(p) /\ m # Left(p)
  BY MessageFields
<1> HIDE DEF m, cs
<1>6. Grows(cs, m)
  BY <1>1, <1>3, <1>4, EnqueueGrows DEF Inv
<1>7. TypeOK'
  BY <1>1, <1>3, <1>4, EnqueueLemma DEF Inv, TypeOK, hubVars, clientVars
<1>8. GapFree' /\ ViewFollows'
  <2>1. GapFree'
    BY <1>1, <1>3, <1>4, EnqueueGapFree DEF Inv, clientVars
  <2>2. ViewFollows'
    BY <1>1 DEF Inv, ViewFollows, clientVars
  <2> QED
    BY <2>1, <2>2
<1>9. Sessions' /\ HubConsistent' /\ Finite'
  <2>1. Sessions'
    <3> SUFFICES ASSUME NEW x \in Conns, stage[x] \in {"new", "refused"}
                 PROVE  x \notin cs
      BY <1>1, <1>6 DEF Inv, Sessions, hubVars, Grows
    <3> QED
      BY <1>2, <1>3, NamesAssumption DEF Inv, Sessions
  <2> QED
    BY <1>1, <2>1 DEF Inv, HubConsistent, Finite, hubVars
<1>10. LeftOnce' /\ JoinedBeforeLeft'
  BY <1>1, <1>5, <1>6 DEF Inv, LeftOnce, JoinedBeforeLeft, hubVars, Grows, Listening
<1>11. Neighbours'
  <2>1. \A x, p \in Conns : Announced(x, p)' = Announced(x, p)
    BY <1>1, <1>5, <1>6 DEF Announced, hubVars, Grows
  <2> QED
    BY <1>1, <1>6, <2>1 DEF Inv, Neighbours, hubVars, Grows, Listening
<1>12. Welcomed'
  BY <1>1, <1>5, <1>6 DEF Inv, Welcomed, hubVars, Grows, Listening
<1>13. KnownSenders'
  <2> SUFFICES ASSUME NEW x \in Conns, NEW i \in Offers(x)', Listening(x),
                      offered'[x][i].type = "relay"
               PROVE  LET p == offered'[x][i].id IN
                      /\ roomOf[p] = roomOf[x]
                      /\ \/ p \in snapshot[x]
                         \/ \E j \in 1..(i - 1) : offered'[x][j] = Joined(p)
                      /\ \A j \in 1..(i - 1) : offered'[x][j] # Left(p)
    BY <1>1 DEF KnownSenders, Offers, hubVars, Listening, Joined, Left
  <2>1. Len(offered[x]) \in Nat
    BY LenProperties DEF Inv, TypeOK
  <2>2. CASE i \in Offers(x)
    <3>1. \A j \in 1..i : offered'[x][j] = offered[x][j]
      BY <1>6, <2>1, <2>2 DEF Grows, Offers
    <3>2. offered'[x][i] = offered[x][i] /\ \A j \in 1..(i - 1) : j \in 1..i
      BY <2>1, <2>2, <3>1 DEF Offers
    <3>3. LET p == offered[x][i].id IN
          /\ roomOf[p] = roomOf[x]
          /\ \/ p \in snapshot[x]
             \/ \E j \in 1..(i - 1) : offered[x][j] = Joined(p)
          /\ \A j \in 1..(i - 1) : offered[x][j] # Left(p)
      BY <2>2, <3>2 DEF Inv, KnownSenders, Offers, Listening, Joined, Left
    <3> QED
      BY <3>1, <3>2, <3>3
  <2>3. CASE i \notin Offers(x)
    <3>1. /\ x \in cs /\ offered'[x][i] = m
          /\ \A j \in Offers(x)' : j # i => j \in Offers(x) /\ j < i
      BY <1>6, <2>3 DEF Grows
    <3>2. roomOf[c] = roomOf[x] /\ x # c
      BY <1>3, <3>1
    <3>3. Announced(x, c)
      BY <1>2, <3>2 DEF Inv, Neighbours
    <3>4. i = Len(offered[x]) + 1 /\ Offers(x) = 1..(i - 1)
      BY <1>6, <2>1, <2>3, <3>1 DEF Grows, Offers
    <3>5. \A j \in 1..(i - 1) : offered'[x][j] = offered[x][j]
      BY <1>6, <3>4 DEF Grows
    <3>6. \A j \in Offers(x) : offered[x][j] # Left(c)
      BY <1>1 DEF Inv, LeftOnce, Listening
    <3> QED
      BY <1>5, <3>1, <3>2, <3>3, <3>4, <3>5, <3>6 DEF Announced
  <2> QED
    BY <2>2, <2>3
<1> QED
  BY <1>7, <1>8, <1>9, <1>10, <1>11, <1>12, <1>13 DEF Inv

(* What was forwarded before stays forwarded by somebody known.             *)
LEMMA OldSenders ==
    ASSUME Inv, NEW cs, NEW m, Grows(cs, m), m.type # "relay",
           \A x \in Conns : roomOf[x] \in Rooms => roomOf'[x] = roomOf[x],
           \A x \in Conns : Listening(x)' =>
             \/ Listening(x) /\ snapshot'[x] = snapshot[x]
             \/ offered'[x] = <<>>
    PROVE  KnownSenders'
<1> SUFFICES ASSUME NEW x \in Conns, NEW i \in Offers(x)', Listening(x)',
                    offered'[x][i].type = "relay"
             PROVE  LET p == offered'[x][i].id IN
                    /\ roomOf'[p] = roomOf'[x]
                    /\ \/ p \in snapshot'[x]
                       \/ \E j \in 1..(i - 1) : offered'[x][j] = Joined(p)
                    /\ \A j \in 1..(i - 1) : offered'[x][j] # Left(p)
  BY DEF KnownSenders, Offers, Listening, Joined, Left
<1>1. Len(offered[x]) \in Nat
  BY LenProperties DEF Inv, TypeOK
<1>2. i \in Offers(x) /\ offered'[x][i] = offered[x][i]
  BY DEF Grows
<1>3. Listening(x) /\ snapshot'[x] = snapshot[x] /\ roomOf[x] \in Rooms
  <2>1. offered'[x] # <<>>
    BY DEF Offers
  <2> QED
    BY <2>1, ListenerLemma
<1>4. \A j \in 1..(i - 1) : offered'[x][j] = offered[x][j]
  BY <1>1, <1>2 DEF Grows, Offers
<1>5. offered[x][i].id \in Conns
  <2>1. offered[x][i] \in Message /\ offered[x][i].type = "relay"
    BY <1>2, ElementOfSeq DEF Inv, TypeOK, Offers
  <2> QED
    BY <2>1 DEF Message
<1>6. LET p == offered[x][i].id IN
      /\ roomOf[p] = roomOf[x]
      /\ \/ p \in snapshot[x]
         \/ \E j \in 1..(i - 1) : offered[x][j] = Joined(p)
      /\ \A j \in 1..(i - 1) : offered[x][j] # Left(p)
  BY <1>2, <1>3 DEF Inv, KnownSenders, Offers, Listening, Joined, Left
<1> QED
  BY <1>2, <1>3, <1>4, <1>5, <1>6

LEMMA WelcomeInv ==
    ASSUME Inv, NEW c \in Conns, Welcome(c)
    PROVE  Inv'
<1> DEFINE m == [type |-> "welcome", peers |-> snapshot[c]]
<1>1. /\ stage[c] = "joined" /\ stage' = [stage EXCEPT ![c] = "serving"]
      /\ writer' = [writer EXCEPT ![c] = "running"]
      /\ Enqueue({c}, m)
      /\ UNCHANGED <<members, peers, roomOf, snapshot, view, got, sends>>
  BY DEF Welcome
<1>2. m \in Message /\ m.type = "welcome" /\ m.peers = snapshot[c]
  BY MessageKinds DEF Inv, TypeOK
<1>3. \A p : m # Joined(p) /\ m # Left(p)
  BY MessageFields
<1> HIDE DEF m
<1>4. Grows({c}, m)
  BY <1>1, <1>2, EnqueueGrows DEF Inv
<1>5. /\ \A x \in Conns : Listening(x)' = Listening(x)
      /\ \A x \in Conns \ {c} : stage'[x] = stage[x]
      /\ Listening(c) /\ stage'[c] = "serving"
  BY <1>1 DEF Inv, TypeOK, Listening
<1>6. TypeOK'
  BY <1>1, <1>2, EnqueueLemma DEF Inv, TypeOK, Stage
<1>7. GapFree' /\ ViewFollows'
  <2>1. GapFree'
    BY <1>1, <1>2, EnqueueGapFree DEF Inv
  <2>2. ViewFollows'
    BY <1>1 DEF Inv, ViewFollows
  <2> QED
    BY <2>1, <2>2
<1>8. Sessions' /\ HubConsistent' /\ Finite'
  BY <1>1, <1>4, <1>5 DEF Inv, Sessions, HubConsistent, Finite, Grows
<1>9. LeftOnce' /\ JoinedBeforeLeft'
  BY <1>1, <1>3, <1>4, <1>5 DEF Inv, LeftOnce, JoinedBeforeLeft, Grows
<1>10. Neighbours'
  <2>1. \A x, p \in Conns : Announced(x, p)' = Announced(x, p)
    BY <1>1, <1>3, <1>4 DEF Announced, Grows
  <2> QED
    BY <1>1, <1>4, <1>5, <2>1 DEF Inv, Neighbours, Grows
<1>11. Welcomed'
  <2> SUFFICES ASSUME NEW x \in Conns
               PROVE  /\ Listening(x)' =>
                           \A i \in Offers(x)' : offered'[x][i].type = "welcome" =>
                             stage'[x] = "serving" /\ offered'[x][i].peers = snapshot'[x]
                      /\ stage'[x] = "serving" =>
                           \E i \in Offers(x)' : offered'[x][i] =
                             [type |-> "welcome", peers |-> snapshot'[x]]
    BY DEF Welcomed
  <2>1. CASE x = c
    <3>1. \A i \in Offers(c) : offered[c][i].type # "welcome"
      BY <1>1, <1>5 DEF Inv, Welcomed
    <3>2. Len(offered[c]) + 1 \in Offers(c)' /\ Len(offered[c]) + 1 \notin Offers(c)
      BY <1>4, LenProperties DEF Grows, Offers, Inv, TypeOK
    <3>3. offered'[c][Len(offered[c]) + 1] = m
      BY <1>4, <3>2 DEF Grows
    <3> QED
      BY <1>1, <1>2, <1>4, <1>5, <2>1, <3>1, <3>2, <3>3 DEF Grows, m
  <2>2. CASE x # c
    <3>1. Offers(x)' = Offers(x) /\ offered'[x] = offered[x]
      BY <1>4, <2>2 DEF Grows, Offers
    <3> QED
      BY <1>1, <1>5, <2>2, <3>1 DEF Inv, Welcomed
  <2> QED
    BY <2>1, <2>2
<1>12. KnownSenders'
  BY <1>1, <1>2, <1>4, <1>5, OldSenders
<1> QED
  BY <1>6, <1>7, <1>8, <1>9, <1>10, <1>11, <1>12 DEF Inv

LEMMA LeaveInv ==
    ASSUME Inv, NEW c \in Conns, Leave(c)
    PROVE  Inv'
<1> DEFINE m == Left(c)
<1> DEFINE r == roomOf[c]
<1> DEFINE cs == members[r] \ {c}
<1>1. /\ stage[c] = "ended" /\ stage' = [stage EXCEPT ![c] = "closed"]
      /\ members' = [members EXCEPT ![r] = @ \ {c}]
      /\ peers' = peers \ {c}
      /\ Enqueue(cs, m)
      /\ UNCHANGED <<roomOf, snapshot, writer, view, got, sends>>
  BY DEF Leave, clientVars, Left
<1>2. r \in Rooms /\ c \in members[r]
  BY <1>1 DEF Inv, Sessions, HubConsistent
<1>3. /\ cs \in SUBSET Conns
      /\ \A x \in Conns : x \in cs <=> (x # c /\ stage[x] \in {"joined", "serving", "ended"}
                                              /\ roomOf[x] = r)
  BY <1>2, MemberLemma DEF Inv, TypeOK
<1>4. /\ m \in Message /\ m.type = "peer-left"
      /\ \A p : m # Joined(p) /\ (m = Left(p) <=> p = c)
  BY MessageKinds, MessageFields
<1>5. \A rr \in Rooms : members'[rr] = IF rr = r THEN members[r] \ {c} ELSE members[rr]
  BY <1>1 DEF Inv, TypeOK
<1> HIDE DEF m, cs, r
<1>6. Grows(cs, m)
  BY <1>1, <1>3, <1>4, EnqueueGrows DEF Inv
<1>7. /\ \A x \in Conns : Listening(x)' = Listening(x)
      /\ \A x \in Conns \ {c} : stage'[x] = stage[x]
      /\ ~Listening(c) /\ stage'[c] = "closed"
  BY <1>1 DEF Inv, TypeOK, Listening
<1>8. TypeOK'
  <2>1. members' \in [Rooms -> SUBSET Conns]
    BY <1>1, <1>2, <1>3 DEF Inv, TypeOK, r
  <2> QED
    BY <1>1, <1>3, <1>4, <2>1, EnqueueLemma DEF Inv, TypeOK, Stage
<1>9. GapFree' /\ ViewFollows'
  <2>1. GapFree'
    BY <1>1, <1>3, <1>4, EnqueueGapFree DEF Inv
  <2>2. ViewFollows'
    BY <1>1 DEF Inv, ViewFollows
  <2> QED
    BY <2>1, <2>2
<1>10. Sessions'
  BY <1>1, <1>2, <1>3, <1>6, <1>7 DEF Inv, Sessions, Grows, r
<1>11. Finite'
  BY <1>5, FS_RemoveElement DEF Inv, Finite
<1>12. HubConsistent'
  <2>1. \A x \in Conns : x \in peers' <=> stage'[x] \in {"joined", "serving", "ended"}
    BY <1>1, <1>7 DEF Inv, HubConsistent
  <2>2. \A x \in Conns, rr \in Rooms : x \in members'[rr] <=> (x \in peers' /\ roomOf'[x] = rr)
    BY <1>1, <1>5 DEF Inv, HubConsistent, r
  <2>3. \A rr \in Rooms : Cardinality(members'[rr]) <= MaxPeers
    <3>1. Cardinality(members[r] \ {c}) = Cardinality(members[r]) - 1
      BY <1>2, FS_RemoveElement DEF Inv, Finite
    <3>2. Cardinality(members[r]) \in Nat /\ Cardinality(members[r]) <= MaxPeers
      BY <1>2, FS_CardinalityType DEF Inv, Finite, HubConsistent
    <3> QED
      BY <1>5, <3>1, <3>2, SizesAssumption DEF Inv, HubConsistent
  <2> QED
    BY <2>1, <2>2, <2>3 DEF HubConsistent
<1>13. LeftOnce'
  <2> SUFFICES ASSUME NEW x \in Conns, NEW p \in Conns, NEW i \in Offers(x)',
                      offered'[x][i] = Left(p)
               PROVE  /\ stage'[p] = "closed"
                      /\ \A j \in Offers(x)' : offered'[x][j] = Left(p) => i = j
    BY DEF LeftOnce
  <2>1. CASE p = c
    <3>1. \A j \in Offers(x) : offered[x][j] # Left(c)
      BY <1>1 DEF Inv, LeftOnce
    <3> QED
      BY <1>6, <1>7, <2>1, <3>1 DEF Grows
  <2>2. CASE p # c
    BY <1>4, <1>6, <1>7, <2>2 DEF Inv, LeftOnce, Grows
  <2> QED
    BY <2>1, <2>2
<1>14. Neighbours'
  <2>1. \A x, p \in Conns : Announced(x, p)' = Announced(x, p)
    BY <1>1, <1>4, <1>6 DEF Announced, Grows
  <2> SUFFICES ASSUME NEW x \in Conns, NEW p \in Conns, Listening(x)
               PROVE  /\ p \in members'[roomOf[x]] \ {x} => Announced(x, p)
                      /\ Announced(x, p) => /\ p # x
                                            /\ roomOf[p] = roomOf[x]
                                            /\ stage'[p] = "closed" =>
                                                 \E j \in Offers(x)' : offered'[x][j] = Left(p)
    BY <1>1, <1>7, <2>1 DEF Neighbours
  <2>2. roomOf[x] \in Rooms
    BY ListenerLemma
  <2>3. p \in members'[roomOf[x]] \ {x} => Announced(x, p)
    BY <1>5, <2>2 DEF Inv, Neighbours
  <2>4. ASSUME Announced(x, p), stage'[p] = "closed"
        PROVE  \E j \in Offers(x)' : offered'[x][j] = Left(p)
    <3>1. CASE p = c
      <4>1. roomOf[x] = r /\ x # c
        BY <2>4, <3>1 DEF Inv, Neighbours, r
      <4>2. x \in cs
        BY <1>3, <4>1 DEF Listening
      <4>3. Len(offered[x]) + 1 \in Offers(x)' /\ Len(offered[x]) + 1 \notin Offers(x)
        BY <1>6, <4>2, LenProperties DEF Grows, Offers, Inv, TypeOK
      <4>4. offered'[x][Len(offered[x]) + 1] = m
        BY <1>6, <4>3 DEF Grows
      <4> QED
        BY <1>4, <3>1, <4>3, <4>4
    <3>2. CASE p # c
      BY <1>6, <1>7, <2>4, <3>2 DEF Inv, Neighbours, Grows
    <3> QED
      BY <3>1, <3>2
  <2> QED
    BY <2>3, <2>4 DEF Inv, Neighbours
<1>15. JoinedBeforeLeft'
  <2> SUFFICES ASSUME NEW x \in Conns, NEW p \in Conns, NEW i \in Offers(x)', NEW j \in Offers(x)',
                      Listening(x), offered'[x][i] = Joined(p), offered'[x][j] = Left(p)
               PROVE  i < j
    BY <1>7 DEF JoinedBeforeLeft
  <2>1. i \in Offers(x) /\ offered[x][i] = Joined(p)
    BY <1>4, <1>6 DEF Grows
  <2>2. CASE j \in Offers(x)
    BY <1>6, <2>1, <2>2 DEF Inv, JoinedBeforeLeft, Grows
  <2>3. CASE j \notin Offers(x)
    BY <1>6, <2>1, <2>3 DEF Grows
  <2> QED
    BY <2>2, <2>3
<1>16. Welcomed'
  BY <1>1, <1>4, <1>6, <1>7 DEF Inv, Welcomed, Grows, Listening
<1>17. KnownSenders'
  BY <1>1, <1>4, <1>6, <1>7, OldSenders
<1> QED
  BY <1>8, <1>9, <1>10, <1>11, <1>12, <1>13, <1>14, <1>15, <1>16, <1>17 DEF Inv

LEMMA JoinInv ==
    ASSUME Inv, NEW c \in Conns, NEW r \in Rooms, Join(c, r)
    PROVE  Inv'
<1> DEFINE m == Joined(c)
<1> DEFINE cs == members[r]
<1>1. /\ stage[c] = "new" /\ stage' = [stage EXCEPT ![c] = "joined"]
      /\ Cardinality(members[r]) < MaxPeers
      /\ roomOf' = [roomOf EXCEPT ![c] = r]
      /\ snapshot' = [snapshot EXCEPT ![c] = members[r]]
      /\ members' = [members EXCEPT ![r] = @ \cup {c}]
      /\ peers' = peers \cup {c}
      /\ Enqueue(cs, m)
      /\ UNCHANGED <<writer, view, got, sends>>
  BY DEF Join, JoinSnapshot, Joined
<1>2. /\ cs \in SUBSET Conns
      /\ \A x \in Conns : x \in cs <=> (stage[x] \in {"joined", "serving", "ended"}
                                              /\ roomOf[x] = r)
  BY MemberLemma DEF Inv, TypeOK
<1>3. c \notin cs /\ offered[c] = <<>> /\ roomOf[c] \notin Rooms
  BY <1>1, <1>2, NamesAssumption DEF Inv, Sessions
<1>4. /\ m \in Message /\ m.type = "peer-joined"
      /\ \A p : m # Left(p) /\ (m = Joined(p) <=> p = c)
  BY MessageKinds, MessageFields
<1>5. /\ \A rr \in Rooms : members'[rr] = IF rr = r THEN members[r] \cup {c} ELSE members[rr]
      /\ \A x \in Conns : roomOf'[x] = IF x = c THEN r ELSE roomOf[x]
      /\ \A x \in Conns : snapshot'[x] = IF x = c THEN cs ELSE snapshot[x]
      /\ \A x \in Conns : stage'[x] = IF x = c THEN "joined" ELSE stage[x]
  BY <1>1 DEF Inv, TypeOK
<1> HIDE DEF m, cs
<1>6. Grows(cs, m)
  BY <1>1, <1>2, <1>4, EnqueueGrows DEF Inv
<1>7. /\ \A x \in Conns \ {c} : Listening(x)' = Listening(x)
      /\ Listening(c)' /\ ~Listening(c)
      /\ offered'[c] = <<>> /\ Offers(c)' = {}
  BY <1>1, <1>3, <1>5, <1>6 DEF Listening, Offers, Grows
<1>8. TypeOK'
  <2>1. /\ members' \in [Rooms -> SUBSET Conns] /\ peers' \in SUBSET Conns
        /\ snapshot' \in [Conns -> SUBSET Conns]
    BY <1>1 DEF Inv, TypeOK, cs
  <2> QED
    BY <1>1, <1>2, <1>4, <2>1, EnqueueLemma DEF Inv, TypeOK, Stage
<1>9. GapFree' /\ ViewFollows'
  <2>1. GapFree'
    BY <1>1, <1>2, <1>4, EnqueueGapFree DEF Inv
  <2>2. ViewFollows'
    BY <1>1 DEF Inv, ViewFollows
  <2> QED
    BY <2>1, <2>2
<1>10. Sessions'
  <2>1. \A x \in Conns : stage[x] \in {"new", "refused"} => x \notin cs
    BY <1>2
  <2> QED
    BY <1>5, <1>6, <2>1 DEF Inv, Sessions, Grows
<1>11. Finite'
  BY <1>5, FS_AddElement DEF Inv, Finite
<1>12. HubConsistent'
  <2>1. \A x \in Conns : x \in peers' <=> stage'[x] \in {"joined", "serving", "ended"}
    BY <1>1, <1>5 DEF Inv, HubConsistent
  <2>2. \A x \in Conns, rr \in Rooms : x \in members'[rr] <=> (x \in peers' /\ roomOf'[x] = rr)
    BY <1>1, <1>3, <1>5 DEF Inv, HubConsistent
  <2>3. \A rr \in Rooms : Cardinality(members'[rr]) <= MaxPeers
    <3>1. Cardinality(members[r] \cup {c}) = Cardinality(members[r]) + 1
      BY <1>3, FS_AddElement DEF Inv, Finite, cs
    <3>2. Cardinality(members[r]) \in Nat
      BY FS_CardinalityType DEF Inv, Finite
    <3> QED
      BY <1>1, <1>5, <3>1, <3>2, SizesAssumption DEF Inv, HubConsistent
  <2> QED
    BY <2>1, <2>2, <2>3 DEF HubConsistent
<1>13. LeftOnce'
  BY <1>1, <1>4, <1>5, <1>6 DEF Inv, LeftOnce, Grows
<1>14. Neighbours'
  <2> SUFFICES ASSUME NEW x \in Conns, NEW p \in Conns, Listening(x)'
               PROVE  /\ p \in members'[roomOf'[x]] \ {x} => Announced(x, p)'
                      /\ Announced(x, p)' => /\ p # x
                                             /\ roomOf'[p] = roomOf'[x]
                                             /\ stage'[p] = "closed" =>
                                                  \E j \in Offers(x)' : offered'[x][j] = Left(p)
    BY DEF Neighbours
  <2>1. CASE x = c
    <3>1. Announced(x, p)' <=> p \in cs
      BY <1>5, <1>7, <2>1 DEF Announced
    <3>2. members'[roomOf'[x]] \ {x} = cs
      BY <1>3, <1>5, <2>1 DEF cs
    <3> QED
      BY <1>2, <1>3, <1>5, <2>1, <3>1, <3>2
  <2>2. CASE x # c
    <3>1. /\ Listening(x) /\ roomOf[x] \in Rooms
          /\ roomOf'[x] = roomOf[x] /\ snapshot'[x] = snapshot[x]
      BY <1>5, <1>7, <2>2, ListenerLemma
    <3>2. Announced(x, p)' <=> (Announced(x, p) \/ (x \in cs /\ p = c))
      <4>1. x \in cs => \E i \in Offers(x)' : offered'[x][i] = m
        <5>1. x \in cs => Len(offered[x]) + 1 \in Offers(x)' /\ Len(offered[x]) + 1 \notin Offers(x)
          BY <1>6, LenProperties DEF Grows, Offers, Inv, TypeOK
        <5> QED
          BY <1>6, <5>1 DEF Grows
      <4> QED
        BY <1>4, <1>6, <3>1, <4>1 DEF Announced, Grows
    <3>3. ASSUME p \in members'[roomOf'[x]] \ {x} PROVE Announced(x, p)'
      <4>1. CASE p = c
        <5>1. roomOf[x] = r
          BY <1>3, <1>5, <3>1, <3>3, <4>1 DEF cs, Inv, HubConsistent
        <5> QED
          BY <1>2, <3>1, <3>2, <4>1, <5>1, ListenerLemma DEF cs
      <4>2. CASE p # c
        BY <1>5, <3>1, <3>2, <3>3, <4>2 DEF Inv, Neighbours, cs
      <4> QED
        BY <4>1, <4>2
    <3>4. ASSUME Announced(x, p)'
          PROVE  /\ p # x
                 /\ roomOf'[p] = roomOf'[x]
                 /\ stage'[p] = "closed" => \E j \in Offers(x)' : offered'[x][j] = Left(p)
      <4>1. CASE p = c
        <5>1. x \in cs
          BY <1>3, <3>1, <3>2, <3>4, <4>1 DEF Inv, Neighbours
        <5> QED
          BY <1>2, <1>5, <2>2, <3>1, <4>1, <5>1
      <4>2. CASE p # c
        <5>1. /\ p # x /\ roomOf[p] = roomOf[x]
              /\ stage[p] = "closed" => \E j \in Offers(x) : offered[x][j] = Left(p)
          BY <3>1, <3>2, <3>4, <4>2 DEF Inv, Neighbours
        <5> QED
          BY <1>5, <1>6, <3>1, <4>2, <5>1 DEF Grows
      <4> QED
        BY <4>1, <4>2
    <3> QED
      BY <3>3, <3>4
  <2> QED
    BY <2>1, <2>2
<1>15. JoinedBeforeLeft'
  <2> SUFFICES ASSUME NEW x \in Conns, NEW p \in Conns, NEW i \in Offers(x)', NEW j \in Offers(x)',
                      Listening(x)', offered'[x][i] = Joined(p), offered'[x][j] = Left(p)
               PROVE  i < j
    BY DEF JoinedBeforeLeft
  <2>1. x # c /\ Listening(x)
    BY <1>7
  <2>2. j \in Offers(x) /\ offered[x][j] = Left(p)
    BY <1>4, <1>6 DEF Grows
  <2>3. p # c
    BY <1>1, <2>2 DEF Inv, LeftOnce
  <2>4. i \in Offers(x) /\ offered[x][i] = Joined(p)
    BY <1>4, <1>6, <2>3 DEF Grows
  <2> QED
    BY <2>1, <2>2, <2>4 DEF Inv, JoinedBeforeLeft
<1>16. Welcomed'
  <2> SUFFICES ASSUME NEW x \in Conns, Listening(x)'
               PROVE  /\ \A i \in Offers(x)' : offered'[x][i].type = "welcome" =>
                           stage'[x] = "serving" /\ offered'[x][i].peers = snapshot'[x]
                      /\ stage'[x] = "serving" =>
                           \E i \in Offers(x)' : offered'[x][i] =
                             [type |-> "welcome", peers |-> snapshot'[x]]
    BY DEF Welcomed, Listening
  <2>1. CASE x = c
    BY <1>5, <1>7, <2>1
  <2>2. CASE x # c
    <3>1. Listening(x) /\ snapshot'[x] = snapshot[x] /\ stage'[x] = stage[x]
      BY <1>5, <1>7, <2>2
    <3> QED
      BY <1>4, <1>6, <3>1 DEF Inv, Welcomed, Grows
  <2> QED
    BY <2>1, <2>2
<1>17. KnownSenders'
  <2>1. \A x \in Conns : roomOf[x] \in Rooms => roomOf'[x] = roomOf[x]
    BY <1>3, <1>5
  <2>2. \A x \in Conns : Listening(x)' =>
          (Listening(x) /\ snapshot'[x] = snapshot[x]) \/ offered'[x] = <<>>
    BY <1>5, <1>7
  <2> QED
    BY <1>4, <1>6, <2>1, <2>2, OldSenders
<1> QED
  BY <1>8, <1>9, <1>10, <1>11, <1>12, <1>13, <1>14, <1>15, <1>16, <1>17 DEF Inv

LEMMA NextInv == Inv /\ [Next]_vars => Inv'
<1> SUFFICES ASSUME Inv, [Next]_vars PROVE Inv'
  OBVIOUS
<1>1. ASSUME NEW c \in Conns, NEW r \in Rooms, Join(c, r) PROVE Inv'
  BY <1>1, JoinInv
<1>2. ASSUME NEW c \in Conns, NEW r \in Rooms, RefuseFull(c, r) PROVE Inv'
  BY <1>2, RefuseFullInv
<1>3. ASSUME NEW c \in Conns, NEW to \in Conns \cup {All}, Forward(c, to) PROVE Inv'
  BY <1>3, ForwardInv
<1>4. ASSUME NEW c \in Conns, Welcome(c) PROVE Inv'
  BY <1>4, WelcomeInv
<1>5. ASSUME NEW c \in Conns, Hangup(c) \/ ReadCancelled(c) PROVE Inv'
  BY <1>5, EndReadInv DEF Hangup, ReadCancelled
<1>6. ASSUME NEW c \in Conns, Leave(c) PROVE Inv'
  BY <1>6, LeaveInv
<1>7. ASSUME NEW c \in Conns, Deliver(c) PROVE Inv'
  BY <1>7, DeliverInv
<1>8. ASSUME NEW c \in Conns, TakeKick(c) \/ WriteFails(c) PROVE Inv'
  BY <1>8, StopWriterInv DEF TakeKick, WriteFails
<1>9. CASE UNCHANGED vars
  <2>1. UNCHANGED <<hubVars, offered>> /\ UNCHANGED <<send, kicked, writer, view, got, sends>>
    BY <1>9 DEF vars, hubVars
  <2>2. TypeOK' /\ GapFree' /\ ViewFollows'
    BY <2>1 DEF Inv, TypeOK, GapFree, ViewFollows, hubVars
  <2> QED
    BY <2>1, <2>2, HubUnchanged DEF Inv
<1> QED
  BY <1>1, <1>2, <1>3, <1>4, <1>5, <1>6, <1>7, <1>8, <1>9 DEF Next

(* The inductive invariant holds in every reachable state.                  *)
THEOREM Invariance == Spec => []Inv
BY InitInv, NextInv, PTL DEF Spec

(* Every variable of the hub holds a value of its kind; no queue gets       *)
(* longer than its capacity.                                                *)
THEOREM TypeCorrect == Spec => []TypeOK
<1>1. Inv => TypeOK
  BY DEF Inv
<1> QED
  BY <1>1, Invariance, PTL

(* The two tables of the hub agree with each other and with the sessions    *)
(* (join and leave of hub.go), and no room gets fuller than Config.MaxPeers.*)
THEOREM HubConsistentHolds == Spec => []HubConsistent
<1>1. Inv => HubConsistent
  BY DEF Inv
<1> QED
  BY <1>1, Invariance, PTL

(* A browser never misses a message, unless its connection is marked for    *)
(* disconnection (enqueue of hub.go).                                       *)
THEOREM GapFreeHolds == Spec => []GapFree
<1>1. Inv => GapFree
  BY DEF Inv
<1> QED
  BY <1>1, Invariance, PTL

(* Forwarded messages come from peers the receiver was told of and not told *)
(* the departure of (join, forward and leave of hub.go).                    *)
THEOREM KnownSendersHolds == Spec => []KnownSenders
<1>1. Inv => KnownSenders
  BY DEF Inv
<1> QED
  BY <1>1, Invariance, PTL

-----------------------------------------------------------------------------
(* A browser that has read everything knows exactly its room, and the peers *)
(* that left before its welcome.                                            *)
LEMMA ListedLemma == Inv => RoomListed
<1> SUFFICES ASSUME Inv PROVE RoomListed
  OBVIOUS
<1> SUFFICES ASSUME NEW c \in Conns, UpToDate(c), NEW p \in Conns
             PROVE  p \in view[c] <=> (p \in members[roomOf[c]] \ {c} \/ p \in LeftBeforeWelcome(c))
  <2>1. ASSUME NEW c \in Conns, UpToDate(c)
        PROVE  /\ view[c] \subseteq Conns /\ members[roomOf[c]] \subseteq Conns
               /\ LeftBeforeWelcome(c) \subseteq Conns
    <3>1. roomOf[c] \in Rooms
      BY <2>1, ListenerLemma DEF UpToDate, Listening
    <3>2. LeftBeforeWelcome(c) \subseteq snapshot[c]
      BY DEF LeftBeforeWelcome
    <3> QED
      BY <3>1, <3>2 DEF Inv, TypeOK
  <2> QED
    BY <2>1 DEF RoomListed
<1>1. stage[c] = "serving" /\ Listening(c) /\ got[c] = offered[c]
  <2>1. got[c] \in Seq(Message)
    BY DEF Inv, TypeOK
  <2>2. got[c] \o <<>> = got[c]
    BY <2>1, ConcatEmptySeq
  <2> QED
    BY <2>2 DEF UpToDate, Listening, Inv, GapFree
<1>2. /\ DOMAIN got[c] = Offers(c) /\ Offers(c) \subseteq Nat
      /\ \A i \in Offers(c) : offered[c][i] \in Message
  BY <1>1, LenProperties, ElementOfSeq DEF Inv, TypeOK, Offers
<1>3. p \in view[c] <=> \E i \in Offers(c) :
        Adds(offered[c][i], p) /\ \A j \in Offers(c) : j > i => offered[c][j] # Left(p)
  BY <1>1 DEF Inv, ViewFollows, Known, Offers
<1>4. p \in LeftBeforeWelcome(c) <=>
        /\ p \in snapshot[c]
        /\ \E i, j \in Offers(c) : i < j /\ offered[c][i] = Left(p) /\ offered[c][j].type = "welcome"
  BY <1>1, <1>2 DEF LeftBeforeWelcome, Left
<1>5. PICK w \in Offers(c) : offered[c][w] = [type |-> "welcome", peers |-> snapshot[c]]
  BY <1>1 DEF Inv, Welcomed
<1>6. \A i \in Offers(c) : offered[c][i].type = "welcome" => offered[c][i].peers = snapshot[c]
  BY <1>1 DEF Inv, Welcomed
<1>7. ASSUME p \in members[roomOf[c]] \ {c}
      PROVE  p \in view[c]
  <2>1. Announced(c, p) /\ stage[p] # "closed"
    BY <1>1, <1>7, ListenerLemma, MemberLemma DEF Inv, Neighbours
  <2>2. \A j \in Offers(c) : offered[c][j] # Left(p)
    BY <2>1 DEF Inv, LeftOnce
  <2>3. PICK i \in Offers(c) : Adds(offered[c][i], p)
    BY <1>5, <2>1 DEF Announced, Adds
  <2> QED
    BY <1>3, <2>2, <2>3
<1>8. ASSUME p \in LeftBeforeWelcome(c)
      PROVE  p \in view[c]
  <2>1. PICK i \in Offers(c), j \in Offers(c) :
          i < j /\ offered[c][i] = Left(p) /\ offered[c][j].type = "welcome"
    BY <1>4, <1>8
  <2>2. Adds(offered[c][j], p)
    BY <1>4, <1>6, <1>8, <2>1 DEF Adds
  <2>3. \A k \in Offers(c) : k > j => offered[c][k] # Left(p)
    BY <1>2, <2>1 DEF Inv, LeftOnce
  <2> QED
    BY <1>3, <2>2, <2>3
<1>9. ASSUME p \in view[c], p \notin members[roomOf[c]] \ {c}
      PROVE  p \in LeftBeforeWelcome(c)
  <2>1. PICK i \in Offers(c) :
          Adds(offered[c][i], p) /\ \A j \in Offers(c) : j > i => offered[c][j] # Left(p)
    BY <1>3, <1>9
  <2>2. Announced(c, p)
    BY <1>6, <2>1 DEF Announced, Adds
  <2>3. p # c /\ roomOf[p] = roomOf[c] /\ roomOf[c] \in Rooms
    BY <1>1, <2>2, ListenerLemma DEF Inv, Neighbours
  <2>4. stage[p] = "closed"
    BY <1>9, <2>3, MemberLemma, NamesAssumption DEF Inv, Sessions, TypeOK, Stage
  <2>5. PICK j \in Offers(c) : offered[c][j] = Left(p)
    BY <1>1, <2>2, <2>4 DEF Inv, Neighbours
  <2>6. offered[c][i] # Joined(p)
    BY <1>1, <1>2, <2>1, <2>5 DEF Inv, JoinedBeforeLeft
  <2>7. offered[c][i].type = "welcome" /\ p \in snapshot[c]
    BY <1>6, <2>1, <2>6 DEF Adds
  <2>8. i # j
    BY <2>5, <2>7, MessageFields
  <2> QED
    BY <1>2, <1>4, <2>1, <2>5, <2>7, <2>8
<1> QED
  BY <1>7, <1>8, <1>9

(* The browser's list of peers is its room (roomPeers of room.js), however  *)
(* joins, welcomes and departures interleave, except for those who left     *)
(* between the connection's join and its welcome.                           *)
THEOREM RoomListedHolds == Spec => []RoomListed
BY ListedLemma, Invariance, PTL

-----------------------------------------------------------------------------
(* The hub implements RoomFeed.                                             *)

(* A session that has not joined is not marked and has received nothing;    *)
(* one that was not welcomed has no writer.                                 *)
Unserved ==
    \A c \in Conns :
      /\ stage[c] \in {"new", "refused"} => ~kicked[c] /\ got[c] = <<>>
      /\ stage[c] \in {"new", "refused", "joined"} => writer[c] = "off"

LEMMA InitUnserved == Init => Unserved
BY DEF Init, Unserved

LEMMA NextUnserved == Inv /\ Unserved /\ [Next]_vars => Unserved'
<1> SUFFICES ASSUME Inv, Unserved, [Next]_vars PROVE Unserved'
  OBVIOUS
<1> USE DEF Unserved
<1>0. ASSUME NEW x \in Conns, NEW r \in Rooms, x \in members[r]
      PROVE  stage[x] \notin {"new", "refused"}
  BY <1>0, MemberLemma
<1>1. ASSUME NEW c \in Conns, NEW r \in Rooms, Join(c, r) PROVE Unserved'
  BY <1>0, <1>1 DEF Join, Enqueue, Inv, TypeOK
<1>2. ASSUME NEW c \in Conns, NEW r \in Rooms, RefuseFull(c, r) PROVE Unserved'
  BY <1>2 DEF RefuseFull, Inv, TypeOK
<1>3. ASSUME NEW c \in Conns, NEW to \in Conns \cup {All}, Forward(c, to) PROVE Unserved'
  <2>1. roomOf[c] \in Rooms
    BY <1>3, ListenerLemma DEF Forward, Reading, Listening
  <2> QED
    BY <1>0, <1>3, <2>1 DEF Forward, Recipients, Enqueue, hubVars, clientVars, Inv, TypeOK
<1>4. ASSUME NEW c \in Conns, Welcome(c) PROVE Unserved'
  BY <1>4 DEF Welcome, Enqueue, Inv, TypeOK
<1>5. ASSUME NEW c \in Conns, EndRead(c) PROVE Unserved'
  BY <1>5 DEF EndRead, Reading, Inv, TypeOK
<1>6. ASSUME NEW c \in Conns, Leave(c) PROVE Unserved'
  <2>1. roomOf[c] \in Rooms
    BY <1>6 DEF Leave, Inv, Sessions
  <2> QED
    BY <1>0, <1>6, <2>1 DEF Leave, Enqueue, clientVars, Inv, TypeOK
<1>7. ASSUME NEW c \in Conns, Deliver(c) PROVE Unserved'
  BY <1>7 DEF Deliver, hubVars, Inv, TypeOK
<1>8. ASSUME NEW c \in Conns, StopWriter(c) PROVE Unserved'
  BY <1>8 DEF StopWriter, hubVars, clientVars, Inv, TypeOK
<1>9. CASE UNCHANGED vars
  BY <1>9 DEF vars
<1> QED
  BY <1>1, <1>2, <1>3, <1>4, <1>5, <1>6, <1>7, <1>8, <1>9
  DEF Next, Hangup, ReadCancelled, TakeKick, WriteFails

(* Who is in a room, in the terms of RoomFeed.                              *)
LEMMA InRoom ==
    ASSUME Inv, NEW r \in Rooms
    PROVE  Feed!In(r) = members[r]
<1>1. members[r] \subseteq Conns
  BY DEF Inv, TypeOK
<1>2. \A c \in Conns : c \in members[r] <=> (c \in peers /\ roomOf[c] = r)
  BY DEF Inv, HubConsistent
<1> QED
  BY <1>1, <1>2, NamesAssumption DEF Feed!In

(* Calling enqueue tells a message: what it marks is dropped.  (Tells is    *)
(* Feed!Tell, in the variables of the hub.)                                 *)
Told == [c \in Conns |-> IF c \in Served THEN offered[c] ELSE <<>>]
Heard == [c \in Conns |-> IF c \in Served THEN got[c] ELSE <<>>]

Tells(cs, m, open) ==
    \E dropped \in SUBSET cs :
      /\ Served' = open \ dropped
      /\ Told' = [c \in Conns |-> IF c \notin Served' THEN <<>>
                                  ELSE IF c \in cs THEN Append(Told[c], m) ELSE Told[c]]
      /\ Heard' = [c \in Conns |-> IF c \in Served' THEN Heard[c] ELSE <<>>]

LEMMA EnqueueTells ==
    ASSUME NEW cs \in SUBSET Conns, NEW m, Enqueue(cs, m), got' = got,
           NEW open, Served' \subseteq open, open \ Served' \subseteq cs,
           \A c \in Served' : c \in Served \/ (offered[c] = <<>> /\ got[c] = <<>>)
    PROVE  Tells(cs, m, open)
<1>1. \A c \in Conns : offered'[c] = IF c \in cs THEN Append(offered[c], m) ELSE offered[c]
  BY DEF Enqueue
<1> DEFINE dropped == open \ Served'
<1>2. dropped \in SUBSET cs /\ Served' = open \ dropped
  OBVIOUS
<1>3. \A c \in Conns : c \in Served' => Told[c] = offered[c] /\ Heard[c] = got[c]
  BY DEF Told, Heard
<1>4. Told' = [c \in Conns |-> IF c \notin Served' THEN <<>>
                               ELSE IF c \in cs THEN Append(Told[c], m) ELSE Told[c]]
  BY <1>1, <1>3 DEF Told
<1>5. Heard' = [c \in Conns |-> IF c \in Served' THEN Heard[c] ELSE <<>>]
  BY <1>3 DEF Heard
<1> QED
  BY <1>2, <1>4, <1>5 DEF Tells

(* A step that only stops serving one connection drops it, or is a stutter  *)
(* when it was not served.                                                  *)
LEMMA OneDropped ==
    ASSUME NEW c \in Conns, UNCHANGED <<peers, roomOf, snapshot>>,
           Served' = Served \ {c},
           \A x \in Served' : offered'[x] = offered[x] /\ got'[x] = got[x]
    PROVE  [Feed!Next]_(Feed!vars)
<1>1. CASE c \in Served
  <2>1. Feed!Drop(c)
    BY <1>1 DEF Feed!Drop
  <2> QED
    BY <2>1 DEF Feed!Next
<1>2. CASE c \notin Served
  BY <1>2 DEF Feed!vars
<1> QED
  BY <1>1, <1>2

(* What enqueue drops was in cs: a step that changes nothing else of who is *)
(* served serves whom it did, but for some of cs.                           *)
LEMMA StillServed ==
    ASSUME NEW cs \in SUBSET Conns, NEW m, Enqueue(cs, m)
    PROVE  /\ \A x \in Conns : x \notin cs => kicked'[x] = kicked[x]
           /\ \A x \in Conns : kicked[x] => kicked'[x]
BY DEF Enqueue, Overflow

LEMMA JoinEnters ==
    ASSUME Inv, Unserved, NEW c \in Conns, NEW r \in Rooms, Join(c, r)
    PROVE  Feed!Enter(c, r)
<1> DEFINE m == [type |-> "peer-joined", id |-> c]
<1>1. /\ stage[c] = "new" /\ stage' = [stage EXCEPT ![c] = "joined"]
      /\ roomOf' = [roomOf EXCEPT ![c] = r]
      /\ snapshot' = [snapshot EXCEPT ![c] = members[r]]
      /\ peers' = peers \cup {c}
      /\ Enqueue(members[r], m)
      /\ UNCHANGED <<writer, got>>
  BY DEF Join, JoinSnapshot
<1>2. /\ members[r] \in SUBSET Conns /\ c \notin members[r] /\ c \notin peers
      /\ members[r] \subseteq peers
  BY <1>1, MemberLemma DEF Inv, TypeOK, HubConsistent
<1>3. /\ ~kicked[c] /\ got[c] = <<>> /\ writer[c] = "off" /\ offered[c] = <<>>
  BY <1>1 DEF Unserved, Inv, Sessions
<1> HIDE DEF m
<1>4. /\ \A x \in Conns : x \notin members[r] => kicked'[x] = kicked[x]
      /\ \A x \in Conns : kicked[x] => kicked'[x]
  BY <1>1, <1>2, StillServed
<1>5. /\ stage'[c] = "joined"
      /\ \A x \in Conns \ {c} : stage'[x] = stage[x]
  BY <1>1 DEF Inv, TypeOK
<1>6. Served' \subseteq Served \cup {c} /\ (Served \cup {c}) \ Served' \subseteq members[r]
  BY <1>1, <1>2, <1>3, <1>4, <1>5 DEF Served
<1>7. \A x \in Served' : x \in Served \/ (offered[x] = <<>> /\ got[x] = <<>>)
  BY <1>3, <1>6
<1>8. Tells(members[r], m, Served \cup {c})
  <2> DEFINE open == Served \cup {c}
  <2>1. Served' \subseteq open /\ open \ Served' \subseteq members[r]
    BY <1>6
  <2> HIDE DEF open
  <2>2. Tells(members[r], m, open)
    BY <1>1, <1>2, <1>7, <2>1, EnqueueTells
  <2> QED
    BY <2>2 DEF open
<1>9. \A x \in Conns : /\ roomOf'[x] = IF x = c THEN r ELSE roomOf[x]
                       /\ snapshot'[x] = IF x = c THEN members[r] ELSE snapshot[x]
  BY <1>1 DEF Inv, TypeOK
<1>10. [x \in Conns |-> IF x \in peers' THEN roomOf'[x] ELSE None]
         = [[x \in Conns |-> IF x \in peers THEN roomOf[x] ELSE None] EXCEPT ![c] = r]
  BY <1>1, <1>2, <1>9
<1>11. [x \in Conns |-> IF x \in peers' THEN snapshot'[x] ELSE {}]
         = [[x \in Conns |-> IF x \in peers THEN snapshot[x] ELSE {}] EXCEPT ![c] = members[r]]
  BY <1>1, <1>2, <1>9
<1> QED
  <2>1. (IF c \in peers THEN roomOf[c] ELSE None) = None
    BY <1>2
  <2>2. Feed!Tell(members[r], m, Served \cup {c})
    BY <1>8 DEF Feed!Tell, Tells, Told, Heard
  <2>3. Feed!In(r) = members[r]
    BY InRoom
  <2> QED
    BY <2>1, <2>2, <2>3, <1>10, <1>11 DEF Feed!Enter, m

LEMMA WelcomeGreets ==
    ASSUME Inv, Unserved, NEW c \in Conns, Welcome(c)
    PROVE  Feed!Greet(c)
<1> DEFINE m == [type |-> "welcome", peers |-> snapshot[c]]
<1>1. /\ stage[c] = "joined" /\ stage' = [stage EXCEPT ![c] = "serving"]
      /\ writer' = [writer EXCEPT ![c] = "running"]
      /\ Enqueue({c}, m)
      /\ UNCHANGED <<peers, roomOf, snapshot, got>>
  BY DEF Welcome
<1>2. c \in peers /\ roomOf[c] \in Rooms /\ roomOf[c] # None
  BY <1>1, NamesAssumption DEF Inv, HubConsistent, Sessions
<1>3. \A i \in 1..Len(offered[c]) : offered[c][i].type # "welcome"
  BY <1>1 DEF Inv, Welcomed, Listening, Offers
<1> HIDE DEF m
<1>4. /\ \A x \in Conns : x \notin {c} => kicked'[x] = kicked[x]
      /\ \A x \in Conns : kicked[x] => kicked'[x]
  BY <1>1, StillServed
<1>5. /\ \A x \in Conns \ {c} : stage'[x] = stage[x] /\ writer'[x] = writer[x]
      /\ writer[c] = "off"
  BY <1>1 DEF Inv, TypeOK, Unserved
<1>6. Served' \subseteq Served /\ Served \ Served' \subseteq {c}
  BY <1>1, <1>4, <1>5 DEF Served
<1>7. Tells({c}, m, Served)
  BY <1>1, <1>6, EnqueueTells
<1>8. \A i \in 1..Len(IF c \in Served THEN offered[c] ELSE <<>>) :
        (IF c \in Served THEN offered[c] ELSE <<>>)[i].type # "welcome"
  BY <1>3
<1> QED
  BY <1>1, <1>2, <1>7, <1>8 DEF Feed!Greet, Feed!Tell, Tells, Told, Heard, m

LEMMA ForwardSays ==
    ASSUME Inv, NEW c \in Conns, NEW to \in Conns \cup {All}, Forward(c, to)
    PROVE  \E n \in 1..MaxForwards : Feed!Say(c, to, n)
<1> DEFINE m == [type |-> "relay", id |-> c, n |-> sends + 1]
<1>1. /\ stage[c] = "serving" /\ sends < MaxForwards
      /\ Enqueue(Recipients(c, to), m)
      /\ UNCHANGED <<stage, peers, roomOf, snapshot, writer, got>>
  BY DEF Forward, Reading, hubVars, clientVars
<1>2. c \in peers /\ roomOf[c] \in Rooms /\ roomOf[c] # None
  BY <1>1, NamesAssumption DEF Inv, HubConsistent, Sessions
<1>3. Recipients(c, to) \in SUBSET Conns
  BY <1>2 DEF Recipients, Inv, TypeOK
<1> HIDE DEF m
<1>4. /\ \A x \in Conns : x \notin Recipients(c, to) => kicked'[x] = kicked[x]
      /\ \A x \in Conns : kicked[x] => kicked'[x]
  BY <1>1, <1>3, StillServed
<1>5. Served' \subseteq Served /\ Served \ Served' \subseteq Recipients(c, to)
  BY <1>1, <1>4 DEF Served
<1>6. Tells(Recipients(c, to), m, Served)
  BY <1>1, <1>3, <1>5, EnqueueTells
<1>7. Recipients(c, to) = {p \in Feed!In(roomOf[c]) : p # c /\ (to = All \/ to = p)}
  BY <1>2, InRoom DEF Recipients
<1>8. PICK n \in 1..MaxForwards : n = sends + 1
  BY <1>1, SizesAssumption DEF Inv, TypeOK
<1>9. Feed!Say(c, to, n)
  BY <1>1, <1>2, <1>6, <1>7, <1>8 DEF Feed!Say, Feed!Tell, Tells, Told, Heard, m
<1> QED
  BY <1>9

LEMMA LeaveExits ==
    ASSUME Inv, NEW c \in Conns, Leave(c)
    PROVE  Feed!Exit(c)
<1> DEFINE m == [type |-> "peer-left", id |-> c]
           cs == members[roomOf[c]] \ {c}
<1>1. /\ stage[c] = "ended" /\ stage' = [stage EXCEPT ![c] = "closed"]
      /\ peers' = peers \ {c}
      /\ Enqueue(cs, m)
      /\ UNCHANGED <<roomOf, snapshot, writer, got>>
  BY DEF Leave, clientVars
<1>2. c \in peers /\ roomOf[c] \in Rooms /\ roomOf[c] # None
  BY <1>1, NamesAssumption DEF Inv, HubConsistent, Sessions
<1>3. cs \in SUBSET Conns
  BY <1>2 DEF Inv, TypeOK
<1>4. cs = Feed!In(roomOf[c]) \ {c}
  BY <1>2, InRoom
<1> HIDE DEF m, cs
<1>5. /\ \A x \in Conns : x \notin cs => kicked'[x] = kicked[x]
      /\ \A x \in Conns : kicked[x] => kicked'[x]
  BY <1>1, <1>3, StillServed
<1>6. /\ c \notin Served /\ c \notin Served'
      /\ \A x \in Conns \ {c} : stage'[x] = stage[x]
  BY <1>1 DEF Served, Inv, TypeOK
<1>7. Served' \subseteq Served /\ Served \ Served' \subseteq cs
  BY <1>1, <1>5, <1>6 DEF Served
<1>8. Tells(cs, m, Served)
  BY <1>1, <1>3, <1>7, EnqueueTells
<1>9. [x \in Conns |-> IF x \in peers' THEN roomOf'[x] ELSE None]
        = [[x \in Conns |-> IF x \in peers THEN roomOf[x] ELSE None] EXCEPT ![c] = None]
  BY <1>1
<1>10. [x \in Conns |-> IF x \in peers' THEN snapshot'[x] ELSE {}]
         = [[x \in Conns |-> IF x \in peers THEN snapshot[x] ELSE {}] EXCEPT ![c] = {}]
  BY <1>1
<1> QED
  BY <1>2, <1>4, <1>6, <1>8, <1>9, <1>10 DEF Feed!Exit, Feed!Tell, Tells, Told, Heard, m

LEMMA DeliverHears ==
    ASSUME Inv, NEW c \in Conns, Deliver(c)
    PROVE  [Feed!Next]_(Feed!vars)
<1>1. /\ send[c] # <<>>
      /\ got' = [got EXCEPT ![c] = Append(@, Head(send[c]))]
      /\ UNCHANGED <<peers, roomOf, snapshot, stage, kicked, writer, offered>>
  BY DEF Deliver, hubVars
<1>2. Served' = Served
  BY <1>1 DEF Served
<1>3. CASE c \in Served
  <2>1. offered[c] = got[c] \o send[c]
    BY <1>3 DEF Served, Inv, GapFree
  <2>2. got[c] \in Seq(Message) /\ send[c] \in Seq(Message)
    BY DEF Inv, TypeOK
  <2>3. Len(got[c]) < Len(offered[c]) /\ offered[c][Len(got[c]) + 1] = Head(send[c])
    BY <1>1, <2>1, <2>2, NextToHear
  <2>4. got'[c] = Append(got[c], offered[c][Len(got[c]) + 1])
        /\ \A x \in Conns \ {c} : got'[x] = got[x]
    BY <1>1, <2>3 DEF Inv, TypeOK
  <2>5. [x \in Conns |-> IF x \in Served THEN got'[x] ELSE <<>>]
          = [[x \in Conns |-> IF x \in Served THEN got[x] ELSE <<>>]
               EXCEPT ![c] = Append(@, offered[c][Len(@) + 1])]
    BY <1>3, <2>4
  <2>6. Feed!Hear(c)
    BY <1>1, <1>2, <1>3, <2>3, <2>5 DEF Feed!Hear
  <2> QED
    BY <2>6 DEF Feed!Next
<1>4. CASE c \notin Served
  <2>1. \A x \in Served' : offered'[x] = offered[x] /\ got'[x] = got[x]
    <3>1. \A x \in Conns \ {c} : got'[x] = got[x]
      BY <1>1 DEF Inv, TypeOK
    <3> QED
      BY <1>1, <1>2, <1>4, <3>1 DEF Served
  <2> QED
    BY <1>1, <1>2, <1>4, <2>1, OneDropped
<1> QED
  BY <1>3, <1>4

LEMMA InitFeed == Init => Feed!Init
BY NamesAssumption DEF Init, Feed!Init, Served

LEMMA NextFeed == Inv /\ Unserved /\ [Next]_vars => [Feed!Next]_(Feed!vars)
<1> SUFFICES ASSUME Inv, Unserved, [Next]_vars PROVE [Feed!Next]_(Feed!vars)
  OBVIOUS
<1>1. ASSUME NEW c \in Conns, NEW r \in Rooms, Join(c, r) PROVE Feed!Next
  BY <1>1, JoinEnters DEF Feed!Next
<1>2. ASSUME NEW c \in Conns, NEW to \in Conns \cup {All}, Forward(c, to) PROVE Feed!Next
  BY <1>2, ForwardSays DEF Feed!Next
<1>3. ASSUME NEW c \in Conns, Welcome(c) PROVE Feed!Next
  BY <1>3, WelcomeGreets DEF Feed!Next
<1>4. ASSUME NEW c \in Conns, Leave(c) PROVE Feed!Next
  BY <1>4, LeaveExits DEF Feed!Next
<1>5. ASSUME NEW c \in Conns, Deliver(c) PROVE [Feed!Next]_(Feed!vars)
  BY <1>5, DeliverHears
<1>6. ASSUME NEW c \in Conns, NEW r \in Rooms, RefuseFull(c, r)
      PROVE  [Feed!Next]_(Feed!vars)
  <2>1. /\ stage[c] = "new" /\ stage' = [stage EXCEPT ![c] = "refused"]
        /\ UNCHANGED <<peers, roomOf, snapshot, kicked, writer, got, offered>>
    BY <1>6 DEF RefuseFull
  <2>2. Served' = Served \ {c}
    BY <2>1 DEF Served, Inv, TypeOK
  <2> QED
    BY <2>1, <2>2, OneDropped
<1>7. ASSUME NEW c \in Conns, EndRead(c) PROVE [Feed!Next]_(Feed!vars)
  <2>1. /\ stage' = [stage EXCEPT ![c] = "ended"]
        /\ writer' = [writer EXCEPT ![c] = "stopped"]
        /\ got' = [got EXCEPT ![c] = <<>>]
        /\ offered' = [offered EXCEPT ![c] = <<>>]
        /\ UNCHANGED <<peers, roomOf, snapshot, kicked>>
    BY <1>7 DEF EndRead
  <2>2. Served' = Served \ {c}
    BY <2>1 DEF Served, Inv, TypeOK
  <2>3. \A x \in Served' : offered'[x] = offered[x] /\ got'[x] = got[x]
    BY <2>1, <2>2 DEF Served, Inv, TypeOK
  <2> QED
    BY <2>1, <2>2, <2>3, OneDropped
<1>8. ASSUME NEW c \in Conns, StopWriter(c) PROVE [Feed!Next]_(Feed!vars)
  <2>1. /\ writer' = [writer EXCEPT ![c] = "stopped"]
        /\ UNCHANGED <<peers, roomOf, snapshot, stage, kicked, got, offered>>
    BY <1>8 DEF StopWriter, hubVars, clientVars
  <2>2. Served' = Served \ {c}
    BY <2>1 DEF Served, Inv, TypeOK
  <2> QED
    BY <2>1, <2>2, OneDropped
<1>9. CASE UNCHANGED vars
  <2>1. UNCHANGED <<peers, roomOf, snapshot, stage, kicked, writer, got, offered>>
    BY <1>9 DEF vars
  <2>2. Served' = Served
    BY <2>1 DEF Served
  <2> QED
    BY <2>1, <2>2 DEF Feed!vars
<1> QED
  BY <1>1, <1>2, <1>3, <1>4, <1>5, <1>6, <1>7, <1>8, <1>9
  DEF Next, Hangup, ReadCancelled, TakeKick, WriteFails

(* The hub implements RoomFeed: every step enters, greets, says, hears,     *)
(* drops or exits as the feeds of the rooms do, or is a stutter.  So what a *)
(* served connection reads is what happened in its room since it joined, in *)
(* order, without a gap and nothing else, whatever the queues hold.         *)
THEOREM ImplementsFeedHolds == Spec => ImplementsFeed
<1>1. Spec => [](Inv /\ Unserved)
  BY InitInv, NextInv, InitUnserved, NextUnserved, PTL DEF Spec
<1> QED
  BY <1>1, InitFeed, NextFeed, PTL DEF Spec, ImplementsFeed, Feed!Spec
=============================================================================
