------------------------------- MODULE RoomKey -------------------------------
(***************************************************************************)
(* The room key and the room's inbox key (src/web/static/room.js with the   *)
(* claim and join-request handlers of src/internal/signaling/join.go, over  *)
(* JoinStore): who creates them, where they are kept and how everybody in   *)
(* the room comes to hold the same ones.                                    *)
(*                                                                          *)
(* A page is a tab of a browser.  The tabs of a browser share its local     *)
(* storage and its identity key pair; each has its own WebSocket, and its   *)
(* handlers run one at a time (inQueue).  Messages of a connection arrive   *)
(* in order or, when it is lost, not at all.  Rejections, messages on a     *)
(* request, the cards and the ways a decision can miss its applicant are in *)
(* JoinApproval: here a member may let in whoever is waiting.               *)
(***************************************************************************)
EXTENDS Integers, Sequences, FiniteSets

CONSTANTS
    Tabs,        \* pages; a key pair or room key is named by the tab that made it
    Browsers,
    None,
    OldKey,      \* the key of a room made before inbox keys existed
    MaxDrops     \* bound of the model: lost connections and reloads

ASSUME NamesAssumption == None \notin Tabs \cup Browsers /\ OldKey \notin Tabs \cup {None}
ASSUME MaxDropsAssumption == MaxDrops \in Nat

Keys == Tabs \cup {OldKey}
KeyPair == [key : Keys \cup {None}, inbox : Tabs \cup {None}]
NoKeys == [key |-> None, inbox |-> None]

VARIABLES
    browserOf,   \* whose tab a page is
    rooms, disk, saveOK, rejectedFor,  \* the store
    stored,      \* localStorage: { k, inbox }
    keys,        \* rk of each page
    page,        \* its other variables
    online,      \* pages that are connected
    reqID,       \* client.reqID
    task,        \* what is left of the handler a connection is in
    up,          \* messages on their way to the server
    down,        \* client.send and the network
    greeted,     \* hellos that arrived, of the present connections
    early,       \* history: those that came before both sides knew the inbox
    unconfirmed, \* history: a page went on with a key that it, or another
                 \* tab, had made without having had an answer yet
    contested,   \* history: browsers whose tabs got in each other's way
    drops

storeVars == <<rooms, disk, saveOK, rejectedFor>>
serverVars == <<rooms, disk, saveOK, rejectedFor, reqID, task>>
browserVars == <<stored, keys, page, contested>>
linkVars == <<browserOf, online, greeted, early, unconfirmed, drops>>
vars == <<browserOf, rooms, disk, saveOK, rejectedFor, stored, keys, page,
          online, reqID, task, up, down, greeted, early, unconfirmed, contested, drops>>

Room == "room"

Store == INSTANCE JoinStore WITH
    RoomIDs <- {Room}, Pubs <- Browsers, InboxPubs <- Tabs, Wraps <- KeyPair,
    Messages <- {}, RequestTTL <- 1, RejectCooldown <- 1, RoomRetention <- 0,
    MaxPending <- Cardinality(Browsers), MaxMessages <- 1, SaveMayFail <- FALSE

(* None is nothing that a room, a request or a pair of keys can be.         *)
ASSUME NoneAssumption ==
    None \notin Store!Room /\ None \notin Store!Request /\ None \notin KeyPair

InboxPub == Store!InboxPub(Room)

Idle == [step |-> "idle"]

TaskType ==
    {Idle, [step |-> "broadcast"]}
      \cup [step : {"claim"}, create : BOOLEAN, inbox : Tabs \cup {None}, had : BOOLEAN]
      \cup [step : {"requested", "reply"}, status : Store!Status,
            wrap : KeyPair \cup {None}, inbox : Tabs \cup {None}]

Up ==
    [type : {"claim"}, create : BOOLEAN, inbox : Tabs \cup {None}]
      \cup [type : {"join-request", "join-done"}]

Down ==
    [type : {"welcome"}, exists : BOOLEAN]
      \cup [type : {"claim-result"}, ok : BOOLEAN, inbox : Tabs \cup {None}]
      \cup [type : {"join-requests"}, inbox : Tabs \cup {None}]
      \cup [type : {"join-status"}, status : Store!Status,
            wrap : KeyPair \cup {None}, inbox : Tabs \cup {None}]

NewPage ==
    [creating     |-> FALSE,
     claimed      |-> FALSE,
     roomInbox    |-> None,    \* roomInboxPub
     inboxClaimed |-> FALSE,
     waits        |-> FALSE,   \* pendingReqId is set
     chat         |-> None]    \* applicant: the inbox key it writes to

(* Nobody has opened the room yet; or it was made before inbox keys, and    *)
(* some browsers hold its key.                                              *)
Init ==
    /\ browserOf \in [Tabs -> Browsers]
    /\ \/ /\ rooms = Store!NoRooms
          /\ stored = [b \in Browsers |-> NoKeys]
       \/ /\ rooms = [r \in {Room} |-> Store!NewRoom(None)]
          /\ \E holders \in (SUBSET Browsers) \ {{}} :
               stored = [b \in Browsers |->
                          [NoKeys EXCEPT !.key = IF b \in holders THEN OldKey ELSE None]]
    /\ disk = rooms
    /\ saveOK = TRUE
    /\ rejectedFor = [r \in {Room} |-> Store!NoRequests]
    /\ keys = [t \in Tabs |-> stored[browserOf[t]]]
    /\ page = [t \in Tabs |-> NewPage]
    /\ online = {}
    /\ reqID = [t \in Tabs |-> None]
    /\ task = [t \in Tabs |-> Idle]
    /\ up = [t \in Tabs |-> <<>>]
    /\ down = [t \in Tabs |-> <<>>]
    /\ greeted = {}
    /\ early = {}
    /\ unconfirmed = FALSE
    /\ contested = {}
    /\ drops = 0

-----------------------------------------------------------------------------
(* Connections.                                                             *)

Connect(t) ==
    /\ t \notin online
    /\ online' = online \cup {t}
    /\ down' = [down EXCEPT ![t] = <<[type |-> "welcome", exists |-> Store!Exists(Room)]>>]
    /\ UNCHANGED <<browserOf, serverVars, browserVars, up, greeted, early,
                   unconfirmed, drops>>

(* dropPeer, on both sides: the peers of a lost connection are forgotten.   *)

(* Mutant of OfOthers: they are not. *)
StillAll(pairs, t) == pairs

OfOthers(pairs, t) == {p \in pairs : p[1] # t /\ p[2] # t}

Drop(t) ==
    /\ t \in online /\ task[t] = Idle
    /\ drops < MaxDrops
    /\ drops' = drops + 1
    /\ online' = online \ {t}
    /\ up' = [up EXCEPT ![t] = <<>>]
    /\ down' = [down EXCEPT ![t] = <<>>]
    /\ reqID' = [reqID EXCEPT ![t] = None]
    /\ greeted' = OfOthers(greeted, t)
    /\ early' = OfOthers(early, t)
    /\ UNCHANGED <<browserOf, storeVars, task, stored, contested>>

(* ws.onclose: the page goes on and will connect again.                     *)
Disconnect(t) ==
    /\ Drop(t)
    /\ unconfirmed' = (unconfirmed \/ page[t].creating)
    /\ page' = [page EXCEPT ![t].claimed = FALSE]
    /\ UNCHANGED keys

Siblings(t) == {x \in Tabs \ {t} : browserOf[x] = browserOf[t]}

(* loadStoredKey: the page starts again with what its browser has stored.   *)
Reload(t) ==
    /\ Drop(t)
    /\ unconfirmed' = (unconfirmed \/ page[t].creating \/
         \E x \in Siblings(t) : page[x].creating /\ keys[x].key = stored[browserOf[t]].key)
    /\ page' = [page EXCEPT ![t] = NewPage]
    /\ keys' = [keys EXCEPT ![t] = stored[browserOf[t]]]

-----------------------------------------------------------------------------
(* The server.                                                              *)

Begins(t, type) ==
    /\ t \in online /\ task[t] = Idle
    /\ up[t] # <<>> /\ Head(up[t]).type = type
    /\ up' = [up EXCEPT ![t] = Tail(@)]

GoTo(t, step) == task' = [task EXCEPT ![t] = step]

SendTo(ts, m) ==
    down' = [t \in Tabs |-> IF t \in ts THEN Append(down[t], m) ELSE down[t]]

(* claim: hadInbox is read; Claim and the answer; the room is told if it    *)
(* just got its inbox key.  An inbox key stays once it is there, so nothing *)
(* is lost by reading it for the answer together with Claim.                *)
HandleClaim(t) ==
    /\ Begins(t, "claim")
    /\ GoTo(t, [step |-> "claim", create |-> Head(up[t]).create,
                inbox |-> Head(up[t]).inbox, had |-> InboxPub # None])
    /\ UNCHANGED <<linkVars, storeVars, browserVars, reqID, down>>

AfterClaim(t) ==
    IF ~task[t].create /\ ~task[t].had /\ InboxPub' # None
      THEN [step |-> "broadcast"] ELSE Idle

FinishClaim(t) ==
    /\ task[t].step = "claim"
    /\ IF Store!ClaimOK(Room, task[t].create)
       THEN /\ Store!Claim(Room, task[t].create, task[t].inbox)
            /\ SendTo({t}, [type |-> "claim-result", ok |-> TRUE, inbox |-> InboxPub'])
            /\ GoTo(t, AfterClaim(t))
       ELSE /\ SendTo({t}, [type |-> "claim-result", ok |-> FALSE, inbox |-> None])
            /\ GoTo(t, Idle)
            /\ UNCHANGED storeVars
    /\ UNCHANGED <<linkVars, browserVars, reqID, up>>

(* join-request: Submit and reqID; the inbox key for the answer; the        *)
(* answer; the room is told.                                                *)
HandleRequest(t) ==
    /\ Begins(t, "join-request")
    /\ Store!Submit(Room, browserOf[t])
    /\ reqID' = [reqID EXCEPT ![t] = browserOf[t]]
    /\ LET q == rooms'[Room].requests[browserOf[t]] IN
         GoTo(t, [step |-> "requested", status |-> q.status, wrap |-> q.wrap, inbox |-> None])
    /\ UNCHANGED <<linkVars, browserVars, down>>

ReadInbox(t) ==
    /\ task[t].step = "requested"
    /\ GoTo(t, [task[t] EXCEPT !.step = "reply", !.inbox = InboxPub])
    /\ UNCHANGED <<linkVars, storeVars, browserVars, reqID, up, down>>

(* Mutant of AfterReply: the room is not told. *)
NothingAfterReply(status) == Idle

AfterReply(status) == IF status = "pending" THEN [step |-> "broadcast"] ELSE Idle

Reply(t) ==
    /\ task[t].step = "reply"
    /\ SendTo({t}, [type |-> "join-status", status |-> task[t].status,
                    wrap |-> task[t].wrap, inbox |-> task[t].inbox])
    /\ GoTo(t, AfterReply(task[t].status))
    /\ UNCHANGED <<linkVars, storeVars, browserVars, reqID, up>>

(* broadcastRequests.  A list with no inbox key changes nothing here, so    *)
(* reading the key and sending it are one step.                             *)
Broadcast(t) ==
    /\ task[t].step = "broadcast"
    /\ SendTo(online, [type |-> "join-requests", inbox |-> InboxPub])
    /\ GoTo(t, Idle)
    /\ UNCHANGED <<linkVars, storeVars, browserVars, reqID, up>>

InboxOK(t) == keys[t].inbox # None /\ keys[t].inbox = page[t].roomInbox

(* What approveRequest seals for the applicant.                             *)
Wrapped(t) == [key |-> keys[t].key, inbox |-> IF InboxOK(t) THEN keys[t].inbox ELSE None]

(* A member lets a waiting applicant in: the click, Approve and             *)
(* toApplicant.                                                             *)
Approve(t, b) ==
    /\ t \in online /\ page[t].claimed /\ keys[t].key # None
    /\ reqID[t] = None /\ task[t] = Idle /\ up[t] = <<>>
    /\ b \in Store!Pending(Room)
    /\ Store!Approve(Room, b, Wrapped(t))
    /\ SendTo({x \in online : reqID[x] = b},
              [type |-> "join-status", status |-> "approved", wrap |-> Wrapped(t),
               inbox |-> None])
    /\ GoTo(t, [step |-> "broadcast"])
    /\ UNCHANGED <<linkVars, browserVars, reqID, up>>

HandleDone(t) ==
    /\ Begins(t, "join-done")
    /\ reqID' = [reqID EXCEPT ![t] = None]
    /\ IF reqID[t] = browserOf[t] /\ Store!DoneOK(Room, browserOf[t])
       THEN Store!Done(Room, browserOf[t]) ELSE UNCHANGED storeVars
    /\ UNCHANGED <<linkVars, browserVars, task, down>>

-----------------------------------------------------------------------------
(* The page.                                                                *)

Receives(t, type) ==
    /\ t \in online
    /\ down[t] # <<>> /\ Head(down[t]).type = type
    /\ down' = [down EXCEPT ![t] = Tail(@)]

Answers(t, messages) == up' = [up EXCEPT ![t] = @ \o messages]

ClaimMessage(create, inbox) == [type |-> "claim", create |-> create, inbox |-> inbox]
JoinRequest == [type |-> "join-request"]

(* The page takes new keys and puts them into the browser's storage.  Tabs  *)
(* get in each other's way when a key is replaced by another one there, or  *)
(* removed while another tab uses it.                                       *)
Replaces(old, new) == old # None /\ old # new

(* Mutant of Stores: the storage keeps the first keys it was given. *)
StoresOnce(t, new) ==
    LET b == browserOf[t] IN
    stored' = [stored EXCEPT ![b] = IF @ = NoKeys THEN new ELSE @]

Stores(t, new) == stored' = [stored EXCEPT ![browserOf[t]] = new]

TakeKeys(t, new) ==
    LET b == browserOf[t]
        clash == \/ Replaces(stored[b].key, new.key)
                 \/ Replaces(stored[b].inbox, new.inbox)
        removal == new = NoKeys /\ \E x \in Siblings(t) : keys[x].key # None IN
    /\ keys' = [keys EXCEPT ![t] = new]
    /\ Stores(t, new)
    /\ contested' = IF (new # NoKeys /\ clash) \/ removal
                    THEN contested \cup {b} ELSE contested

KeepKeys == UNCHANGED <<keys, stored, contested>>

(* onServer, welcome *)
OnWelcome(t) ==
    /\ Receives(t, "welcome")
    /\ \/ /\ keys[t].key # None
          /\ page' = [page EXCEPT ![t].creating = FALSE]
          /\ Answers(t, <<ClaimMessage(FALSE, keys[t].inbox)>>)
          /\ KeepKeys
       \/ /\ keys[t].key = None /\ ~Head(down[t]).exists     \* createRoom
          /\ TakeKeys(t, [key |-> t, inbox |-> t])
          /\ page' = [page EXCEPT ![t].creating = TRUE]
          /\ Answers(t, <<ClaimMessage(TRUE, t)>>)
       \/ /\ keys[t].key = None /\ Head(down[t]).exists      \* requestJoin
          /\ Answers(t, <<JoinRequest>>)
          /\ KeepKeys /\ UNCHANGED page
    /\ UNCHANGED <<linkVars, serverVars>>

(* Mutant of OnRefusal: keeps the key of the room that was not created. *)
StubbornOnRefusal(t) == KeepKeys /\ Answers(t, <<ClaimMessage(FALSE, keys[t].inbox)>>)

(* Someone registered the room first: forgetKey, requestJoin.               *)
OnRefusal(t) == TakeKeys(t, NoKeys) /\ Answers(t, <<JoinRequest>>)

OnClaimResult(t) ==
    /\ Receives(t, "claim-result")
    /\ LET m == Head(down[t])
           register == m.inbox = None /\ ~page[t].inboxClaimed
           inbox == IF keys[t].inbox = None THEN t ELSE keys[t].inbox IN
       \/ /\ ~m.ok
          /\ OnRefusal(t)
          /\ page' = [page EXCEPT ![t].creating = FALSE]
       \/ /\ m.ok
          /\ page' = [page EXCEPT ![t] = [@ EXCEPT
                        !.creating = FALSE, !.claimed = TRUE, !.roomInbox = m.inbox,
                        !.inboxClaimed = page[t].inboxClaimed \/ register]]
          /\ IF register
             THEN /\ TakeKeys(t, [keys[t] EXCEPT !.inbox = inbox])
                  /\ Answers(t, <<ClaimMessage(FALSE, inbox)>>)
             ELSE KeepKeys /\ UNCHANGED up
    /\ UNCHANGED <<linkVars, serverVars>>

(* enableApplicantChat *)
Chat(t, waits, inbox) ==
    IF page[t].chat = None /\ waits /\ keys[t].key = None THEN inbox ELSE page[t].chat

OnJoinRequests(t) ==
    /\ Receives(t, "join-requests")
    /\ LET inbox == Head(down[t]).inbox IN
       IF keys[t].key # None
       THEN page' = [page EXCEPT ![t].roomInbox = IF inbox = None THEN @ ELSE inbox]
       ELSE page' = [page EXCEPT ![t].chat = Chat(t, page[t].waits, inbox)]
    /\ KeepKeys /\ UNCHANGED <<linkVars, serverVars, up>>

OnJoinStatus(t) ==
    /\ Receives(t, "join-status")
    /\ LET m == Head(down[t]) IN
       \/ /\ keys[t].key # None
          /\ KeepKeys /\ UNCHANGED <<page, up>>
       \/ /\ keys[t].key = None /\ m.status = "pending"
          /\ page' = [page EXCEPT ![t].waits = TRUE, ![t].chat = Chat(t, TRUE, m.inbox)]
          /\ KeepKeys /\ UNCHANGED up
       \/ /\ keys[t].key = None /\ m.status = "approved"
          /\ TakeKeys(t, m.wrap)
          /\ page' = [page EXCEPT ![t].chat = None, ![t].creating = FALSE]
          /\ Answers(t, <<[type |-> "join-done"], ClaimMessage(FALSE, m.wrap.inbox)>>)
    /\ UNCHANGED <<linkVars, serverVars>>

(* Pages that hold the same room key find each other once one of them has   *)
(* announced itself on its claim-result (announce, onKx), and greet each    *)
(* other once.  The hello of s to t carries the inbox key if s knows it to  *)
(* be the registered one; t adopts it on the same condition.                *)

(* Mutant of InboxOf: the hello does not carry the inbox key. *)
NoInboxOf(s) == None

InboxOf(s) == IF InboxOK(s) THEN keys[s].inbox ELSE None

Hello(s, t) ==
    /\ s # t /\ {s, t} \subseteq online /\ <<s, t>> \notin greeted
    /\ keys[s].key # None /\ keys[s].key = keys[t].key
    /\ page[s].claimed \/ page[t].claimed
    /\ greeted' = greeted \cup {<<s, t>>}
    /\ early' = IF InboxOK(s) /\ page[t].roomInbox # None
                THEN early ELSE early \cup {<<s, t>>}
    /\ LET inbox == InboxOf(s) IN
       IF inbox # None /\ inbox = page[t].roomInbox /\ ~InboxOK(t)
       THEN /\ TakeKeys(t, [keys[t] EXCEPT !.inbox = inbox])
            /\ Answers(t, <<ClaimMessage(FALSE, inbox)>>)
            /\ page' = [page EXCEPT ![t].creating = FALSE]
       ELSE KeepKeys /\ UNCHANGED <<page, up>>
    /\ UNCHANGED <<browserOf, online, unconfirmed, drops, serverVars, down>>

-----------------------------------------------------------------------------
Next ==
    \/ \E t \in Tabs : Connect(t)
    \/ \E t \in Tabs : Disconnect(t)
    \/ \E t \in Tabs : Reload(t)
    \/ \E t \in Tabs : HandleClaim(t)
    \/ \E t \in Tabs : FinishClaim(t)
    \/ \E t \in Tabs : HandleRequest(t)
    \/ \E t \in Tabs : ReadInbox(t)
    \/ \E t \in Tabs : Reply(t)
    \/ \E t \in Tabs : Broadcast(t)
    \/ \E t \in Tabs, b \in Browsers : Approve(t, b)
    \/ \E t \in Tabs : HandleDone(t)
    \/ \E t \in Tabs : OnWelcome(t)
    \/ \E t \in Tabs : OnClaimResult(t)
    \/ \E t \in Tabs : OnJoinRequests(t)
    \/ \E t \in Tabs : OnJoinStatus(t)
    \/ \E s, t \in Tabs : Hello(s, t)

Spec == Init /\ [][Next]_vars

-----------------------------------------------------------------------------
(* Every variable holds a value of its kind; members are connected and hold *)
(* a key, and only connected pages count as greeted.                        *)
TypeOK ==
    /\ browserOf \in [Tabs -> Browsers]
    /\ stored \in [Browsers -> KeyPair]
    /\ keys \in [Tabs -> KeyPair]
    /\ \A t \in Tabs :
         /\ page[t].roomInbox \in Tabs \cup {None}
         /\ page[t].chat \in Tabs \cup {None}
         /\ task[t] \in TaskType
         /\ \A i \in 1..Len(up[t]) : up[t][i] \in Up
         /\ \A i \in 1..Len(down[t]) : down[t][i] \in Down
         /\ page[t].claimed => t \in online /\ keys[t].key # None
         /\ reqID[t] \in {browserOf[t], None}
    /\ online \in SUBSET Tabs
    /\ early \subseteq greeted /\ greeted \subseteq online \X online
    /\ contested \in SUBSET Browsers
    /\ drops \in 0..MaxDrops

Settled == \A t \in Tabs : task[t] = Idle /\ up[t] = <<>> /\ down[t] = <<>>

Members == {t \in online : page[t].claimed}

(* "The person who opens a room that does not exist yet creates the key":   *)
(* however many do so at the same time, the members of the room hold one    *)
(* key.  The exception is a page that goes on with a key whose claim has no *)
(* answer yet: its own, when the answer was lost with the connection, or    *)
(* one that another tab of its browser has just stored and it loads before  *)
(* that tab hears that the room is someone else's.  Either comes back as a  *)
(* member.                                                                  *)
OneKey ==
    unconfirmed \/ \A s, t \in Members : keys[s].key = keys[t].key

(* "Everyone keeps the key in localStorage, so reopening the URL works      *)
(* without asking again": a member's browser has stored the room key, and   *)
(* the inbox key if the page has the registered one.  The exception is a    *)
(* browser whose tabs got in each other's way.                              *)
KeysKept ==
    \A t \in Members :
      LET b == browserOf[t] IN
      b \in contested \/
        /\ stored[b].key = keys[t].key
        /\ InboxOK(t) => stored[b].inbox = keys[t].inbox

(* "tell waiting applicants they can now send messages": when nothing is on *)
(* its way any more, an applicant whose request is pending can write to the *)
(* registered inbox key, if there is one.                                   *)
ApplicantCanWrite ==
    Settled =>
      \A t \in online :
        (keys[t].key = None /\ page[t].waits /\ browserOf[t] \in Store!Pending(Room)) =>
          page[t].chat = InboxPub

(* "the others receive it in the (room-key encrypted) hello": a member      *)
(* without the registered inbox key was greeted by none that has it, or     *)
(* only before both of them knew which one it is.                           *)
InboxSpreads ==
    Settled =>
      \A s, t \in Members :
        (keys[s].key = keys[t].key /\ InboxOK(s) /\ <<s, t>> \in greeted \ early) => InboxOK(t)
=============================================================================
