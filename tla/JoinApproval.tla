---------------------------- MODULE JoinApproval ----------------------------
(***************************************************************************)
(* Asking to join a room and being let in: the join handlers of the hub     *)
(* (src/internal/signaling/join.go) over the store (JoinStore), with the    *)
(* browser's side of the exchange (src/web/static/room.js).                 *)
(*                                                                          *)
(* readLoop runs one handler at a time per connection; handlers of          *)
(* different connections interleave between the critical sections of        *)
(* Store.mu and Hub.mu, which are the steps here.  What a connection is     *)
(* sent is a queue in order, without loss (SignalHub; a full queue, after   *)
(* which the browser reconnects, is covered by Disconnect).                 *)
(*                                                                          *)
(* One room, which exists.  A request is named by the applicant's public    *)
(* key; two tabs of one browser are two connections with the same key.      *)
(* Requests do not grow old here (JoinStore does that).  Messages on a      *)
(* request and the registration of an inbox key are left out.               *)
(***************************************************************************)
EXTENDS Integers, Sequences, FiniteSets, SequencesExt

CONSTANTS
    Members,     \* connections of browsers that hold the room key
    Applicants,  \* connections of browsers that do not
    Pubs,        \* applicants' public keys
    None,
    MaxPending,  \* maxPendingByRoom
    MaxQueue,    \* bound of the model: messages waiting for one connection
    MaxDrops     \* bound of the model: disconnections and restarts in all

Conns == Members \cup Applicants

ASSUME ConnsAssumption == Members \cap Applicants = {} /\ None \notin Pubs
ASSUME BoundsAssumption ==
    MaxPending \in Nat \ {0} /\ MaxQueue \in Nat \ {0} /\ MaxDrops \in Nat

VARIABLES
    pubOf,    \* room.js: identity(), the key pair an applicant's browser keeps
    rooms, disk, saveOK, rejectedFor,  \* the store
    online,   \* connections in Hub.rooms
    reqID,    \* client.reqID
    task,     \* what is left of the handler a connection is in
    queue,    \* client.send and the network: server to browser
    todo,     \* messages on their way from the browser
    hasKey,   \* room.js: rk, the browser holds the room key
    claimed,  \* room.js: claimed, this connection's claim was answered
    banner,   \* room.js: what the applicant is shown
    shown,    \* room.js: joinRequests, the cards a member is shown
    clicked,  \* room.js: cards whose buttons are disabled
    window,   \* history: decided between Submit and the reply
    behind,   \* history: who sent the last list, if it was out of date then
    spent,    \* history: clicks that were lost, or whose request is decided
    drops     \* the number of disconnections and restarts so far

storeVars == <<rooms, disk, saveOK, rejectedFor>>
history == <<window, behind, spent, drops>>
clientVars == <<hasKey, claimed, banner, shown, clicked>>
vars == <<pubOf, rooms, disk, saveOK, rejectedFor, online, reqID, task, queue, todo,
          hasKey, claimed, banner, shown, clicked, window, behind, spent, drops>>

Room == "room"

Store == INSTANCE JoinStore WITH
    RoomIDs <- {Room}, InboxPubs <- {"inbox"}, Wraps <- {"wrap"},
    Messages <- {}, RequestTTL <- 1, RejectCooldown <- 1, RoomRetention <- 0,
    MaxMessages <- 1, SaveMayFail <- FALSE

ASSUME NoneAssumption == None \notin Store!Room /\ None \notin Store!Request

StatusOf(p) == rooms[Room].requests[p].status

Idle == [step |-> "idle"]

TaskType ==
    {Idle, [step |-> "list"]}
      \cup [step : {"register", "reply", "notify"}, id : Pubs, status : Store!Status]
      \cup [step : {"done"}, id : Pubs]
      \cup [step : {"broadcast", "result"}, list : SUBSET Pubs, late : BOOLEAN]

CommandType ==
    [type : {"claim", "join-request"}]
      \cup [type : {"join-approve", "join-reject", "join-done"}, id : Pubs]

AnswerType ==
    [type : {"claim-result", "join-requests"}, list : SUBSET Pubs]
      \cup [type : {"join-status"}, id : Pubs, status : Store!Status]
      \cup [type : {"join-status"}, error : {"too many pending requests"}]

(* The room was created by someone who is a member now.                     *)
Init ==
    /\ pubOf \in [Applicants -> Pubs]
    /\ rooms = [r \in {Room} |-> Store!NewRoom("inbox")]
    /\ disk = rooms
    /\ saveOK = TRUE
    /\ rejectedFor = [r \in {Room} |-> Store!NoRequests]
    /\ online = {}
    /\ reqID = [c \in Conns |-> None]
    /\ task = [c \in Conns |-> Idle]
    /\ queue = [c \in Conns |-> <<>>]
    /\ todo = [c \in Conns |-> <<>>]
    /\ hasKey = [c \in Conns |-> c \in Members]
    /\ claimed = [c \in Conns |-> FALSE]
    /\ banner = [c \in Conns |-> "none"]
    /\ shown = [c \in Conns |-> {}]
    /\ clicked = [c \in Conns |-> {}]
    /\ window = [c \in Conns |-> FALSE]
    /\ behind = [c \in Conns |-> "none"]
    /\ spent = [c \in Conns |-> {}]
    /\ drops = 0

-----------------------------------------------------------------------------
(* Connections.  The browser answers the welcome with a claim if it holds   *)
(* the key and with a join request if it does not.                          *)

Connect(c) ==
    /\ c \notin online
    /\ online' = online \cup {c}
    /\ todo' = [todo EXCEPT ![c] =
         <<[type |-> IF hasKey[c] THEN "claim" ELSE "join-request"]>>]
    /\ UNCHANGED <<pubOf, storeVars, reqID, task, queue, clientVars, history>>

Decisions(ms) ==
    {ms[i].id : i \in {j \in DOMAIN ms : ms[j].type \in {"join-approve", "join-reject"}}}

(* The connections in cs end: nothing queued in either direction arrives,   *)
(* and the browser forgets that it was a member on this connection.  What   *)
(* the page shows stays, with the buttons as they are.                      *)
Drop(cs) ==
    /\ drops < MaxDrops
    /\ drops' = drops + 1
    /\ online' = online \ cs
    /\ reqID' = [c \in Conns |-> IF c \in cs THEN None ELSE reqID[c]]
    /\ task' = [c \in Conns |-> IF c \in cs THEN Idle ELSE task[c]]
    /\ queue' = [c \in Conns |-> IF c \in cs THEN <<>> ELSE queue[c]]
    /\ todo' = [c \in Conns |-> IF c \in cs THEN <<>> ELSE todo[c]]
    /\ claimed' = [c \in Conns |-> IF c \in cs THEN FALSE ELSE claimed[c]]
    /\ window' = [c \in Conns |-> IF c \in cs THEN FALSE ELSE window[c]]
    /\ behind' = [c \in Conns |-> IF c \in cs THEN "none" ELSE behind[c]]

ClicksLost(cs) ==
    spent' = [c \in Conns |-> spent[c] \cup IF c \in cs THEN Decisions(todo[c]) ELSE {}]

(* readLoop notices a closed connection only between two handlers.          *)
Disconnect(c) ==
    /\ c \in online
    /\ task[c] = Idle
    /\ Drop({c})
    /\ ClicksLost({c})
    /\ UNCHANGED <<pubOf, storeVars, hasKey, banner, shown, clicked>>

(* The page is closed or reloaded.  The key is in the browser's storage,    *)
(* which its tabs share.                                                    *)
KeyStored(c) ==
    hasKey[c] \/ (c \in Applicants /\ \E x \in Applicants : pubOf[x] = pubOf[c] /\ hasKey[x])

Reload(c) ==
    /\ c \in online
    /\ task[c] = Idle
    /\ Drop({c})
    /\ hasKey' = [hasKey EXCEPT ![c] = KeyStored(c)]
    /\ banner' = [banner EXCEPT ![c] = "none"]
    /\ shown' = [shown EXCEPT ![c] = {}]
    /\ clicked' = [clicked EXCEPT ![c] = {}]
    /\ spent' = [spent EXCEPT ![c] = {}]
    /\ UNCHANGED <<pubOf, storeVars>>

(* The server stops in the middle of whatever it does and starts again.     *)
ServerRestart ==
    /\ Store!Restart
    /\ Drop(Conns)
    /\ ClicksLost(Conns)
    /\ UNCHANGED <<pubOf, hasKey, banner, shown, clicked>>

-----------------------------------------------------------------------------
(* Handlers.  A command is taken from the browser's messages when the       *)
(* connection is in no handler; answers are appended to queues.             *)

Begins(c, type) ==
    /\ c \in online /\ task[c] = Idle
    /\ todo[c] # <<>> /\ Head(todo[c]).type = type
    /\ todo' = [todo EXCEPT ![c] = Tail(@)]

At(c, step) == task[c].step = step

SendTo(cs, m) ==
    /\ \A c \in cs : Len(queue[c]) < MaxQueue
    /\ queue' = [c \in Conns |-> IF c \in cs THEN Append(queue[c], m) ELSE queue[c]]

(* The pending list changes: whoever has read it and not sent it yet will   *)
(* send an old one.                                                         *)
Overtaken(t) ==
    IF t.step \in {"broadcast", "result"} THEN [t EXCEPT !.late = TRUE] ELSE t

Lateness(t) == IF t.late THEN t.step ELSE "none"

GoTo(c, t) == task' = [task EXCEPT ![c] = t]

GoToAndOvertake(c, t) ==
    task' = [x \in Conns |-> IF x = c THEN t
                             ELSE IF Store!Pending(Room)' = Store!Pending(Room)
                               THEN task[x] ELSE Overtaken(task[x])]

(* claim, from a browser that holds the key of this existing room.  Claim    *)
(* changes nothing that Pending reads, so the two calls are one step.        *)
HandleClaim(c) ==
    /\ Begins(c, "claim")
    /\ Store!Claim(Room, FALSE, "inbox")
    /\ GoTo(c, [step |-> "result", list |-> Store!Pending(Room), late |-> FALSE])
    /\ UNCHANGED <<pubOf, online, reqID, queue, clientVars, history>>

SendClaimResult(c) ==
    /\ At(c, "result")
    /\ SendTo({c}, [type |-> "claim-result", list |-> task[c].list])
    /\ behind' = [behind EXCEPT ![c] = Lateness(task[c])]
    /\ GoTo(c, Idle)
    /\ UNCHANGED <<pubOf, storeVars, online, reqID, todo, clientVars, window, spent, drops>>

(* join-request: Submit; remember the request; answer; tell the room.       *)
HandleRequest(c) ==
    /\ Begins(c, "join-request")
    /\ UNCHANGED pubOf
    /\ Store!Submit(Room, pubOf[c])
    /\ GoToAndOvertake(c, [step |-> "register", id |-> pubOf[c],
                           status |-> StatusOf(pubOf[c])'])
    /\ window' = [window EXCEPT ![c] = FALSE]
    /\ UNCHANGED <<online, reqID, queue, clientVars, behind, spent, drops>>

RefuseRequest(c) ==
    /\ Begins(c, "join-request")
    /\ ~Store!SubmitOK(Room, pubOf[c])
    /\ SendTo({c}, [type |-> "join-status", error |-> "too many pending requests"])
    /\ UNCHANGED <<pubOf, storeVars, online, reqID, task, clientVars, history>>

(* Mutant of Register: goes on without remembering the request.             *)
ForgetfulRegister(c) ==
    /\ At(c, "register")
    /\ GoTo(c, [task[c] EXCEPT !.step = "reply"])
    /\ UNCHANGED <<pubOf, storeVars, online, reqID, queue, todo, clientVars, history>>

Register(c) ==
    /\ At(c, "register")
    /\ reqID' = [reqID EXCEPT ![c] = task[c].id]
    /\ GoTo(c, [task[c] EXCEPT !.step = "reply"])
    /\ UNCHANGED <<pubOf, storeVars, online, queue, todo, clientVars, history>>

Reply(c) ==
    /\ At(c, "reply")
    /\ SendTo({c}, [type |-> "join-status", id |-> task[c].id, status |-> task[c].status])
    /\ GoTo(c, IF task[c].status = "pending" THEN [step |-> "list"] ELSE Idle)
    /\ UNCHANGED <<pubOf, storeVars, online, reqID, todo, clientVars, history>>

(* join-approve and join-reject: decide; tell the applicant; tell the room. *)
InWindow(t, p) == t.step \in {"register", "reply"} /\ t.id = p

Decide(c, p) ==
    /\ reqID[c] = None
    /\ \/ /\ Begins(c, "join-approve")
          /\ Store!Approve(Room, p, "wrap")
       \/ /\ Begins(c, "join-reject")
          /\ Store!Reject(Room, p)
    /\ p = Head(todo[c]).id
    /\ GoToAndOvertake(c, [step |-> "notify", id |-> p, status |-> StatusOf(p)'])
    /\ window' = [x \in Conns |-> window[x] \/ InWindow(task[x], p)]
    /\ spent' = [x \in Conns |-> spent[x] \cup (clicked[x] \cap {p})]
    /\ UNCHANGED <<pubOf, online, reqID, queue, clientVars, behind, drops>>

(* "already decided by another member", or not a member.                    *)
IgnoreDecision(c) ==
    /\ Begins(c, "join-approve") \/ Begins(c, "join-reject")
    /\ LET p == Head(todo[c]).id IN
         /\ reqID[c] # None \/ ~Store!DecideOK(Room, p)
         /\ spent' = IF Store!DecideOK(Room, p) THEN spent
                                                ELSE [spent EXCEPT ![c] = @ \cup {p}]
    /\ UNCHANGED <<pubOf, storeVars, online, reqID, task, queue, clientVars, window,
                   behind, drops>>

(* Mutant of Addressees: stops at the first connection it finds.            *)
FirstAddressee(p) ==
    LET all == {x \in online : reqID[x] = p}
    IN IF all = {} THEN {} ELSE {CHOOSE x \in all : TRUE}

Addressees(p) == {x \in online : reqID[x] = p}

(* Mutant of AfterDecision: the room is not told.                           *)
NothingAfterDecision == Idle

AfterDecision == [step |-> "list"]

NotifyApplicant(c) ==
    /\ At(c, "notify")
    /\ SendTo(Addressees(task[c].id),
              [type |-> "join-status", id |-> task[c].id, status |-> task[c].status])
    /\ GoTo(c, AfterDecision)
    /\ UNCHANGED <<pubOf, storeVars, online, reqID, todo, clientVars, history>>

(* broadcastRequests: Pending under Store.mu, then toRoom under Hub.mu.     *)
ReadList(c) ==
    /\ At(c, "list")
    /\ GoTo(c, [step |-> "broadcast", list |-> Store!Pending(Room), late |-> FALSE])
    /\ UNCHANGED <<pubOf, storeVars, online, reqID, queue, todo, clientVars, history>>

Broadcast(c) ==
    /\ At(c, "broadcast")
    /\ SendTo(online, [type |-> "join-requests", list |-> task[c].list])
    /\ behind' = [x \in Conns |-> IF x \in online THEN Lateness(task[c]) ELSE behind[x]]
    /\ GoTo(c, Idle)
    /\ UNCHANGED <<pubOf, storeVars, online, reqID, todo, clientVars, window, spent, drops>>

(* join-done: the connection counts as a member's, then the request goes.   *)

(* Mutant of HandleDone: the connection stays an applicant's.               *)
ForgetfulHandleDone(c) ==
    /\ Begins(c, "join-done")
    /\ IF reqID[c] = Head(todo[c]).id
         THEN GoTo(c, [step |-> "done", id |-> Head(todo[c]).id])
         ELSE UNCHANGED task
    /\ UNCHANGED <<pubOf, storeVars, online, reqID, queue, clientVars, history>>

HandleDone(c) ==
    /\ Begins(c, "join-done")
    /\ IF reqID[c] = Head(todo[c]).id
         THEN /\ reqID' = [reqID EXCEPT ![c] = None]
              /\ GoTo(c, [step |-> "done", id |-> Head(todo[c]).id])
         ELSE UNCHANGED <<reqID, task>>
    /\ UNCHANGED <<pubOf, storeVars, online, queue, clientVars, history>>

ForgetRequest(c) ==
    /\ At(c, "done")
    /\ IF Store!DoneOK(Room, task[c].id) THEN Store!Done(Room, task[c].id)
                                         ELSE UNCHANGED storeVars
    /\ GoTo(c, Idle)
    /\ UNCHANGED <<pubOf, online, reqID, queue, todo, clientVars, history>>

-----------------------------------------------------------------------------
(* The browser.                                                             *)

Receives(c, type) ==
    /\ c \in online
    /\ queue[c] # <<>> /\ Head(queue[c]).type = type
    /\ queue' = [queue EXCEPT ![c] = Tail(@)]

(* renderRequests: cards of requests that are no longer listed disappear.   *)
Render(c, list) ==
    /\ shown' = [shown EXCEPT ![c] = list]
    /\ clicked' = [clicked EXCEPT ![c] = @ \cap list]
    /\ spent' = [spent EXCEPT ![c] = @ \cap list]

ReceiveClaimResult(c) ==
    /\ Receives(c, "claim-result")
    /\ claimed' = [claimed EXCEPT ![c] = TRUE]
    /\ Render(c, Head(queue[c]).list)
    /\ UNCHANGED <<pubOf, storeVars, online, reqID, task, todo, hasKey, banner,
                   window, behind, drops>>

ReceiveList(c) ==
    /\ Receives(c, "join-requests")
    /\ Render(c, IF hasKey[c] /\ claimed[c] THEN Head(queue[c]).list ELSE {})
    /\ UNCHANGED <<pubOf, storeVars, online, reqID, task, todo, hasKey, claimed, banner,
                   window, behind, drops>>

(* Mutant of Answer: any status is acknowledged.                            *)
HastyAnswer(m) ==
    <<[type |-> "join-done", id |-> m.id]>>
      \o (IF m.status = "approved" THEN <<[type |-> "claim"]>> ELSE <<>>)

(* Mutant of Answer: does not say which request is done.                    *)
NamelessAnswer(m) ==
    IF m.status = "approved"
      THEN <<[type |-> "join-done", id |-> None], [type |-> "claim"]>>
      ELSE <<>>

(* What the browser answers a join-status: once it has unwrapped the key it *)
(* reports that and goes on as a member.                                    *)
Answer(m) ==
    IF m.status = "approved"
      THEN <<[type |-> "join-done", id |-> m.id], [type |-> "claim"]>>
      ELSE <<>>

ReceiveStatus(c) ==
    /\ Receives(c, "join-status")
    /\ LET m == Head(queue[c]) IN
       IF hasKey[c] THEN UNCHANGED <<hasKey, banner, todo>>
       ELSE IF "error" \in DOMAIN m
         THEN banner' = [banner EXCEPT ![c] = "error"] /\ UNCHANGED <<hasKey, todo>>
         ELSE /\ hasKey' = [hasKey EXCEPT ![c] = m.status = "approved"]
              /\ banner' = [banner EXCEPT ![c] =
                              IF m.status = "approved" THEN "none" ELSE m.status]
              /\ todo' = [todo EXCEPT ![c] = @ \o Answer(m)]
    /\ UNCHANGED <<pubOf, storeVars, online, reqID, task, claimed, shown, clicked, history>>

(* A click disables the buttons of the card and sends the decision, which   *)
(* comes to nothing while the connection is down.                           *)
Click(c, p, type) ==
    /\ p \in shown[c] \ clicked[c]
    /\ clicked' = [clicked EXCEPT ![c] = @ \cup {p}]
    /\ IF c \in online
         THEN /\ todo' = [todo EXCEPT ![c] = Append(@, [type |-> type, id |-> p])]
              /\ UNCHANGED spent
         ELSE /\ spent' = [spent EXCEPT ![c] = @ \cup {p}]
              /\ UNCHANGED todo
    /\ UNCHANGED <<pubOf, storeVars, online, reqID, task, queue, hasKey, claimed, banner,
                   shown, window, behind, drops>>

-----------------------------------------------------------------------------
Handler(c) ==
    \/ HandleClaim(c) \/ SendClaimResult(c)
    \/ HandleRequest(c) \/ RefuseRequest(c) \/ Register(c) \/ Reply(c)
    \/ \E p \in Pubs : Decide(c, p)
    \/ IgnoreDecision(c) \/ NotifyApplicant(c) \/ ReadList(c) \/ Broadcast(c)
    \/ HandleDone(c) \/ ForgetRequest(c)

Browser(c) ==
    \/ ReceiveClaimResult(c) \/ ReceiveList(c) \/ ReceiveStatus(c)
    \/ \E p \in Pubs, type \in {"join-approve", "join-reject"} : Click(c, p, type)

Next ==
    \/ \E c \in Conns : Handler(c)
    \/ \E c \in Conns : Browser(c)
    \/ \E c \in Conns : Connect(c)
    \/ \E c \in Conns : Disconnect(c)
    \/ \E c \in Conns : Reload(c)
    \/ ServerRestart

Spec == Init /\ [][Next]_vars

-----------------------------------------------------------------------------
(* Every variable holds a value of its kind; the store's part is a state of *)
(* JoinStore.                                                               *)
TypeOK ==
    /\ pubOf \in [Applicants -> Pubs]
    /\ Store!TypeOK
    /\ online \in SUBSET Conns
    /\ reqID \in [Conns -> Pubs \cup {None}]
    /\ task \in [Conns -> TaskType]
    /\ queue \in [Conns -> Seq(AnswerType)]
    /\ todo \in [Conns -> Seq(CommandType)]
    /\ hasKey \in [Conns -> BOOLEAN] /\ claimed \in [Conns -> BOOLEAN]
    /\ banner \in [Conns -> {"none", "pending", "rejected", "error"}]
    /\ shown \in [Conns -> SUBSET Pubs] /\ clicked \in [Conns -> SUBSET Pubs]
    /\ window \in [Conns -> BOOLEAN] /\ behind \in [Conns -> {"none", "result", "broadcast"}]
    /\ spent \in [Conns -> SUBSET Pubs]
    /\ drops \in 0..MaxDrops

(* No handler is running and everything sent to or by c has arrived.        *)
Settled(c) ==
    /\ c \in online
    /\ queue[c] = <<>> /\ todo[c] = <<>>
    /\ \A x \in Conns : task[x] = Idle

Waiting(c) == ~hasKey[c] /\ banner[c] = "pending"

(* An applicant who is told to wait has a request the members can decide:   *)
(* whatever the order of its request, the members' decisions, a second tab  *)
(* with the same key, reconnections and restarts, a decision reaches it,    *)
(* unless the decision fell between Submit and the answer to the request.   *)
DecisionReaches ==
    \A c \in Applicants :
      (Settled(c) /\ Waiting(c) /\ ~window[c]) => Store!IsPending(Room, pubOf[c])

(* Every change of the pending requests is told to the members: the cards   *)
(* of a member are the pending requests, unless a handler that had read the *)
(* list earlier sent it last.                                               *)
CardsCurrent ==
    \A c \in Conns :
      (Settled(c) /\ claimed[c] /\ behind[c] = "none") => shown[c] = Store!Pending(Room)

(* README on the cards: "参加者のタイムラインに申し込みカード（［承認］［拒 *)
(* 否］と返信欄）が流れ": a member who is shown a pending request can decide *)
(* it, a member that was an applicant itself a moment ago included.  A card *)
(* stays disabled only if the click was lost with the connection, or that   *)
(* request has been decided and another tab asked again before the member's *)
(* browser was sent a list without it.                                      *)
CardsUsable ==
    \A c \in Conns :
      (Settled(c) /\ claimed[c]) => clicked[c] \cap Store!Pending(Room) \subseteq spent[c]

(* The promise of the join protocol (Admission), kept through every         *)
(* interleaving of handlers, tabs, lost connections, reloads and restarts:  *)
(* a request is decided once, only the applicant of an approved request     *)
(* gets the room key, and the approval is dropped only when a browser of    *)
(* the applicant has unwrapped it ("申込者が鍵を受け取ると、その申し込みと  *)
(* メッセージは削除されます"); until then every reconnection gets it again. *)
Decision(p) == IF Store!HasRequest(Room, p) THEN StatusOf(p) ELSE "none"

Promise == INSTANCE Admission WITH
    status <- [p \in Pubs |-> Decision(p)],
    admitted <- {pubOf[c] : c \in {a \in Applicants : hasKey[a]}}

KeepsPromise == Promise!Spec

-----------------------------------------------------------------------------
(* What comments promise and the code does not do.                          *)

(* join.go on toApplicant: "delivers a decision to the applicant if it is   *)
(* connected".  client.reqID is set after Submit in another critical        *)
(* section; a member who decides in between finds nobody to tell, and the   *)
(* answer the applicant gets then still says pending.                       *)
DecisionDelivered ==
    \A c \in Applicants :
      (Settled(c) /\ Waiting(c)) => Store!IsPending(Room, pubOf[c])
=============================================================================
