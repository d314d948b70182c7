------------------------------ MODULE JoinStore ------------------------------
(***************************************************************************)
(* The server's only persistent state (src/internal/store/store.go): which *)
(* rooms exist and who has asked to join them.  Every operation runs under *)
(* Store.mu and ends, when it changed something, in save(), which replaces *)
(* the state file; it is therefore one action.  What is left to interleave *)
(* is the order of the calls, the hourly purge, the passing of time, saves *)
(* that fail and restarts of the server.                                   *)
(*                                                                         *)
(* Timestamps are kept as ages.  `idle' of a request is the time since     *)
(* Request.Updated, `idle' of a room the time since room.LastActive; both  *)
(* saturate just beyond the last age the code tells apart, so the states   *)
(* are finite without any bound on time.  A request is named by its        *)
(* applicant's public key (RequestID is a hash of it).  Display names,     *)
(* creation times (the sort order of Pending) and message payloads are     *)
(* left out; malformed arguments are refused before anything is read.      *)
(***************************************************************************)
EXTENDS Integers, Sequences, FiniteSets, SequencesExt

CONSTANTS
    RoomIDs,         \* room names
    Pubs,            \* applicants' public keys
    InboxPubs,       \* public halves of room inbox keys
    Wraps,           \* (approver key, wrapped room key) pairs
    Messages,        \* encrypted join messages
    None,            \* nil, the empty string, "no such entry"
    RequestTTL,      \* requestTTL
    RejectCooldown,  \* rejectCooldown
    RoomRetention,   \* -room-retention; 0 keeps rooms for ever
    MaxPending,      \* maxPendingByRoom
    MaxMessages,     \* maxMsgsByRequest
    SaveMayFail      \* whether writing the state file can fail

ASSUME TimesAssumption ==
    /\ RequestTTL \in Nat \ {0}
    /\ RejectCooldown \in Nat \ {0}
    /\ RoomRetention \in Nat
ASSUME LimitsAssumption == MaxPending \in Nat \ {0} /\ MaxMessages \in Nat \ {0}
ASSUME SaveAssumption == SaveMayFail \in BOOLEAN

-----------------------------------------------------------------------------
(* The stored values.                                                      *)

Status == {"pending", "approved", "rejected"}

Lifetime(status) == IF status = "rejected" THEN RejectCooldown ELSE RequestTTL

MaxIdle == (IF RequestTTL > RejectCooldown THEN RequestTTL ELSE RejectCooldown) + 1

Request == [status   : Status,
            idle     : 0..MaxIdle,
            wrap     : Wraps \cup {None},
            messages : {s \in Seq(Messages) : Len(s) <= MaxMessages}]

Room == [idle     : 0..(RoomRetention + 1),
         inbox    : InboxPubs \cup {None},
         requests : [Pubs -> Request \cup {None}]]

Rooms == [RoomIDs -> Room \cup {None}]

(* None stands for an entry that is not there, so it is no entry.          *)
ASSUME NoneAssumption ==
    /\ None \notin Room
    /\ None \notin Request
    /\ None \notin InboxPubs \cup Wraps
    /\ None \notin Nat

NoRooms == [r \in RoomIDs |-> None]
NoRequests == [p \in Pubs |-> None]
NewRoom(inbox) == [idle |-> 0, inbox |-> inbox, requests |-> NoRequests]
NewRequest == [status |-> "pending", idle |-> 0, wrap |-> None, messages |-> <<>>]

VARIABLES
    rooms,       \* Store.rooms
    disk,        \* the state file: what the last rename put in place
    saveOK,      \* history: the last save() replaced the file
    rejectedFor  \* history: time since an applicant was last rejected

vars == <<rooms, disk, saveOK, rejectedFor>>

Init ==
    /\ rooms = NoRooms
    /\ disk = NoRooms
    /\ saveOK = TRUE
    /\ rejectedFor = [r \in RoomIDs |-> NoRequests]

-----------------------------------------------------------------------------
(* What the read-only calls return.                                        *)

Exists(r) == rooms[r] # None

HasRequest(r, p) == Exists(r) /\ rooms[r].requests[p] # None

(* Mutant of IsExpired: the lifetime ends one moment too early. *)
EarlyIsExpired(q) == q.idle >= Lifetime(q.status)

IsExpired(q) == q.idle > Lifetime(q.status)

IsPending(r, p) == HasRequest(r, p) /\ rooms[r].requests[p].status = "pending"

IsLive(r, p) == HasRequest(r, p) /\ ~IsExpired(rooms[r].requests[p])

InboxPub(r) == IF Exists(r) THEN rooms[r].inbox ELSE None

Pending(r) == {p \in Pubs : IsPending(r, p) /\ IsLive(r, p)}

-----------------------------------------------------------------------------
(* save() writes the whole state to a temporary file and renames it over   *)
(* the old one.  If either fails the error is logged and the call goes on. *)

(* Mutant of Save: forgets to write the file. *)
SaveNothing(new) == UNCHANGED disk /\ saveOK' = TRUE

Save(new) ==
    \/ /\ disk' = new
       /\ saveOK' = TRUE
    \/ /\ SaveMayFail
       /\ saveOK' = FALSE
       /\ UNCHANGED disk

Commit(new) == rooms' = new /\ Save(new)

WithRequest(s, r, p, q) == [s EXCEPT ![r].requests[p] = q]

SetRequest(r, p, q) == Commit(WithRequest(rooms, r, p, q))

ClaimOK(r, create) == ~Exists(r) \/ ~create

(* A key holder's claim marks the room active and fills in a missing inbox  *)
(* key; an inbox key that is there stays.                                   *)
Reclaimed(x, inbox) ==
    [idle     |-> 0,
     inbox    |-> IF x.inbox = None THEN inbox ELSE x.inbox,
     requests |-> x.requests]

Claim(r, create, inbox) ==
    /\ ClaimOK(r, create)
    /\ Commit([rooms EXCEPT ![r] = IF Exists(r) THEN Reclaimed(rooms[r], inbox)
                                                ELSE NewRoom(inbox)])
    /\ UNCHANGED rejectedFor

WithMessage(q, m) == [status   |-> q.status,
                      idle     |-> 0,
                      wrap     |-> q.wrap,
                      messages |-> Append(q.messages, m)]

(* Mutant of MessageOK: <= for <. *)
OffByOneMessageOK(r, p) ==
    IsPending(r, p) /\ Len(rooms[r].requests[p].messages) <= MaxMessages

MessageOK(r, p) ==
    IsPending(r, p) /\ Len(rooms[r].requests[p].messages) < MaxMessages

AddMessage(r, p, m) ==
    /\ MessageOK(r, p)
    /\ SetRequest(r, p, WithMessage(rooms[r].requests[p], m))
    /\ UNCHANGED rejectedFor

(* Mutant of Refreshed: starts the request over. *)
RefreshedAsNew(q) == NewRequest

Refreshed(q) == [q EXCEPT !.idle = 0]

(* Mutant of SubmitOK: <= for <. *)
OffByOneSubmitOK(r, p) ==
    Exists(r) /\ (IsLive(r, p) \/ Cardinality(Pending(r)) <= MaxPending)

SubmitOK(r, p) ==
    Exists(r) /\ (IsLive(r, p) \/ Cardinality(Pending(r)) < MaxPending)

Submit(r, p) ==
    /\ SubmitOK(r, p)
    /\ SetRequest(r, p, IF IsLive(r, p) THEN Refreshed(rooms[r].requests[p])
                                        ELSE NewRequest)
    /\ UNCHANGED rejectedFor

(* Mutant of DecideOK: does not look at the status. *)
DecideAnyway(r, p) == HasRequest(r, p)

DecideOK(r, p) == IsPending(r, p)

Decided(q, status, wrap) ==
    [status |-> status, idle |-> 0, wrap |-> wrap, messages |-> q.messages]

Approve(r, p, wrap) ==
    /\ DecideOK(r, p)
    /\ SetRequest(r, p, Decided(rooms[r].requests[p], "approved", wrap))
    /\ UNCHANGED rejectedFor

Reject(r, p) ==
    /\ DecideOK(r, p)
    /\ SetRequest(r, p, Decided(rooms[r].requests[p], "rejected",
                                 rooms[r].requests[p].wrap))
    /\ rejectedFor' = [rejectedFor EXCEPT ![r][p] = 0]

DoneOK(r, p) == HasRequest(r, p) /\ rooms[r].requests[p].status = "approved"

Done(r, p) ==
    /\ DoneOK(r, p)
    /\ SetRequest(r, p, None)
    /\ UNCHANGED rejectedFor

-----------------------------------------------------------------------------
(* Purge, called at start-up and then every hour.                          *)

Abandoned(x) == RoomRetention > 0 /\ x.idle > RoomRetention

PurgedRequests(x) ==
    [p \in Pubs |-> IF x.requests[p] # None /\ IsExpired(x.requests[p])
                      THEN None ELSE x.requests[p]]

(* Mutant of PurgedRoom: purges rooms but not requests. *)
PurgedRoomOnly(x) == IF x = None \/ Abandoned(x) THEN None ELSE x

PurgedRoom(x) ==
    IF x = None \/ Abandoned(x) THEN None
                                ELSE [x EXCEPT !.requests = PurgedRequests(x)]

Purged == [r \in RoomIDs |-> PurgedRoom(rooms[r])]

Purge ==
    /\ Purged # rooms
    /\ Commit(Purged)
    /\ rejectedFor' = [r \in RoomIDs |-> IF Purged[r] = None THEN NoRequests
                                                             ELSE rejectedFor[r]]

-----------------------------------------------------------------------------
(* Time passes for the state in memory and for the state in the file, which *)
(* holds the same absolute timestamps.                                      *)

Older(age, most) == IF age < most THEN age + 1 ELSE age

OlderRequest(q) == IF q = None THEN None ELSE [q EXCEPT !.idle = Older(@, MaxIdle)]

OlderRoom(x) ==
    IF x = None THEN None
    ELSE [idle     |-> Older(x.idle, RoomRetention + 1),
          inbox    |-> x.inbox,
          requests |-> [p \in Pubs |-> OlderRequest(x.requests[p])]]

OlderRooms(s) == [r \in RoomIDs |-> OlderRoom(s[r])]

Tick ==
    /\ rooms' = OlderRooms(rooms)
    /\ disk' = OlderRooms(disk)
    /\ rejectedFor' =
         [r \in RoomIDs |->
           [p \in Pubs |-> IF rejectedFor[r][p] = None THEN None
                           ELSE Older(rejectedFor[r][p], RejectCooldown + 1)]]
    /\ UNCHANGED saveOK

(* The server stops at any point and Open reads the file again.  A decision *)
(* that a failed save lost is not remembered.                               *)
Restart ==
    /\ rooms' = disk
    /\ saveOK' = TRUE
    /\ rejectedFor' = IF saveOK THEN rejectedFor
                                ELSE [r \in RoomIDs |-> NoRequests]
    /\ UNCHANGED disk

-----------------------------------------------------------------------------
Next ==
    \/ \E r \in RoomIDs, create \in BOOLEAN, inbox \in InboxPubs \cup {None} :
         Claim(r, create, inbox)
    \/ \E r \in RoomIDs, p \in Pubs, m \in Messages : AddMessage(r, p, m)
    \/ \E r \in RoomIDs, p \in Pubs : Submit(r, p)
    \/ \E r \in RoomIDs, p \in Pubs, w \in Wraps : Approve(r, p, w)
    \/ \E r \in RoomIDs, p \in Pubs : Reject(r, p)
    \/ \E r \in RoomIDs, p \in Pubs : Done(r, p)
    \/ Purge
    \/ Tick
    \/ Restart

Spec == Init /\ [][Next]_vars

(* Run calls Purge on a ticker for as long as the server runs.              *)
FairSpec == Spec /\ WF_vars(Purge)

-----------------------------------------------------------------------------
(* Every stored value is one the code can write: ages stay in range, at    *)
(* most maxMsgsByRequest messages are kept (README: "1 件の申し込みにつき  *)
(* 20 件まで"), and the file holds the same kinds of values.               *)
TypeOK ==
    /\ rooms \in Rooms
    /\ disk \in Rooms
    /\ saveOK \in BOOLEAN
    /\ rejectedFor \in [RoomIDs -> [Pubs -> 0..(RejectCooldown + 1) \cup {None}]]

WrapsMatch(s) ==
    \A r \in RoomIDs, p \in Pubs :
      (s[r] # None /\ s[r].requests[p] # None) =>
        (s[r].requests[p].status = "approved" <=> s[r].requests[p].wrap # None)

(* A request carries a wrapped room key exactly when it is approved, in     *)
(* memory and in the file, however resubmissions, decisions, purges and     *)
(* restarts alternate: no approved applicant is left without the key, and   *)
(* no rejected or pending one can fetch it.                                 *)
WrapIffApproved == WrapsMatch(rooms) /\ WrapsMatch(disk)

(* When the last save worked, the file is the memory: every operation that  *)
(* changes something saves, and a save also carries what earlier failed     *)
(* saves left out, so a restart then loses nothing.                         *)
Durable == saveOK => disk = rooms

(* A rejected applicant stays rejected until the cooldown has passed        *)
(* ("the applicant cannot re-apply until the cooldown passes"), whatever is *)
(* resubmitted, decided, purged or restarted in the meantime.               *)
LockoutRespected ==
    \A r \in RoomIDs, p \in Pubs :
      (rejectedFor[r][p] # None /\ rejectedFor[r][p] <= RejectCooldown) =>
        /\ HasRequest(r, p)
        /\ rooms[r].requests[p].status = "rejected"
        /\ ~IsExpired(rooms[r].requests[p])

-----------------------------------------------------------------------------
(* A restart goes back to an older file only if the last save failed.       *)
LosesWrites == ~saveOK /\ rooms' = disk

(* Of the members who decide the same request, the first one wins: until    *)
(* the decision expires nobody changes it or the key it carries, and it     *)
(* goes away only once the approved applicant has reported the key (Done)   *)
(* or the whole room is purged.                                             *)
DecisionIsFinal ==
    [][\A r \in RoomIDs, p \in Pubs :
         ( /\ IsLive(r, p)
           /\ rooms[r].requests[p].status # "pending"
           /\ ~LosesWrites )
         => \/ rooms'[r] = None
            \/ /\ rooms'[r].requests[p] = None
               /\ rooms[r].requests[p].status = "approved"
            \/ /\ rooms'[r].requests[p] # None
               /\ rooms'[r].requests[p].status = rooms[r].requests[p].status
               /\ rooms'[r].requests[p].wrap = rooms[r].requests[p].wrap
      ]_vars

(* The conversation before the decision is kept: as long as a live request  *)
(* is there its messages only grow at the end, through refreshes by a       *)
(* reconnecting applicant and through the decision.                         *)
ConversationKept ==
    [][\A r \in RoomIDs, p \in Pubs :
         ( /\ IsLive(r, p)
           /\ rooms'[r] # None
           /\ rooms'[r].requests[p] # None
           /\ ~LosesWrites )
         => IsPrefix(rooms[r].requests[p].messages,
                     rooms'[r].requests[p].messages)]_vars

(* A room never gets more than maxPendingByRoom requests to decide by       *)
(* people applying, whatever expires, is resubmitted, decided, purged or    *)
(* reloaded in between.  The one way past the limit is a message on a       *)
(* request that has expired and is not purged yet: AddMessage does not ask  *)
(* for its age and makes it live again.                                     *)
PendingLimit ==
    [][\A r \in RoomIDs :
         Cardinality(Pending(r)') > MaxPending /\ ~LosesWrites =>
           \A p \in Pending(r)' \ Pending(r) :
             /\ IsPending(r, p)
             /\ \E m \in Messages :
                  rooms'[r].requests[p] = WithMessage(rooms[r].requests[p], m)]_vars

(* What has expired does not stay: an expired request and an abandoned room *)
(* are eventually dropped (or revived by someone using them).               *)
StaleForgotten ==
    /\ \A r \in RoomIDs, p \in Pubs :
         (HasRequest(r, p) /\ ~IsLive(r, p)) ~> (~HasRequest(r, p) \/ IsLive(r, p))
    /\ \A r \in RoomIDs :
         (Exists(r) /\ Abandoned(rooms[r])) ~> ~(Exists(r) /\ Abandoned(rooms[r]))

-----------------------------------------------------------------------------
(* What the README promises and the code does not do.                     *)

(* README.md: "申し込みは 7 日、拒否は 24 時間で自動削除されます。拒否され  *)
(* た人は 24 時間申し込めません": a rejection holds for the cooldown, not   *)
(* longer.  Submit refreshes Request.Updated of a rejected request too, so  *)
(* every attempt to apply again starts the cooldown over.                   *)
RejectionEndsOnTime ==
    \A r \in RoomIDs, p \in Pubs :
      ( /\ HasRequest(r, p)
        /\ rooms[r].requests[p].status = "rejected"
        /\ rejectedFor[r][p] # None
        /\ rejectedFor[r][p] > RejectCooldown )
      => IsExpired(rooms[r].requests[p])
=============================================================================
