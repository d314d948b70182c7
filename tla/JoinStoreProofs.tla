--------------------------- MODULE JoinStoreProofs ---------------------------
(***************************************************************************)
(* Theorems about JoinStore for every set of rooms and applicants and every*)
(* value of the time and size limits.                                      *)
(***************************************************************************)
EXTENDS JoinStore, FiniteSetTheorems, TLAPS

(* Replacing one request by a well-formed one (or by nothing) leaves a       *)
(* well-formed table that differs in that request only.                      *)
LEMMA WithRequestLemma ==
    ASSUME NEW s \in Rooms, NEW r \in RoomIDs, NEW p \in Pubs,
           s[r] # None, NEW q \in Request \cup {None}
    PROVE  LET t == WithRequest(s, r, p, q) IN
           /\ t \in Rooms
           /\ t[r] # None
           /\ t[r].requests[p] = q
           /\ \A rr \in RoomIDs : t[rr] = None <=> s[rr] = None
           /\ \A rr \in RoomIDs, pp \in Pubs :
                (s[rr] # None /\ (rr # r \/ pp # p)) =>
                  t[rr].requests[pp] = s[rr].requests[pp]
<1>1. s[r] \in Room
  BY DEF Rooms
<1> DEFINE t == WithRequest(s, r, p, q)
<1> DEFINE x == [s[r] EXCEPT !.requests[p] = q]
<1>2. x = [idle |-> s[r].idle, inbox |-> s[r].inbox,
           requests |-> [s[r].requests EXCEPT ![p] = q]]
  BY <1>1 DEF Room
<1>3. x \in Room
  BY <1>1, <1>2 DEF Room
<1>4. x # None
  BY <1>3, NoneAssumption
<1>5. t = [s EXCEPT ![r] = x]
  BY DEF Rooms, WithRequest
<1>6. s[r].requests \in [Pubs -> Request \cup {None}]
  BY <1>1 DEF Room
<1>7. \A rr \in RoomIDs : t[rr] = IF rr = r THEN x ELSE s[rr]
  BY <1>5 DEF Rooms
<1>8. t \in Rooms
  BY <1>3, <1>5 DEF Rooms
<1>9. x.requests = [s[r].requests EXCEPT ![p] = q]
  BY <1>2
<1> HIDE DEF x, t
<1>10. /\ t \in Rooms
       /\ t[r] # None
       /\ t[r].requests[p] = q
       /\ \A rr \in RoomIDs : t[rr] = None <=> s[rr] = None
       /\ \A rr \in RoomIDs, pp \in Pubs :
            (s[rr] # None /\ (rr # r \/ pp # p)) =>
              t[rr].requests[pp] = s[rr].requests[pp]
  BY <1>4, <1>6, <1>7, <1>8, <1>9
<1> QED
  BY <1>10 DEF t

-----------------------------------------------------------------------------
(* The inductive invariant.  LockoutRespected alone is not inductive: that   *)
(* a rejected request is not expired yet follows from its age being at most  *)
(* the time since the rejection, which a refresh can only make smaller.      *)

LockedBy(r, p) == rejectedFor[r][p] # None /\ rejectedFor[r][p] <= RejectCooldown

LockedTight ==
    \A r \in RoomIDs, p \in Pubs :
      LockedBy(r, p) =>
        /\ rooms[r] # None
        /\ rooms[r].requests[p] # None
        /\ rooms[r].requests[p].status = "rejected"
        /\ rooms[r].requests[p].idle <= rejectedFor[r][p]

Inv == TypeOK /\ WrapIffApproved /\ Durable /\ LockedTight

WrapFits(q) == q.status = "approved" <=> q.wrap # None

(* A tight lock is a respected one.                                          *)
LEMMA TightIsRespected == TypeOK /\ LockedTight => LockoutRespected
<1> SUFFICES ASSUME TypeOK, LockedTight, NEW r \in RoomIDs, NEW p \in Pubs,
                    LockedBy(r, p)
             PROVE  /\ HasRequest(r, p)
                    /\ rooms[r].requests[p].status = "rejected"
                    /\ ~IsExpired(rooms[r].requests[p])
  BY DEF LockoutRespected, LockedBy
<1>1. /\ rooms[r] # None
      /\ rooms[r].requests[p] # None
      /\ rooms[r].requests[p].status = "rejected"
      /\ rooms[r].requests[p].idle <= rejectedFor[r][p]
  BY DEF LockedTight
<1>2. rooms[r] \in Room
  BY <1>1 DEF TypeOK, Rooms
<1>3. rooms[r].requests[p] \in Request
  BY <1>1, <1>2 DEF Room
<1>4. rooms[r].requests[p].idle \in Nat
  BY <1>3, TimesAssumption DEF Request, MaxIdle
<1>5. rejectedFor[r][p] \in Nat /\ rejectedFor[r][p] <= RejectCooldown
  BY TimesAssumption DEF TypeOK, LockedBy
<1>6. ~(rooms[r].requests[p].idle > RejectCooldown)
  BY <1>1, <1>4, <1>5, TimesAssumption
<1> QED
  BY <1>1, <1>6 DEF HasRequest, Exists, IsExpired, Lifetime

(* Commit of a well-formed table keeps types, wraps and durability.          *)
LEMMA CommitLemma ==
    ASSUME Inv, NEW new, new \in Rooms, WrapsMatch(new), Commit(new)
    PROVE  /\ rooms' = new
           /\ rooms' \in Rooms /\ disk' \in Rooms /\ saveOK' \in BOOLEAN
           /\ WrapIffApproved'
           /\ Durable'
<1>1. rooms' = new
  BY DEF Commit
<1>2. disk' = new \/ (disk' = disk /\ saveOK' = FALSE)
  BY DEF Commit, Save
<1>3. saveOK' \in BOOLEAN /\ disk' \in Rooms
  BY <1>2 DEF Commit, Save, Inv, TypeOK
<1>4. WrapIffApproved'
  BY <1>1, <1>2 DEF Inv, WrapIffApproved, WrapsMatch
<1>5. Durable'
  BY <1>1, <1>2 DEF Durable
<1> QED
  BY <1>1, <1>3, <1>4, <1>5

(* An operation on one request keeps the invariant if what it stores is      *)
(* well-formed and, while the applicant is locked out, still a rejection     *)
(* that is no older than before.                                             *)
LEMMA SetRequestStep ==
    ASSUME Inv, NEW r \in RoomIDs, NEW p \in Pubs, rooms[r] # None,
           NEW q \in Request \cup {None}, q # None => WrapFits(q),
           SetRequest(r, p, q),
           rejectedFor' \in [RoomIDs -> [Pubs -> 0..(RejectCooldown + 1) \cup {None}]],
           \A rr \in RoomIDs, pp \in Pubs :
             (rr # r \/ pp # p) => rejectedFor'[rr][pp] = rejectedFor[rr][pp],
           LockedBy(r, p)' => /\ q # None
                              /\ q.status = "rejected"
                              /\ q.idle <= rejectedFor'[r][p]
    PROVE  Inv'
<1> DEFINE new == WithRequest(rooms, r, p, q)
<1>0. rooms \in Rooms
  BY DEF Inv, TypeOK
<1>1. /\ new \in Rooms
      /\ new[r] # None
      /\ new[r].requests[p] = q
      /\ \A rr \in RoomIDs : new[rr] = None <=> rooms[rr] = None
      /\ \A rr \in RoomIDs, pp \in Pubs :
           (rooms[rr] # None /\ (rr # r \/ pp # p)) =>
             new[rr].requests[pp] = rooms[rr].requests[pp]
  BY <1>0, WithRequestLemma
<1>2. Commit(new)
  BY DEF SetRequest
<1> HIDE DEF new
<1>3. WrapsMatch(new)
  <2> SUFFICES ASSUME NEW rr \in RoomIDs, NEW pp \in Pubs,
                      new[rr] # None, new[rr].requests[pp] # None
               PROVE  WrapFits(new[rr].requests[pp])
    BY DEF WrapsMatch, WrapFits
  <2>1. CASE rr = r /\ pp = p
    BY <2>1, <1>1
  <2>2. CASE rr # r \/ pp # p
    BY <2>2, <1>1 DEF Inv, WrapIffApproved, WrapsMatch, WrapFits
  <2> QED
    BY <2>1, <2>2
<1>4. /\ rooms' = new
      /\ rooms' \in Rooms /\ disk' \in Rooms /\ saveOK' \in BOOLEAN
      /\ WrapIffApproved'
      /\ Durable'
  BY <1>1, <1>2, <1>3, CommitLemma
<1>5. LockedTight'
  <2> SUFFICES ASSUME NEW rr \in RoomIDs, NEW pp \in Pubs, LockedBy(rr, pp)'
               PROVE  /\ new[rr] # None
                      /\ new[rr].requests[pp] # None
                      /\ new[rr].requests[pp].status = "rejected"
                      /\ new[rr].requests[pp].idle <= rejectedFor'[rr][pp]
    BY <1>4 DEF LockedTight
  <2>1. CASE rr = r /\ pp = p
    BY <2>1, <1>1
  <2>2. CASE rr # r \/ pp # p
    <3>1. LockedBy(rr, pp) /\ rejectedFor'[rr][pp] = rejectedFor[rr][pp]
      BY <2>2 DEF LockedBy
    <3> QED
      BY <2>2, <3>1, <1>1 DEF Inv, LockedTight
  <2> QED
    BY <2>1, <2>2
<1> QED
  BY <1>4, <1>5 DEF Inv, TypeOK

-----------------------------------------------------------------------------
(* One lemma per action.                                                     *)

LEMMA InitInv == Init => Inv
<1> SUFFICES ASSUME Init PROVE Inv
  OBVIOUS
<1> USE DEF Init, NoRooms, NoRequests
<1>1. TypeOK
  BY DEF TypeOK, Rooms
<1>2. WrapIffApproved /\ Durable
  BY DEF WrapIffApproved, WrapsMatch, Durable
<1>3. LockedTight
  BY DEF LockedTight, LockedBy
<1> QED
  BY <1>1, <1>2, <1>3 DEF Inv

(* The request an operation reads is well-formed.                            *)
LEMMA StoredRequest ==
    ASSUME Inv, NEW r \in RoomIDs, NEW p \in Pubs, HasRequest(r, p)
    PROVE  /\ rooms[r] # None
           /\ rooms[r].requests[p] \in Request
           /\ rooms[r].requests[p] # None
           /\ WrapFits(rooms[r].requests[p])
<1>1. rooms[r] # None /\ rooms[r].requests[p] # None
  BY DEF HasRequest, Exists
<1>2. rooms[r] \in Room
  BY <1>1 DEF Inv, TypeOK, Rooms
<1>3. rooms[r].requests[p] \in Request
  BY <1>1, <1>2 DEF Room
<1> QED
  BY <1>1, <1>3 DEF Inv, WrapIffApproved, WrapsMatch, WrapFits

LEMMA AddMessageInv ==
    ASSUME Inv, NEW r \in RoomIDs, NEW p \in Pubs, NEW m \in Messages,
           AddMessage(r, p, m)
    PROVE  Inv'
<1> DEFINE old == rooms[r].requests[p]
<1> DEFINE q == WithMessage(old, m)
<1>1. HasRequest(r, p) /\ old.status = "pending" /\ Len(old.messages) < MaxMessages
  <2>1. MessageOK(r, p)
    BY DEF AddMessage
  <2> QED
    BY <2>1 DEF MessageOK, IsPending
<1>2. rooms[r] # None /\ old \in Request /\ WrapFits(old)
  BY <1>1, StoredRequest
<1>3. SetRequest(r, p, q) /\ rejectedFor' = rejectedFor
  BY DEF AddMessage
<1> HIDE DEF old
<1>4. old.messages \in Seq(Messages)
  BY <1>2 DEF Request
<1>5. Append(old.messages, m) \in {s \in Seq(Messages) : Len(s) <= MaxMessages}
  BY <1>1, <1>4, LimitsAssumption
<1>6. q \in Request /\ q.status = "pending" /\ q.wrap = old.wrap
  <2>1. q = [status |-> old.status, idle |-> 0, wrap |-> old.wrap,
             messages |-> Append(old.messages, m)]
    BY DEF WithMessage
  <2>2. 0 \in 0..MaxIdle
    BY TimesAssumption DEF MaxIdle
  <2> QED
    BY <1>1, <1>2, <1>5, <2>1, <2>2 DEF Request
<1>7. WrapFits(q)
  BY <1>1, <1>2, <1>6 DEF WrapFits
<1>8. ~LockedBy(r, p)'
  BY <1>1, <1>3 DEF old, LockedBy, Inv, LockedTight
<1> HIDE DEF q
<1> QED
  BY <1>2, <1>3, <1>6, <1>7, <1>8, SetRequestStep DEF Inv, TypeOK

LEMMA SubmitInv ==
    ASSUME Inv, NEW r \in RoomIDs, NEW p \in Pubs, Submit(r, p)
    PROVE  Inv'
<1> DEFINE old == rooms[r].requests[p]
<1>1. rooms[r] # None /\ rejectedFor' = rejectedFor
  BY DEF Submit, SubmitOK, Exists
<1>2. CASE IsLive(r, p)
  <2> DEFINE q == Refreshed(old)
  <2>1. old \in Request /\ WrapFits(old) /\ SetRequest(r, p, q)
    BY <1>2, StoredRequest DEF Submit, IsLive
  <2>2. LockedBy(r, p)' => /\ old.status = "rejected"
                           /\ rejectedFor'[r][p] \in Nat
    BY <1>1, TimesAssumption DEF LockedBy, Inv, LockedTight, TypeOK
  <2> HIDE DEF old
  <2>3. /\ q \in Request /\ q.status = old.status
        /\ q.wrap = old.wrap /\ q.idle = 0
    BY <2>1, TimesAssumption DEF Refreshed, Request, MaxIdle
  <2>4. WrapFits(q)
    BY <2>1, <2>3 DEF WrapFits
  <2> HIDE DEF q
  <2> QED
    BY <1>1, <2>1, <2>2, <2>3, <2>4, SetRequestStep, NoneAssumption DEF Inv, TypeOK
<1>3. CASE ~IsLive(r, p)
  <2>1. SetRequest(r, p, NewRequest)
    BY <1>3 DEF Submit
  <2>2. NewRequest \in Request
    BY TimesAssumption, LimitsAssumption DEF NewRequest, Request, Status, MaxIdle
  <2>3. WrapFits(NewRequest)
    BY DEF WrapFits, NewRequest
  <2>4. LockoutRespected
    BY TightIsRespected DEF Inv
  <2>5. ~LockedBy(r, p)
    BY <1>3, <2>4 DEF LockoutRespected, LockedBy, IsLive
  <2>6. ~LockedBy(r, p)'
    BY <1>1, <2>5 DEF LockedBy
  <2> QED
    BY <1>1, <2>1, <2>2, <2>3, <2>6, SetRequestStep DEF Inv, TypeOK
<1> QED
  BY <1>2, <1>3

LEMMA ApproveInv ==
    ASSUME Inv, NEW r \in RoomIDs, NEW p \in Pubs, NEW w \in Wraps,
           Approve(r, p, w)
    PROVE  Inv'
<1> DEFINE old == rooms[r].requests[p]
<1> DEFINE q == Decided(old, "approved", w)
<1>1. HasRequest(r, p) /\ old.status = "pending"
  BY DEF Approve, DecideOK, IsPending
<1>2. rooms[r] # None /\ old \in Request
  BY <1>1, StoredRequest
<1>3. SetRequest(r, p, q) /\ rejectedFor' = rejectedFor
  BY DEF Approve
<1>4. ~LockedBy(r, p)'
  BY <1>1, <1>3 DEF LockedBy, Inv, LockedTight
<1> HIDE DEF old
<1>5. q \in Request /\ q.status = "approved" /\ q.wrap = w
  <2>1. q = [status |-> "approved", idle |-> 0, wrap |-> w,
             messages |-> old.messages]
    BY DEF Decided
  <2>2. 0 \in 0..MaxIdle
    BY TimesAssumption DEF MaxIdle
  <2> QED
    BY <1>2, <2>1, <2>2 DEF Request, Status
<1>6. WrapFits(q)
  BY <1>5, NoneAssumption DEF WrapFits
<1> HIDE DEF q
<1> QED
  BY <1>2, <1>3, <1>4, <1>5, <1>6, SetRequestStep DEF Inv, TypeOK

LEMMA RejectInv ==
    ASSUME Inv, NEW r \in RoomIDs, NEW p \in Pubs, Reject(r, p)
    PROVE  Inv'
<1> DEFINE old == rooms[r].requests[p]
<1> DEFINE q == Decided(old, "rejected", old.wrap)
<1>1. HasRequest(r, p) /\ old.status = "pending"
  BY DEF Reject, DecideOK, IsPending
<1>2. rooms[r] # None /\ old \in Request /\ WrapFits(old)
  BY <1>1, StoredRequest
<1>3. SetRequest(r, p, q) /\ rejectedFor' = [rejectedFor EXCEPT ![r][p] = 0]
  BY DEF Reject
<1> HIDE DEF old
<1>4. q \in Request /\ q.status = "rejected" /\ q.wrap = old.wrap /\ q.idle = 0
  <2>1. q = [status |-> "rejected", idle |-> 0, wrap |-> old.wrap,
             messages |-> old.messages]
    BY DEF Decided
  <2>2. 0 \in 0..MaxIdle
    BY TimesAssumption DEF MaxIdle
  <2> QED
    BY <1>2, <2>1, <2>2 DEF Request, Status
<1>5. WrapFits(q) /\ q # None
  BY <1>1, <1>2, <1>4, NoneAssumption DEF WrapFits
<1>6. /\ rejectedFor' \in [RoomIDs -> [Pubs -> 0..(RejectCooldown + 1) \cup {None}]]
      /\ rejectedFor'[r][p] = 0
      /\ \A rr \in RoomIDs, pp \in Pubs :
           (rr # r \/ pp # p) => rejectedFor'[rr][pp] = rejectedFor[rr][pp]
  BY <1>3, TimesAssumption DEF Inv, TypeOK
<1> HIDE DEF q
<1> QED
  BY <1>2, <1>3, <1>4, <1>5, <1>6, SetRequestStep

LEMMA DoneInv ==
    ASSUME Inv, NEW r \in RoomIDs, NEW p \in Pubs, Done(r, p)
    PROVE  Inv'
<1>1. HasRequest(r, p) /\ rooms[r].requests[p].status = "approved"
  BY DEF Done, DoneOK
<1>2. rooms[r] # None
  BY <1>1, StoredRequest
<1>3. SetRequest(r, p, None) /\ rejectedFor' = rejectedFor
  BY DEF Done
<1>4. ~LockedBy(r, p)'
  BY <1>1, <1>3 DEF LockedBy, Inv, LockedTight
<1> QED
  BY <1>2, <1>3, <1>4, SetRequestStep DEF Inv, TypeOK

LEMMA ClaimInv ==
    ASSUME Inv, NEW r \in RoomIDs, NEW create \in BOOLEAN,
           NEW inbox \in InboxPubs \cup {None}, Claim(r, create, inbox)
    PROVE  Inv'
<1> DEFINE x == IF Exists(r) THEN Reclaimed(rooms[r], inbox) ELSE NewRoom(inbox)
<1> DEFINE new == [rooms EXCEPT ![r] = x]
<1>1. Commit(new) /\ rejectedFor' = rejectedFor
  BY DEF Claim
<1>2. rooms \in Rooms
  BY DEF Inv, TypeOK
<1>3. /\ x \in Room
      /\ Exists(r) => x.requests = rooms[r].requests
      /\ ~Exists(r) => x.requests = NoRequests
  <2>1. CASE Exists(r)
    <3>1. rooms[r] \in Room
      BY <1>2, <2>1 DEF Rooms, Exists
    <3> QED
      BY <2>1, <3>1, TimesAssumption DEF Room, Reclaimed
  <2>2. CASE ~Exists(r)
    BY <2>2, TimesAssumption DEF Room, NewRoom, NoRequests
  <2> QED
    BY <2>1, <2>2
<1>4. x # None
  BY <1>3, NoneAssumption
<1> HIDE DEF x
<1>5. /\ new \in Rooms
      /\ \A rr \in RoomIDs : new[rr] = IF rr = r THEN x ELSE rooms[rr]
  BY <1>2, <1>3 DEF Rooms
<1> HIDE DEF new
<1>6. WrapsMatch(new)
  BY <1>3, <1>5 DEF Inv, WrapIffApproved, WrapsMatch, Exists, NoRequests
<1>7. /\ rooms' = new
      /\ rooms' \in Rooms /\ disk' \in Rooms /\ saveOK' \in BOOLEAN
      /\ WrapIffApproved' /\ Durable'
  BY <1>1, <1>5, <1>6, CommitLemma
<1>8. LockedTight'
  BY <1>1, <1>3, <1>4, <1>5, <1>7 DEF Inv, LockedTight, LockedBy, Exists
<1> QED
  BY <1>1, <1>7, <1>8 DEF Inv, TypeOK

(* What Purge leaves of a room and of a request.                             *)
LEMMA PurgedLemma ==
    ASSUME NEW s \in Rooms, NEW r \in RoomIDs, s[r] # None, ~Abandoned(s[r])
    PROVE  /\ PurgedRoom(s[r]) \in Room
           /\ PurgedRoom(s[r]).requests = PurgedRequests(s[r])
<1>1. s[r] \in Room
  BY DEF Rooms
<1>2. PurgedRequests(s[r]) \in [Pubs -> Request \cup {None}]
  BY <1>1 DEF Room, PurgedRequests
<1>3. PurgedRoom(s[r]) = [idle |-> s[r].idle, inbox |-> s[r].inbox,
                          requests |-> PurgedRequests(s[r])]
  BY <1>1 DEF Room, PurgedRoom
<1> HIDE DEF PurgedRequests
<1> QED
  BY <1>1, <1>2, <1>3 DEF Room

LEMMA PurgeInv == ASSUME Inv, Purge PROVE Inv'
<1>1. Commit(Purged)
  BY DEF Purge
<1>2. rooms \in Rooms
  BY DEF Inv, TypeOK
<1>3. \A r \in RoomIDs :
        /\ Purged[r] = PurgedRoom(rooms[r])
        /\ (rooms[r] = None \/ Abandoned(rooms[r])) => Purged[r] = None
        /\ ~(rooms[r] = None \/ Abandoned(rooms[r])) =>
             /\ Purged[r] \in Room
             /\ Purged[r].requests = PurgedRequests(rooms[r])
  BY <1>2, PurgedLemma DEF Purged, PurgedRoom
<1>4. Purged \in Rooms
  BY <1>3 DEF Purged, Rooms
<1>5. \A r \in RoomIDs, p \in Pubs :
        (Purged[r] # None /\ Purged[r].requests[p] # None) =>
          /\ rooms[r] # None
          /\ Purged[r].requests[p] = rooms[r].requests[p]
  BY <1>3 DEF PurgedRequests
<1>6. WrapsMatch(Purged)
  BY <1>5 DEF Inv, WrapIffApproved, WrapsMatch
<1>7. /\ rooms' = Purged
      /\ rooms' \in Rooms /\ disk' \in Rooms /\ saveOK' \in BOOLEAN
      /\ WrapIffApproved' /\ Durable'
  BY <1>1, <1>4, <1>6, CommitLemma
<1>8. rejectedFor' = [r \in RoomIDs |-> IF Purged[r] = None THEN NoRequests
                                                            ELSE rejectedFor[r]]
  BY DEF Purge
<1>9. rejectedFor' \in [RoomIDs -> [Pubs -> 0..(RejectCooldown + 1) \cup {None}]]
  BY <1>8 DEF Inv, TypeOK, NoRequests
<1>10. LockedTight'
  <2> SUFFICES ASSUME NEW r \in RoomIDs, NEW p \in Pubs, LockedBy(r, p)'
               PROVE  /\ Purged[r] # None
                      /\ Purged[r].requests[p] # None
                      /\ Purged[r].requests[p].status = "rejected"
                      /\ Purged[r].requests[p].idle <= rejectedFor'[r][p]
    BY <1>7 DEF LockedTight
  <2>1. Purged[r] # None /\ rejectedFor'[r] = rejectedFor[r] /\ LockedBy(r, p)
    BY <1>8 DEF LockedBy, NoRequests
  <2>2. LockoutRespected /\ LockedTight
    BY TightIsRespected DEF Inv
  <2>3. rooms[r].requests[p] # None /\ ~IsExpired(rooms[r].requests[p])
    BY <2>1, <2>2 DEF LockoutRespected, LockedBy, HasRequest
  <2>4. Purged[r].requests[p] = rooms[r].requests[p]
    BY <1>3, <2>1, <2>3 DEF PurgedRequests
  <2> QED
    BY <2>1, <2>2, <2>4 DEF LockedTight
<1> QED
  BY <1>7, <1>9, <1>10 DEF Inv, TypeOK

(* Time passing changes ages only.                                           *)
LEMMA OlderLemma ==
    ASSUME NEW s \in Rooms
    PROVE  /\ OlderRooms(s) \in Rooms
           /\ \A r \in RoomIDs : OlderRooms(s)[r] = None <=> s[r] = None
           /\ \A r \in RoomIDs, p \in Pubs : s[r] # None =>
                /\ OlderRooms(s)[r].requests[p] = None <=> s[r].requests[p] = None
                /\ s[r].requests[p] # None =>
                     /\ OlderRooms(s)[r].requests[p].status = s[r].requests[p].status
                     /\ OlderRooms(s)[r].requests[p].wrap = s[r].requests[p].wrap
                     /\ OlderRooms(s)[r].requests[p].messages = s[r].requests[p].messages
                     /\ OlderRooms(s)[r].requests[p].idle =
                          Older(s[r].requests[p].idle, MaxIdle)
<1>1. MaxIdle \in Nat
  BY TimesAssumption DEF MaxIdle
<1>2. ASSUME NEW most \in Nat, NEW age \in 0..most
      PROVE  Older(age, most) \in 0..most
  BY DEF Older
<1>3. ASSUME NEW q \in Request
      PROVE  /\ OlderRequest(q) \in Request
             /\ OlderRequest(q) # None
             /\ OlderRequest(q).status = q.status
             /\ OlderRequest(q).wrap = q.wrap
             /\ OlderRequest(q).messages = q.messages
             /\ OlderRequest(q).idle = Older(q.idle, MaxIdle)
  <2>1. OlderRequest(q) = [q EXCEPT !.idle = Older(q.idle, MaxIdle)]
    BY <1>3, NoneAssumption DEF OlderRequest
  <2>2. q.idle \in 0..MaxIdle
    BY <1>3 DEF Request
  <2>3. Older(q.idle, MaxIdle) \in 0..MaxIdle
    BY <1>1, <1>2, <2>2
  <2>4. OlderRequest(q) = [status |-> q.status, idle |-> Older(q.idle, MaxIdle),
                           wrap |-> q.wrap, messages |-> q.messages]
    BY <1>3, <2>1 DEF Request
  <2>5. OlderRequest(q) \in Request
    BY <1>3, <2>3, <2>4 DEF Request
  <2> QED
    BY <2>4, <2>5, NoneAssumption
<1>4. OlderRequest(None) = None
  BY DEF OlderRequest
<1>5. ASSUME NEW x \in Room
      PROVE  /\ OlderRoom(x) \in Room
             /\ OlderRoom(x) # None
             /\ \A p \in Pubs : OlderRoom(x).requests[p] = OlderRequest(x.requests[p])
  <2> DEFINE qs == [p \in Pubs |-> OlderRequest(x.requests[p])]
  <2>1. x \in [idle : 0..(RoomRetention + 1), inbox : InboxPubs \cup {None},
               requests : [Pubs -> Request \cup {None}]]
    BY <1>5 DEF Room
  <2>2. qs \in [Pubs -> Request \cup {None}]
    BY <1>3, <1>4, <2>1
  <2>3. OlderRoom(x) = [idle |-> Older(x.idle, RoomRetention + 1),
                        inbox |-> x.inbox, requests |-> qs]
    BY <1>5, NoneAssumption DEF OlderRoom
  <2>4. Older(x.idle, RoomRetention + 1) \in 0..(RoomRetention + 1)
    BY <1>2, <2>1, TimesAssumption
  <2>5. OlderRoom(x).requests = qs
    BY <2>3
  <2>6. OlderRoom(x) \in Room
    <3> HIDE DEF qs
    <3> QED
      BY <2>1, <2>2, <2>3, <2>4 DEF Room
  <2> QED
    BY <2>5, <2>6, NoneAssumption
<1>6. OlderRoom(None) = None
  BY DEF OlderRoom
<1>7. \A r \in RoomIDs : s[r] \in Room \cup {None} /\ OlderRooms(s)[r] = OlderRoom(s[r])
  BY DEF Rooms, OlderRooms
<1>8. OlderRooms(s) \in Rooms
  BY <1>5, <1>6, <1>7 DEF Rooms, OlderRooms
<1>9. \A r \in RoomIDs, p \in Pubs : s[r] # None =>
        s[r].requests[p] \in Request \cup {None}
  BY <1>7 DEF Room
<1> QED
  BY <1>3, <1>4, <1>5, <1>6, <1>7, <1>8, <1>9

LEMMA TickInv == ASSUME Inv, Tick PROVE Inv'
<1>1. /\ rooms' = OlderRooms(rooms) /\ disk' = OlderRooms(disk)
      /\ saveOK' = saveOK
  BY DEF Tick
<1>2. rooms \in Rooms /\ disk \in Rooms
  BY DEF Inv, TypeOK
<1>3. \A r \in RoomIDs, p \in Pubs :
        rejectedFor'[r][p] = IF rejectedFor[r][p] = None THEN None
                             ELSE Older(rejectedFor[r][p], RejectCooldown + 1)
  BY DEF Tick
<1>4. rejectedFor' \in [RoomIDs -> [Pubs -> 0..(RejectCooldown + 1) \cup {None}]]
  BY TimesAssumption DEF Tick, Inv, TypeOK, Older
<1>5. rooms' \in Rooms /\ disk' \in Rooms
  BY <1>1, <1>2, OlderLemma
<1>6. WrapIffApproved'
  <2>1. ASSUME NEW s \in Rooms, WrapsMatch(s) PROVE WrapsMatch(OlderRooms(s))
    BY <2>1, OlderLemma DEF WrapsMatch
  <2> QED
    BY <1>1, <1>2, <2>1 DEF Inv, WrapIffApproved
<1>7. Durable'
  BY <1>1 DEF Inv, Durable
<1>8. LockedTight'
  <2> SUFFICES ASSUME NEW r \in RoomIDs, NEW p \in Pubs, LockedBy(r, p)'
               PROVE  /\ rooms'[r] # None
                      /\ rooms'[r].requests[p] # None
                      /\ rooms'[r].requests[p].status = "rejected"
                      /\ rooms'[r].requests[p].idle <= rejectedFor'[r][p]
    BY DEF LockedTight
  <2>1. /\ rejectedFor[r][p] \in Nat
        /\ rejectedFor[r][p] < RejectCooldown
        /\ rejectedFor'[r][p] = rejectedFor[r][p] + 1
    BY <1>3, TimesAssumption, NoneAssumption DEF LockedBy, Older, Inv, TypeOK
  <2>2. LockedBy(r, p)
    BY <2>1, TimesAssumption, NoneAssumption DEF LockedBy
  <2>3. /\ rooms[r] # None
        /\ rooms[r].requests[p] # None
        /\ rooms[r].requests[p].status = "rejected"
        /\ rooms[r].requests[p].idle <= rejectedFor[r][p]
    BY <2>2 DEF Inv, LockedTight
  <2>4. rooms[r].requests[p] \in Request
    BY <1>2, <2>3 DEF Rooms, Room
  <2>5. rooms[r].requests[p].idle \in Nat
    BY <2>4, TimesAssumption DEF Request, MaxIdle
  <2>6. Older(rooms[r].requests[p].idle, MaxIdle) <= rooms[r].requests[p].idle + 1
    BY <2>5 DEF Older
  <2>7. Older(rooms[r].requests[p].idle, MaxIdle) \in Nat
    BY <2>5 DEF Older
  <2> QED
    BY <1>1, <1>2, <2>1, <2>3, <2>5, <2>6, <2>7, OlderLemma
<1> QED
  BY <1>1, <1>4, <1>5, <1>6, <1>7, <1>8 DEF Inv, TypeOK

LEMMA RestartInv == ASSUME Inv, Restart PROVE Inv'
<1>1. /\ rooms' = disk /\ disk' = disk /\ saveOK' = TRUE
      /\ rejectedFor' = IF saveOK THEN rejectedFor ELSE [r \in RoomIDs |-> NoRequests]
  BY DEF Restart
<1>2. TypeOK'
  BY <1>1 DEF Inv, TypeOK, NoRequests
<1>3. WrapIffApproved' /\ Durable'
  BY <1>1 DEF Inv, WrapIffApproved, WrapsMatch, Durable
<1>4. LockedTight'
  BY <1>1 DEF Inv, Durable, LockedTight, LockedBy, NoRequests
<1> QED
  BY <1>2, <1>3, <1>4 DEF Inv

-----------------------------------------------------------------------------
(* The invariance theorems.                                                  *)

LEMMA NextInv == Inv /\ [Next]_vars => Inv'
<1> SUFFICES ASSUME Inv, [Next]_vars PROVE Inv'
  OBVIOUS
<1>1. ASSUME NEW r \in RoomIDs, NEW create \in BOOLEAN,
             NEW inbox \in InboxPubs \cup {None}, Claim(r, create, inbox)
      PROVE  Inv'
  BY <1>1, ClaimInv
<1>2. ASSUME NEW r \in RoomIDs, NEW p \in Pubs, NEW m \in Messages,
             AddMessage(r, p, m)
      PROVE  Inv'
  BY <1>2, AddMessageInv
<1>3. ASSUME NEW r \in RoomIDs, NEW p \in Pubs, Submit(r, p) PROVE Inv'
  BY <1>3, SubmitInv
<1>4. ASSUME NEW r \in RoomIDs, NEW p \in Pubs, NEW w \in Wraps, Approve(r, p, w)
      PROVE  Inv'
  BY <1>4, ApproveInv
<1>5. ASSUME NEW r \in RoomIDs, NEW p \in Pubs, Reject(r, p) PROVE Inv'
  BY <1>5, RejectInv
<1>6. ASSUME NEW r \in RoomIDs, NEW p \in Pubs, Done(r, p) PROVE Inv'
  BY <1>6, DoneInv
<1>7. CASE Purge
  BY <1>7, PurgeInv
<1>8. CASE Tick
  BY <1>8, TickInv
<1>9. CASE Restart
  BY <1>9, RestartInv
<1>10. CASE UNCHANGED vars
  BY <1>10 DEF vars, Inv, TypeOK, WrapIffApproved, WrapsMatch, Durable,
               LockedTight, LockedBy
<1> QED
  BY <1>1, <1>2, <1>3, <1>4, <1>5, <1>6, <1>7, <1>8, <1>9, <1>10 DEF Next

(* The strengthened invariant holds in every state of the store.             *)
THEOREM Invariance == Spec => []Inv
<1>1. Init => Inv
  BY InitInv
<1>2. Inv /\ [Next]_vars => Inv'
  BY NextInv
<1> QED
  BY <1>1, <1>2, PTL DEF Spec

(* Stored values are well-formed, in memory and in the file.                 *)
THEOREM TypeCorrect == Spec => []TypeOK
<1>1. Inv => TypeOK
  BY DEF Inv
<1> QED
  BY <1>1, Invariance, PTL

(* A key is stored for a request exactly when it is approved.                *)
THEOREM WrapIffApprovedHolds == Spec => []WrapIffApproved
<1>1. Inv => WrapIffApproved
  BY DEF Inv
<1> QED
  BY <1>1, Invariance, PTL

(* After a save that worked, a restart loses nothing.                        *)
THEOREM DurableHolds == Spec => []Durable
<1>1. Inv => Durable
  BY DEF Inv
<1> QED
  BY <1>1, Invariance, PTL

(* A rejected applicant stays locked out for the cooldown.                   *)
THEOREM LockoutHolds == Spec => []LockoutRespected
<1>1. Inv => LockoutRespected
  BY TightIsRespected DEF Inv
<1> QED
  BY <1>1, Invariance, PTL

-----------------------------------------------------------------------------
(* What one step can do to a live request: nothing that matters, or, while   *)
(* it is pending, a decision or one more message.                            *)

Evolves(q, qq) ==
    \/ qq.status = q.status /\ qq.wrap = q.wrap /\ qq.messages = q.messages
    \/ q.status = "pending" /\ qq.messages = q.messages
    \/ /\ q.status = "pending"
       /\ \E m \in Messages : qq.messages = Append(q.messages, m)

Kept(r, p) ==
    \/ rooms'[r] = None
    \/ rooms'[r].requests[p] = None /\ rooms[r].requests[p].status = "approved"
    \/ /\ rooms'[r].requests[p] # None
       /\ Evolves(rooms[r].requests[p], rooms'[r].requests[p])

(* An operation on one request keeps the others.                             *)
LEMMA OthersKept ==
    ASSUME Inv, NEW rr \in RoomIDs, NEW pp \in Pubs, rooms[rr] # None,
           NEW q \in Request \cup {None}, SetRequest(rr, pp, q),
           NEW r \in RoomIDs, NEW p \in Pubs, IsLive(r, p),
           (r = rr /\ p = pp) =>
             \/ q = None /\ rooms[r].requests[p].status = "approved"
             \/ q # None /\ Evolves(rooms[r].requests[p], q)
    PROVE  Kept(r, p)
<1>1. rooms \in Rooms
  BY DEF Inv, TypeOK
<1>2. rooms' = WithRequest(rooms, rr, pp, q)
  BY DEF SetRequest, Commit
<1>3. /\ rooms'[rr] # None
      /\ rooms'[rr].requests[pp] = q
      /\ \A x \in RoomIDs, y \in Pubs :
           (rooms[x] # None /\ (x # rr \/ y # pp)) =>
             rooms'[x].requests[y] = rooms[x].requests[y]
  BY <1>1, <1>2, WithRequestLemma
<1>4. rooms[r] # None /\ rooms[r].requests[p] # None
  BY DEF IsLive, HasRequest, Exists
<1>5. CASE r = rr /\ p = pp
  BY <1>3, <1>5 DEF Kept
<1>6. CASE r # rr \/ p # pp
  BY <1>3, <1>4, <1>6 DEF Kept, Evolves
<1> QED
  BY <1>5, <1>6

LEMMA StepKeeps ==
    ASSUME Inv, [Next]_vars, NEW r \in RoomIDs, NEW p \in Pubs, IsLive(r, p),
           ~LosesWrites
    PROVE  Kept(r, p)
<1> DEFINE old == rooms[r].requests[p]
<1>0. rooms[r] # None /\ old # None /\ HasRequest(r, p) /\ ~IsExpired(old)
  BY DEF IsLive, HasRequest, Exists
<1>1. ASSUME NEW rr \in RoomIDs, NEW create \in BOOLEAN,
             NEW inbox \in InboxPubs \cup {None}, Claim(rr, create, inbox)
      PROVE  Kept(r, p)
  <2>1. rooms' = [rooms EXCEPT ![rr] = IF Exists(rr) THEN Reclaimed(rooms[rr], inbox)
                                                     ELSE NewRoom(inbox)]
    BY <1>1 DEF Claim, Commit
  <2>2. rooms'[r] = IF r = rr THEN Reclaimed(rooms[r], inbox) ELSE rooms[r]
    BY <1>0, <2>1 DEF Exists, Inv, TypeOK, Rooms
  <2>3. rooms'[r].requests = rooms[r].requests
    BY <2>2 DEF Reclaimed
  <2> QED
    BY <1>0, <2>3 DEF Kept, Evolves
<1>2. ASSUME NEW rr \in RoomIDs, NEW pp \in Pubs, NEW m \in Messages,
             AddMessage(rr, pp, m)
      PROVE  Kept(r, p)
  <2> DEFINE q == WithMessage(rooms[rr].requests[pp], m)
  <2>1. MessageOK(rr, pp) /\ SetRequest(rr, pp, q)
    BY <1>2 DEF AddMessage
  <2>2. /\ HasRequest(rr, pp) /\ rooms[rr].requests[pp].status = "pending"
        /\ Len(rooms[rr].requests[pp].messages) < MaxMessages
    BY <2>1 DEF MessageOK, IsPending
  <2>3. rooms[rr] # None /\ rooms[rr].requests[pp] \in Request
    BY <2>2, StoredRequest
  <2>4. Append(rooms[rr].requests[pp].messages, m)
          \in {s \in Seq(Messages) : Len(s) <= MaxMessages}
    BY <2>2, <2>3, LimitsAssumption DEF Request
  <2>5. 0 \in 0..MaxIdle
    BY TimesAssumption DEF MaxIdle
  <2>6. q \in Request
    BY <2>3, <2>4, <2>5 DEF WithMessage, Request
  <2>7. q # None /\ Evolves(rooms[rr].requests[pp], q)
    BY <2>2, <2>6, NoneAssumption DEF Evolves, WithMessage
  <2> HIDE DEF q
  <2> QED
    BY <2>1, <2>3, <2>6, <2>7, OthersKept
<1>3. ASSUME NEW rr \in RoomIDs, NEW pp \in Pubs, Submit(rr, pp)
      PROVE  Kept(r, p)
  <2>1. rooms[rr] # None
    BY <1>3 DEF Submit, SubmitOK, Exists
  <2>2. CASE IsLive(rr, pp)
    <3> DEFINE q == Refreshed(rooms[rr].requests[pp])
    <3>1. SetRequest(rr, pp, q)
      BY <1>3, <2>2 DEF Submit
    <3>2. rooms[rr].requests[pp] \in Request
      BY <2>2, StoredRequest DEF IsLive
    <3>3. /\ q \in Request
          /\ q.status = rooms[rr].requests[pp].status
          /\ q.wrap = rooms[rr].requests[pp].wrap
          /\ q.messages = rooms[rr].requests[pp].messages
      BY <3>2, TimesAssumption DEF Request, Refreshed, MaxIdle
    <3> HIDE DEF q
    <3>4. q # None /\ Evolves(rooms[rr].requests[pp], q)
      BY <3>3, NoneAssumption DEF Evolves
    <3> QED
      BY <2>1, <3>1, <3>3, <3>4, OthersKept
  <2>3. CASE ~IsLive(rr, pp)
    <3>1. SetRequest(rr, pp, NewRequest)
      BY <1>3, <2>3 DEF Submit
    <3>2. NewRequest \in Request
      BY TimesAssumption, LimitsAssumption DEF NewRequest, Request, Status, MaxIdle
    <3>3. r # rr \/ p # pp
      BY <2>3
    <3> QED
      BY <2>1, <3>1, <3>2, <3>3, OthersKept
  <2> QED
    BY <2>2, <2>3
<1>4. ASSUME NEW rr \in RoomIDs, NEW pp \in Pubs, NEW status \in Status,
             NEW w \in Wraps \cup {None}, DecideOK(rr, pp),
             SetRequest(rr, pp, Decided(rooms[rr].requests[pp], status, w))
      PROVE  Kept(r, p)
  <2> DEFINE q == Decided(rooms[rr].requests[pp], status, w)
  <2>1. HasRequest(rr, pp) /\ rooms[rr].requests[pp].status = "pending"
    BY <1>4 DEF DecideOK, IsPending
  <2>2. rooms[rr] # None /\ rooms[rr].requests[pp] \in Request
    BY <2>1, StoredRequest
  <2>3. 0 \in 0..MaxIdle
    BY TimesAssumption DEF MaxIdle
  <2>4. q \in Request
    BY <2>2, <2>3 DEF Decided, Request
  <2>5. q # None /\ Evolves(rooms[rr].requests[pp], q)
    BY <2>1, <2>4, NoneAssumption DEF Evolves, Decided
  <2>6. SetRequest(rr, pp, q)
    BY <1>4
  <2> HIDE DEF q
  <2> QED
    BY <2>2, <2>4, <2>5, <2>6, OthersKept
<1>5. ASSUME NEW rr \in RoomIDs, NEW pp \in Pubs, NEW w \in Wraps,
             Approve(rr, pp, w)
      PROVE  Kept(r, p)
  BY <1>4, <1>5 DEF Approve, Status
<1>6. ASSUME NEW rr \in RoomIDs, NEW pp \in Pubs, Reject(rr, pp)
      PROVE  Kept(r, p)
  <2>1. HasRequest(rr, pp)
    BY <1>6 DEF Reject, DecideOK, IsPending
  <2>2. rooms[rr].requests[pp].wrap \in Wraps \cup {None}
    BY <2>1, StoredRequest DEF Request
  <2>3. /\ DecideOK(rr, pp)
        /\ SetRequest(rr, pp, Decided(rooms[rr].requests[pp], "rejected",
                                      rooms[rr].requests[pp].wrap))
    BY <1>6 DEF Reject
  <2> QED
    BY <1>4, <2>2, <2>3 DEF Status
<1>7. ASSUME NEW rr \in RoomIDs, NEW pp \in Pubs, Done(rr, pp)
      PROVE  Kept(r, p)
  <2>1. /\ HasRequest(rr, pp) /\ rooms[rr].requests[pp].status = "approved"
        /\ SetRequest(rr, pp, None)
    BY <1>7 DEF Done, DoneOK
  <2>2. rooms[rr] # None
    BY <2>1 DEF HasRequest, Exists
  <2> QED
    BY <2>1, <2>2, OthersKept
<1>8. CASE Purge
  <2>1. rooms' = Purged
    BY <1>8 DEF Purge, Commit
  <2>2. rooms'[r] = PurgedRoom(rooms[r])
    BY <2>1 DEF Purged
  <2>3. CASE Abandoned(rooms[r])
    BY <2>2, <2>3 DEF PurgedRoom, Kept
  <2>4. CASE ~Abandoned(rooms[r])
    <3>1. rooms'[r].requests = PurgedRequests(rooms[r])
      BY <1>0, <2>2, <2>4, PurgedLemma DEF Inv, TypeOK
    <3>2. rooms'[r].requests[p] = old
      BY <1>0, <3>1 DEF PurgedRequests
    <3> QED
      BY <1>0, <3>2 DEF Kept, Evolves
  <2> QED
    BY <2>3, <2>4
<1>9. CASE Tick
  <2>1. rooms' = OlderRooms(rooms) /\ rooms \in Rooms
    BY <1>9 DEF Tick, Inv, TypeOK
  <2> QED
    BY <1>0, <2>1, OlderLemma DEF Kept, Evolves
<1>10. CASE Restart
  <2>1. rooms' = rooms
    BY <1>10 DEF Restart, LosesWrites, Inv, Durable
  <2> QED
    BY <1>0, <2>1 DEF Kept, Evolves
<1>11. CASE UNCHANGED vars
  BY <1>0, <1>11 DEF vars, Kept, Evolves
<1> QED
  BY <1>1, <1>2, <1>3, <1>5, <1>6, <1>7, <1>8, <1>9, <1>10, <1>11 DEF Next

(* The first decision on a request is final.                                 *)
THEOREM DecisionIsFinalHolds == Spec => DecisionIsFinal
<1>1. Inv /\ [Next]_vars =>
        [\A r \in RoomIDs, p \in Pubs :
           ( /\ IsLive(r, p)
             /\ rooms[r].requests[p].status # "pending"
             /\ ~LosesWrites )
           => \/ rooms'[r] = None
              \/ /\ rooms'[r].requests[p] = None
                 /\ rooms[r].requests[p].status = "approved"
              \/ /\ rooms'[r].requests[p] # None
                 /\ rooms'[r].requests[p].status = rooms[r].requests[p].status
                 /\ rooms'[r].requests[p].wrap = rooms[r].requests[p].wrap
        ]_vars
  BY StepKeeps DEF Kept, Evolves
<1> QED
  BY <1>1, Invariance, PTL DEF Spec, DecisionIsFinal

(* The messages of a live request only grow at the end.                      *)
THEOREM ConversationKeptHolds == Spec => ConversationKept
<1>1. ASSUME NEW s \in Seq(Messages)
      PROVE  /\ IsPrefix(s, s)
             /\ \A m \in Messages : IsPrefix(s, Append(s, m))
  BY DEF IsPrefix
<1>2. Inv /\ [Next]_vars =>
        [\A r \in RoomIDs, p \in Pubs :
           ( /\ IsLive(r, p)
             /\ rooms'[r] # None
             /\ rooms'[r].requests[p] # None
             /\ ~LosesWrites )
           => IsPrefix(rooms[r].requests[p].messages,
                       rooms'[r].requests[p].messages)]_vars
  <2> SUFFICES ASSUME Inv, [Next]_vars, NEW r \in RoomIDs, NEW p \in Pubs,
                      IsLive(r, p), rooms'[r] # None,
                      rooms'[r].requests[p] # None, ~LosesWrites
               PROVE  IsPrefix(rooms[r].requests[p].messages,
                               rooms'[r].requests[p].messages)
    OBVIOUS
  <2>1. Evolves(rooms[r].requests[p], rooms'[r].requests[p])
    BY StepKeeps DEF Kept
  <2>2. rooms[r].requests[p].messages \in Seq(Messages)
    BY StoredRequest DEF IsLive, Request
  <2>3. CASE rooms'[r].requests[p].messages = rooms[r].requests[p].messages
    BY <1>1, <2>2, <2>3, Zenon
  <2>4. CASE \E m \in Messages :
               rooms'[r].requests[p].messages = Append(rooms[r].requests[p].messages, m)
    BY <1>1, <2>2, <2>4, Zenon
  <2> QED
    BY <2>1, <2>3, <2>4 DEF Evolves
<1> QED
  BY <1>2, Invariance, PTL DEF Spec, ConversationKept

-----------------------------------------------------------------------------
(* The limit on pending requests.  Counting them takes that there are       *)
(* finitely many: a step adds at most one.                                  *)

Asked(s, r) == {p \in Pubs : s[r] # None /\ s[r].requests[p] # None}

FinitelyMany(s) == \A r \in RoomIDs : IsFiniteSet(Asked(s, r))

LEMMA OneMore ==
    ASSUME NEW s \in Rooms, NEW t \in Rooms, FinitelyMany(s),
           \A r \in RoomIDs : \E p \in Pubs : Asked(t, r) \subseteq Asked(s, r) \cup {p}
    PROVE  FinitelyMany(t)
BY FS_AddElement, FS_Subset DEF FinitelyMany

LEMMA NoMore ==
    ASSUME FinitelyMany(rooms), FinitelyMany(disk), Inv, Inv',
           \A r \in RoomIDs : Asked(rooms', r) \subseteq Asked(rooms, r),
           disk' \in {disk, rooms'}
    PROVE  FinitelyMany(rooms') /\ FinitelyMany(disk')
<1>1. FinitelyMany(rooms')
  BY FS_Subset DEF FinitelyMany
<1> QED
  BY <1>1

LEMMA FinitelyManyStep ==
    ASSUME Inv, Inv', FinitelyMany(rooms), FinitelyMany(disk), [Next]_vars
    PROVE  FinitelyMany(rooms') /\ FinitelyMany(disk')
<1>0. rooms \in Rooms /\ disk \in Rooms /\ rooms' \in Rooms /\ disk' \in Rooms
  BY DEF Inv, TypeOK
<1>1. ASSUME NEW new, Commit(new)
      PROVE  rooms' = new /\ disk' \in {disk, rooms'}
  BY <1>1 DEF Commit, Save
<1>2. ASSUME NEW r \in RoomIDs, NEW p \in Pubs, NEW q \in Request \cup {None},
             rooms[r] # None, SetRequest(r, p, q)
      PROVE  FinitelyMany(rooms') /\ FinitelyMany(disk')
  <2>1. rooms' = WithRequest(rooms, r, p, q) /\ disk' \in {disk, rooms'}
    BY <1>1, <1>2 DEF SetRequest
  <2>2. /\ \A x \in RoomIDs : rooms'[x] = None <=> rooms[x] = None
        /\ \A x \in RoomIDs, y \in Pubs :
             (rooms[x] # None /\ (x # r \/ y # p)) =>
               rooms'[x].requests[y] = rooms[x].requests[y]
    BY <1>0, <1>2, <2>1, WithRequestLemma
  <2>3. \A x \in RoomIDs : Asked(rooms', x) \subseteq Asked(rooms, x) \cup {p}
    BY <2>2 DEF Asked
  <2>4. FinitelyMany(rooms')
    BY <1>0, <2>3, OneMore
  <2> QED
    BY <2>1, <2>4
<1>3. ASSUME NEW r \in RoomIDs, NEW create \in BOOLEAN,
             NEW inbox \in InboxPubs \cup {None}, Claim(r, create, inbox)
      PROVE  FinitelyMany(rooms') /\ FinitelyMany(disk')
  <2>1. /\ rooms' = [rooms EXCEPT ![r] = IF Exists(r) THEN Reclaimed(rooms[r], inbox)
                                                      ELSE NewRoom(inbox)]
        /\ disk' \in {disk, rooms'}
    BY <1>1, <1>3 DEF Claim
  <2>2. \A x \in RoomIDs : Asked(rooms', x) \subseteq Asked(rooms, x)
    BY <1>0, <2>1 DEF Asked, Rooms, Exists, Reclaimed, NewRoom, NoRequests
  <2> QED
    BY <2>1, <2>2, NoMore
<1>5. ASSUME NEW r \in RoomIDs, NEW p \in Pubs, NEW m \in Messages, AddMessage(r, p, m)
      PROVE  FinitelyMany(rooms') /\ FinitelyMany(disk')
  <2> DEFINE q == WithMessage(rooms[r].requests[p], m)
  <2>1. HasRequest(r, p) /\ SetRequest(r, p, q)
    BY <1>5 DEF AddMessage, MessageOK, IsPending
  <2>2. \A x \in RoomIDs : Asked(rooms', x) \subseteq Asked(rooms, x)
    <3>1. rooms'[r] \in Room \cup {None} /\ rooms[r] # None
      BY <1>0, <2>1 DEF Rooms, HasRequest, Exists
    <3> QED
      BY <1>0, <2>1 DEF Asked, SetRequest, Commit, WithRequest, HasRequest, Exists, Rooms
  <2>3. disk' \in {disk, rooms'}
    BY <1>1, <2>1 DEF SetRequest
  <2> QED
    BY <2>2, <2>3, NoMore
<1>6. ASSUME NEW r \in RoomIDs, NEW p \in Pubs, Submit(r, p)
      PROVE  FinitelyMany(rooms') /\ FinitelyMany(disk')
  <2>1. rooms[r] # None
    BY <1>6 DEF Submit, SubmitOK, Exists
  <2>2. CASE IsLive(r, p)
    <3> DEFINE q == Refreshed(rooms[r].requests[p])
    <3>1. SetRequest(r, p, q)
      BY <1>6, <2>2 DEF Submit
    <3>2. rooms[r].requests[p] \in Request
      BY <2>2, StoredRequest DEF IsLive
    <3>3. q \in Request
      BY <3>2, TimesAssumption DEF Request, Refreshed, MaxIdle
    <3> QED
      BY <1>2, <2>1, <3>1, <3>3
  <2>3. CASE ~IsLive(r, p)
    <3>1. SetRequest(r, p, NewRequest)
      BY <1>6, <2>3 DEF Submit
    <3>2. NewRequest \in Request
      BY TimesAssumption, LimitsAssumption DEF NewRequest, Request, Status, MaxIdle
    <3> QED
      BY <1>2, <2>1, <3>1, <3>2
  <2> QED
    BY <2>2, <2>3
<1>7. ASSUME NEW r \in RoomIDs, NEW p \in Pubs,
             (\E w \in Wraps : Approve(r, p, w)) \/ Reject(r, p) \/ Done(r, p)
      PROVE  FinitelyMany(rooms') /\ FinitelyMany(disk')
  <2>1. HasRequest(r, p) /\ rooms[r] # None
    BY <1>7 DEF Approve, Reject, Done, DecideOK, DoneOK, IsPending, HasRequest, Exists
  <2>2. \E q : SetRequest(r, p, q)
    BY <1>7 DEF Approve, Reject, Done
  <2>3. PICK q : SetRequest(r, p, q)
    BY <2>2
  <2>4. rooms' = WithRequest(rooms, r, p, q) /\ disk' \in {disk, rooms'}
    BY <1>1, <2>3 DEF SetRequest
  <2>5. \A x \in RoomIDs : Asked(rooms', x) \subseteq Asked(rooms, x)
    BY <1>0, <2>1, <2>4 DEF Asked, WithRequest, HasRequest, Exists, Rooms
  <2> QED
    BY <2>4, <2>5, NoMore
<1>8. CASE Purge
  <2>1. rooms' = Purged /\ disk' \in {disk, rooms'}
    BY <1>1, <1>8 DEF Purge
  <2>2. \A x \in RoomIDs : Asked(rooms', x) \subseteq Asked(rooms, x)
    <3> SUFFICES ASSUME NEW x \in RoomIDs, NEW p \in Asked(rooms', x)
                 PROVE  p \in Asked(rooms, x)
      OBVIOUS
    <3>1. rooms'[x] = PurgedRoom(rooms[x]) /\ rooms'[x] # None /\ rooms'[x].requests[p] # None
      BY <2>1 DEF Asked, Purged
    <3>2. rooms[x] # None /\ ~Abandoned(rooms[x])
      BY <3>1 DEF PurgedRoom
    <3>3. rooms'[x].requests[p] = PurgedRequests(rooms[x])[p]
      BY <1>0, <3>1, <3>2, PurgedLemma
    <3> QED
      BY <3>1, <3>2, <3>3 DEF PurgedRequests, Asked
  <2> QED
    BY <2>1, <2>2, NoMore
<1>9. CASE Tick
  <2>1. \A s \in Rooms, x \in RoomIDs : Asked(OlderRooms(s), x) \subseteq Asked(s, x)
    BY OlderLemma DEF Asked
  <2>2. ASSUME NEW s \in Rooms, FinitelyMany(s)
        PROVE  FinitelyMany(OlderRooms(s))
    BY <2>1, <2>2, FS_Subset DEF FinitelyMany
  <2> QED
    BY <1>0, <1>9, <2>2 DEF Tick
<1>10. CASE Restart
  BY <1>10 DEF Restart
<1>11. CASE UNCHANGED vars
  BY <1>11 DEF vars
<1> QED
  BY <1>3, <1>5, <1>6, <1>7, <1>8, <1>9, <1>10, <1>11 DEF Next

(* A request that was there, pending, and no older, was one to decide.      *)
LEMMA WasPending ==
    ASSUME Inv, Inv', NEW r \in RoomIDs, NEW p \in Pending(r)', HasRequest(r, p),
           rooms[r].requests[p].status = rooms'[r].requests[p].status,
           rooms[r].requests[p].idle <= rooms'[r].requests[p].idle
    PROVE  p \in Pending(r)
<1>1. /\ p \in Pubs /\ rooms'[r] # None /\ rooms'[r].requests[p] # None
      /\ rooms'[r].requests[p].status = "pending"
      /\ ~(rooms'[r].requests[p].idle > RequestTTL)
  BY DEF Pending, IsPending, IsLive, HasRequest, Exists, IsExpired, Lifetime
<1>2. rooms[r].requests[p] \in Request
  BY <1>1, StoredRequest
<1>3. rooms'[r].requests[p] \in Request
  BY <1>1 DEF Inv, TypeOK, Rooms, Room, Pending
<1>4. rooms[r].requests[p].idle \in Nat /\ rooms'[r].requests[p].idle \in Nat
  BY <1>2, <1>3, TimesAssumption DEF Request, MaxIdle
<1>5. ~(rooms[r].requests[p].idle > RequestTTL)
  BY <1>1, <1>4, TimesAssumption
<1> QED
  BY <1>1, <1>5 DEF Pending, IsPending, IsLive, IsExpired, Lifetime

LEMMA SamePending ==
    ASSUME Inv, Inv', NEW r \in RoomIDs, NEW p \in Pending(r)', rooms[r] # None,
           rooms'[r].requests[p] = rooms[r].requests[p]
    PROVE  p \in Pending(r)
<1>1. p \in Pubs /\ rooms'[r].requests[p] # None
  BY DEF Pending, IsPending, HasRequest
<1>2. HasRequest(r, p)
  BY <1>1 DEF HasRequest, Exists
<1>3. rooms[r].requests[p].idle \in Nat
  BY <1>1, <1>2, StoredRequest, TimesAssumption DEF Request, MaxIdle
<1> QED
  BY <1>2, <1>3, WasPending

(* How a request comes to be decided: by applying while there is room, or   *)
(* by a message.                                                            *)
NewPending(r, p) ==
    \/ Cardinality(Pending(r)) < MaxPending /\ Pending(r)' \subseteq Pending(r) \cup {p}
    \/ /\ IsPending(r, p)
       /\ \E m \in Messages :
            rooms'[r].requests[p] = WithMessage(rooms[r].requests[p], m)

LEMMA PendingStep ==
    ASSUME Inv, Inv', [Next]_vars, ~LosesWrites,
           NEW r \in RoomIDs, NEW p \in Pending(r)', p \notin Pending(r)
    PROVE  NewPending(r, p)
<1>0. /\ rooms \in Rooms /\ rooms' \in Rooms /\ p \in Pubs
      /\ rooms'[r] # None /\ rooms'[r].requests[p] # None
      /\ rooms'[r].requests[p].status = "pending"
  BY DEF Inv, TypeOK, Pending, IsPending, HasRequest, Exists
<1>1. ASSUME NEW rr \in RoomIDs, NEW create \in BOOLEAN,
             NEW inbox \in InboxPubs \cup {None}, Claim(rr, create, inbox)
      PROVE  FALSE
  <2>1. rooms' = [rooms EXCEPT ![rr] = IF Exists(rr) THEN Reclaimed(rooms[rr], inbox)
                                                     ELSE NewRoom(inbox)]
    BY <1>1 DEF Claim, Commit
  <2>2. rooms[r] # None /\ rooms'[r].requests[p] = rooms[r].requests[p]
    BY <1>0, <2>1 DEF Rooms, Exists, Reclaimed, NewRoom, NoRequests
  <2> QED
    BY <2>2, SamePending
<1>2. ASSUME NEW rr \in RoomIDs, NEW pp \in Pubs, NEW q \in Request \cup {None},
             rooms[rr] # None, SetRequest(rr, pp, q)
      PROVE  rr = r /\ pp = p /\ rooms'[r].requests[p] = q
  <2>1. rooms' = WithRequest(rooms, rr, pp, q)
    BY <1>2 DEF SetRequest, Commit
  <2>2. /\ rooms'[rr].requests[pp] = q
        /\ \A x \in RoomIDs : rooms'[x] = None <=> rooms[x] = None
        /\ \A x \in RoomIDs, y \in Pubs :
             (rooms[x] # None /\ (x # rr \/ y # pp)) =>
               rooms'[x].requests[y] = rooms[x].requests[y]
    BY <1>0, <1>2, <2>1, WithRequestLemma
  <2>3. rr = r /\ pp = p
    BY <1>0, <2>2, SamePending
  <2> QED
    BY <2>2, <2>3
<1>3. ASSUME NEW rr \in RoomIDs, NEW pp \in Pubs, NEW m \in Messages,
             AddMessage(rr, pp, m)
      PROVE  NewPending(r, p)
  <2> DEFINE q == WithMessage(rooms[rr].requests[pp], m)
  <2>1. IsPending(rr, pp) /\ SetRequest(rr, pp, q)
    BY <1>3 DEF AddMessage, MessageOK
  <2>2. rooms[rr] # None /\ rooms[rr].requests[pp] \in Request
    BY <2>1, StoredRequest DEF IsPending
  <2>3. Len(rooms[rr].requests[pp].messages) < MaxMessages
    BY <1>3 DEF AddMessage, MessageOK
  <2>4. Append(rooms[rr].requests[pp].messages, m)
          \in {s \in Seq(Messages) : Len(s) <= MaxMessages}
    BY <2>2, <2>3, LimitsAssumption DEF Request
  <2>5. 0 \in 0..MaxIdle
    BY TimesAssumption DEF MaxIdle
  <2>6. q \in Request
    BY <2>2, <2>4, <2>5 DEF WithMessage, Request
  <2> HIDE DEF q
  <2>7. rr = r /\ pp = p /\ rooms'[r].requests[p] = q
    BY <1>2, <2>1, <2>2, <2>6
  <2> QED
    BY <2>1, <2>7 DEF q, NewPending
<1>4. ASSUME NEW rr \in RoomIDs, NEW pp \in Pubs, Submit(rr, pp)
      PROVE  NewPending(r, p)
  <2>1. rooms[rr] # None /\ SubmitOK(rr, pp)
    BY <1>4 DEF Submit, SubmitOK, Exists
  <2>2. CASE IsLive(rr, pp)
    <3> DEFINE q == Refreshed(rooms[rr].requests[pp])
    <3>1. SetRequest(rr, pp, q)
      BY <1>4, <2>2 DEF Submit
    <3>2. rooms[rr].requests[pp] \in Request
      BY <2>2, StoredRequest DEF IsLive
    <3>3. q \in Request /\ q.status = rooms[rr].requests[pp].status
      BY <3>2, TimesAssumption DEF Request, Refreshed, MaxIdle
    <3> HIDE DEF q
    <3>4. rr = r /\ pp = p /\ rooms'[r].requests[p] = q
      BY <1>2, <2>1, <3>1, <3>3
    <3>5. IsPending(r, p) /\ IsLive(r, p)
      BY <1>0, <2>2, <3>3, <3>4 DEF IsPending, IsLive
    <3> QED
      BY <1>0, <3>5 DEF Pending
  <2>3. CASE ~IsLive(rr, pp)
    <3>1. SetRequest(rr, pp, NewRequest)
      BY <1>4, <2>3 DEF Submit
    <3>2. NewRequest \in Request
      BY TimesAssumption, LimitsAssumption DEF NewRequest, Request, Status, MaxIdle
    <3>3. rr = r /\ pp = p
      BY <1>2, <2>1, <3>1, <3>2
    <3>4. Cardinality(Pending(r)) < MaxPending
      BY <2>1, <2>3, <3>3 DEF SubmitOK
    <3>5. rooms' = WithRequest(rooms, r, p, NewRequest)
      BY <3>1, <3>3 DEF SetRequest, Commit
    <3>6. \A y \in Pubs \ {p} : rooms'[r].requests[y] = rooms[r].requests[y]
      BY <1>0, <2>1, <3>2, <3>3, <3>5, WithRequestLemma
    <3>7. Pending(r)' \subseteq Pending(r) \cup {p}
      <4> SUFFICES ASSUME NEW y \in Pending(r)', y # p PROVE y \in Pending(r)
        OBVIOUS
      <4>1. y \in Pubs
        BY DEF Pending
      <4> QED
        BY <2>1, <3>3, <3>6, <4>1, SamePending
    <3> QED
      BY <3>4, <3>7 DEF NewPending
  <2> QED
    BY <2>2, <2>3
<1>5. ASSUME NEW rr \in RoomIDs, NEW pp \in Pubs,
             (\E w \in Wraps : Approve(rr, pp, w)) \/ Reject(rr, pp) \/ Done(rr, pp)
      PROVE  FALSE
  <2>1. HasRequest(rr, pp)
    BY <1>5 DEF Approve, Reject, Done, DecideOK, DoneOK, IsPending
  <2>2. rooms[rr] # None /\ rooms[rr].requests[pp] \in Request
    BY <2>1, StoredRequest
  <2>3. 0 \in 0..MaxIdle
    BY TimesAssumption DEF MaxIdle
  <2>4. \E q \in Request \cup {None} :
          SetRequest(rr, pp, q) /\ (q = None \/ q.status # "pending")
    <3>1. ASSUME NEW status \in {"approved", "rejected"}, NEW w \in Wraps \cup {None}
          PROVE  /\ Decided(rooms[rr].requests[pp], status, w) \in Request
                 /\ Decided(rooms[rr].requests[pp], status, w).status # "pending"
      BY <2>2, <2>3 DEF Decided, Request, Status
    <3>2. CASE \E w \in Wraps : Approve(rr, pp, w)
      BY <3>1, <3>2 DEF Approve
    <3>3. CASE Reject(rr, pp)
      <4>1. rooms[rr].requests[pp].wrap \in Wraps \cup {None}
        BY <2>2 DEF Request
      <4> QED
        BY <3>1, <3>3, <4>1 DEF Reject
    <3>4. CASE Done(rr, pp)
      BY <3>4 DEF Done
    <3> QED
      BY <1>5, <3>2, <3>3, <3>4
  <2>5. PICK q \in Request \cup {None} :
          SetRequest(rr, pp, q) /\ (q = None \/ q.status # "pending")
    BY <2>4
  <2>6. rooms'[r].requests[p] = q
    BY <1>2, <2>2, <2>5
  <2> QED
    BY <1>0, <2>5, <2>6
<1>6. CASE Purge
  <2>1. rooms'[r] = PurgedRoom(rooms[r])
    BY <1>6 DEF Purge, Commit, Purged
  <2>2. rooms[r] # None /\ ~Abandoned(rooms[r])
    BY <1>0, <2>1 DEF PurgedRoom
  <2>3. rooms'[r].requests[p] = PurgedRequests(rooms[r])[p]
    BY <1>0, <2>1, <2>2, PurgedLemma
  <2>4. rooms'[r].requests[p] = rooms[r].requests[p]
    BY <1>0, <2>3 DEF PurgedRequests
  <2> QED
    BY <2>2, <2>4, SamePending
<1>7. CASE Tick
  <2>1. rooms' = OlderRooms(rooms)
    BY <1>7 DEF Tick
  <2>2. /\ HasRequest(r, p)
        /\ rooms[r].requests[p].status = rooms'[r].requests[p].status
        /\ rooms'[r].requests[p].idle = Older(rooms[r].requests[p].idle, MaxIdle)
    BY <1>0, <2>1, OlderLemma DEF HasRequest, Exists
  <2>3. rooms[r].requests[p].idle \in Nat
    BY <1>0, <2>2, StoredRequest, TimesAssumption DEF Request, MaxIdle
  <2>4. rooms[r].requests[p].idle <= rooms'[r].requests[p].idle
    BY <2>2, <2>3 DEF Older
  <2> QED
    BY <2>2, <2>4, WasPending
<1>8. CASE Restart
  <2>1. rooms' = rooms
    BY <1>8 DEF Restart, LosesWrites, Inv, Durable
  <2> QED
    BY <1>0, <2>1, SamePending
<1>9. CASE UNCHANGED vars
  BY <1>0, <1>9, SamePending DEF vars
<1> QED
  BY <1>1, <1>3, <1>4, <1>5, <1>6, <1>7, <1>8, <1>9 DEF Next

LEMMA FinitelyManyAlways == Spec => [](FinitelyMany(rooms) /\ FinitelyMany(disk))
<1>1. Init => FinitelyMany(rooms) /\ FinitelyMany(disk)
  <2> SUFFICES ASSUME Init PROVE \A r \in RoomIDs : Asked(rooms, r) = {} /\ Asked(disk, r) = {}
    BY FS_EmptySet DEF FinitelyMany
  <2> QED
    BY DEF Init, NoRooms, Asked
<1>2. /\ Inv /\ Inv' /\ FinitelyMany(rooms) /\ FinitelyMany(disk) /\ [Next]_vars
      => (FinitelyMany(rooms) /\ FinitelyMany(disk))'
  BY FinitelyManyStep DEF FinitelyMany
<1> QED
  BY <1>1, <1>2, Invariance, PTL DEF Spec

(* maxPendingByRoom: applying never takes a room beyond the limit.          *)
THEOREM PendingLimitHolds == Spec => PendingLimit
<1>1. Inv /\ Inv' /\ FinitelyMany(rooms) /\ [Next]_vars =>
        [\A r \in RoomIDs :
           Cardinality(Pending(r)') > MaxPending /\ ~LosesWrites =>
             \A p \in Pending(r)' \ Pending(r) :
               /\ IsPending(r, p)
               /\ \E m \in Messages :
                    rooms'[r].requests[p] = WithMessage(rooms[r].requests[p], m)]_vars
  <2> SUFFICES ASSUME Inv, Inv', FinitelyMany(rooms), [Next]_vars, NEW r \in RoomIDs,
                      Cardinality(Pending(r)') > MaxPending, ~LosesWrites,
                      NEW p \in Pending(r)' \ Pending(r)
               PROVE  /\ IsPending(r, p)
                      /\ \E m \in Messages :
                           rooms'[r].requests[p] = WithMessage(rooms[r].requests[p], m)
    OBVIOUS
  <2>1. IsFiniteSet(Pending(r))
    <3>1. Pending(r) \subseteq Asked(rooms, r)
      BY DEF Pending, Asked, IsPending, HasRequest, Exists
    <3> QED
      BY <3>1, FS_Subset DEF FinitelyMany
  <2>2. ASSUME Cardinality(Pending(r)) < MaxPending, Pending(r)' \subseteq Pending(r) \cup {p}
        PROVE  FALSE
    <3>1. /\ IsFiniteSet(Pending(r) \cup {p})
          /\ Cardinality(Pending(r) \cup {p}) = Cardinality(Pending(r)) + 1
      BY <2>1, FS_AddElement
    <3>2. /\ Cardinality(Pending(r)') <= Cardinality(Pending(r)) + 1
          /\ Cardinality(Pending(r)') \in Nat
      BY <2>2, <3>1, FS_Subset, FS_CardinalityType
    <3>3. Cardinality(Pending(r)) \in Nat
      BY <2>1, FS_CardinalityType
    <3> QED
      BY <2>2, <3>2, <3>3, LimitsAssumption
  <2>3. NewPending(r, p)
    BY PendingStep
  <2> QED
    BY <2>2, <2>3 DEF NewPending
<1> QED
  BY <1>1, Invariance, FinitelyManyAlways, PTL DEF Spec, PendingLimit
=============================================================================
