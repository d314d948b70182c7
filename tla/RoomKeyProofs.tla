---------------------------- MODULE RoomKeyProofs ----------------------------
(***************************************************************************)
(* Theorems about RoomKey for every set of tabs and browsers and every      *)
(* number of lost connections: the members of a room hold one key, their    *)
(* browsers keep it, and the inbox key reaches the applicants and the       *)
(* members that were greeted by one that has it.                            *)
(***************************************************************************)
EXTENDS RoomKey, Functions, SequenceTheorems, TLAPS

Registered == Store!Exists(Room)

Req(b) == rooms[Room].requests[b]

PageType ==
    [creating : BOOLEAN, claimed : BOOLEAN, roomInbox : Tabs \cup {None},
     inboxClaimed : BOOLEAN, waits : BOOLEAN, chat : Tabs \cup {None}]

-----------------------------------------------------------------------------
(* The inductive invariant, part 1: what is on its way, and who has which   *)
(* pair of keys.  A room is made before inbox keys existed, world "old", or *)
(* by the pages, world "new"; the two never mix.                            *)

Worlds == {"old", "new"}

(* In a new room a pair is the one its creator made, or that one without    *)
(* the inbox key, which only a member can have passed on.                   *)
PairIn(w, p) ==
    /\ w = "old" => p.key \in {None, OldKey}
    /\ w = "new" => /\ p.key # OldKey /\ p.inbox \in {None, p.key}
                    /\ p.key # None /\ p.inbox = None => Registered

(* A decision and the pair wrapped for the applicant.                       *)
WrapIn(w, status, wrap) ==
    /\ status = "approved" => wrap # None
    /\ wrap # None => wrap \in KeyPair /\ wrap.key # None /\ PairIn(w, wrap)

ClaimIn(w, create, inbox) ==
    /\ w = "old" => ~create
    /\ w = "new" /\ inbox = None => Registered

TaskIn(w, x) ==
    /\ x.step = "claim" => ClaimIn(w, x.create, x.inbox)
    /\ x.step \in {"requested", "reply"} => WrapIn(w, x.status, x.wrap)

AnswerIn(w, m) ==
    /\ m.type = "welcome" /\ w = "old" => m.exists
    /\ m.type = "claim-result" /\ w = "old" => m.ok
    /\ m.type = "claim-result" /\ w = "new" /\ m.ok => m.inbox # None
    /\ m.type = "join-status" => WrapIn(w, m.status, m.wrap)

NoResult(s) == \A m \in Range(s) : m.type # "claim-result"

OneRefusal(s) ==
    \E i \in 1..Len(s) :
      /\ s[i].type = "claim-result" /\ ~s[i].ok
      /\ \A j \in 1..Len(s) : s[j].type = "claim-result" => j = i

WelcomeFirst(s) == \A i \in 1..Len(s) : s[i].type = "welcome" => i = 1

Welcomed(s) == s # <<>> /\ Head(s).type = "welcome"

(* A claim or its answer is on its way.                                     *)
InFlight(t) ==
    \/ \E m \in Range(up[t]) : m.type = "claim"
    \/ task[t].step = "claim"
    \/ ~NoResult(down[t])

(* The page has asked to create the room, and does not yet know that it was *)
(* refused.                                                                 *)
Trying(t) ==
    \/ \E m \in Range(up[t]) : m.type = "claim" /\ m.create
    \/ task[t].step = "claim" /\ task[t].create
    \/ \E m \in Range(down[t]) : m.type = "claim-result" /\ ~m.ok

(* Until then it holds the keys it made and has nothing else on its way.    *)
TriesAlone(t) ==
    /\ keys[t] = [key |-> t, inbox |-> t]
    /\ page[t].creating /\ ~page[t].claimed /\ ~Welcomed(down[t])
    /\ \/ up[t] = <<ClaimMessage(TRUE, t)>> /\ task[t] = Idle /\ NoResult(down[t])
       \/ up[t] = <<>> /\ task[t].step = "claim" /\ task[t].create /\ NoResult(down[t])
       \/ up[t] = <<>> /\ task[t] = Idle /\ OneRefusal(down[t])

OfflineAt(t) ==
    t \notin online =>
      /\ up[t] = <<>> /\ down[t] = <<>> /\ task[t] = Idle
      /\ reqID[t] = None /\ ~page[t].claimed

(* Everything about one page, its connection and its handler.               *)
LocalAt(w, t) ==
    /\ OfflineAt(t)
    /\ page[t].claimed \/ InFlight(t) => keys[t].key # None
    /\ PairIn(w, keys[t])
    /\ \A m \in Range(up[t]) : m.type = "claim" => ClaimIn(w, m.create, m.inbox)
    /\ TaskIn(w, task[t])
    /\ \A m \in Range(down[t]) : AnswerIn(w, m)
    /\ WelcomeFirst(down[t])
    /\ Welcomed(down[t]) /\ keys[t].key = None => up[t] = <<>> /\ task[t] = Idle
    /\ Trying(t) => TriesAlone(t)

StoreAt(w) ==
    /\ rooms \in [{Room} -> Store!Room \cup {None}]
    /\ Registered => \A b \in Browsers :
         Req(b) # None => WrapIn(w, Req(b).status, Req(b).wrap)
    /\ w = "old" => Registered
    /\ w = "new" /\ Registered => InboxPub # None

StoredIn(w) == \A b \in Browsers : PairIn(w, stored[b])

-----------------------------------------------------------------------------
(* Part 2: one key.                                                         *)

WrapOf(k, wrap) == wrap # None /\ wrap.key = k

InStore(k) == Registered /\ \E b \in Browsers : Req(b) # None /\ WrapOf(k, Req(b).wrap)

InTasks(k) ==
    \E t \in Tabs : task[t].step \in {"requested", "reply"} /\ WrapOf(k, task[t].wrap)

InQueues(k) ==
    \E t \in Tabs : \E m \in Range(down[t]) : m.type = "join-status" /\ WrapOf(k, m.wrap)

Wrapping(k) == InStore(k) \/ InTasks(k) \/ InQueues(k)

(* Somebody has the room key k, or will get it.                             *)
HeldKey(k) ==
    /\ k # None
    /\ \/ \E t \in Tabs : keys[t].key = k
       \/ \E b \in Browsers : stored[b].key = k
       \/ Wrapping(k)

(* The page will create the room unless it has a key.                       *)
WillCreate(t) == Welcomed(down[t]) /\ ~Head(down[t]).exists

(* The key of a page that is trying to create the room is in its hands and  *)
(* in its browser only.                                                     *)
KeptBack(t) ==
    /\ \A x \in Tabs \ {t} : keys[x].key # t
    /\ \A b \in Browsers \ {browserOf[t]} : stored[b].key # t
    /\ ~Wrapping(t)

Accepted(k) == HeldKey(k) /\ \A t \in Tabs : Trying(t) => k # t

OneKeyHeld ==
    /\ \A k, l \in Keys : Accepted(k) /\ Accepted(l) => k = l
    /\ \A k \in Keys : Accepted(k) => Registered
    /\ \A t \in Tabs : Trying(t) => KeptBack(t)
    /\ \A t \in Tabs : WillCreate(t) => ~HeldKey(t)

-----------------------------------------------------------------------------
(* Part 3: the keys are stored.                                             *)

StoredToo ==
    \A t \in Tabs :
      (keys[t].key # None /\ browserOf[t] \notin contested) =>
        /\ stored[browserOf[t]].key = keys[t].key
        /\ keys[t].inbox # None => stored[browserOf[t]].inbox = keys[t].inbox

Types ==
    /\ browserOf \in [Tabs -> Browsers]
    /\ stored \in [Browsers -> KeyPair] /\ keys \in [Tabs -> KeyPair]
    /\ page \in [Tabs -> PageType]
    /\ task \in [Tabs -> TaskType]
    /\ up \in [Tabs -> Seq(Up)] /\ down \in [Tabs -> Seq(Down)]
    /\ \A t \in Tabs : reqID[t] \in {browserOf[t], None}
    /\ reqID \in [Tabs -> Browsers \cup {None}]
    /\ online \in SUBSET Tabs
    /\ early \subseteq greeted /\ greeted \subseteq online \X online
    /\ contested \in SUBSET Browsers
    /\ drops \in 0..MaxDrops

Sound(w) == StoreAt(w) /\ StoredIn(w) /\ \A t \in Tabs : LocalAt(w, t)

Inv ==
    /\ Types /\ StoredToo
    /\ \E w \in Worlds : Sound(w)
    /\ unconfirmed \/ OneKeyHeld

-----------------------------------------------------------------------------
(* Queues.                                                                  *)

LEMMA Appended ==
    ASSUME NEW S, NEW s \in Seq(S), NEW m \in S
    PROVE  /\ Append(s, m) \in Seq(S) /\ Len(s) \in Nat
           /\ Len(Append(s, m)) = Len(s) + 1
           /\ \A i \in 1..Len(s) : Append(s, m)[i] = s[i]
           /\ Append(s, m)[Len(s) + 1] = m
           /\ Range(Append(s, m)) = Range(s) \cup {m}
           /\ Append(s, m) # <<>>
           /\ Head(Append(s, m)) = IF s = <<>> THEN m ELSE Head(s)
<1>1. /\ Append(s, m) \in Seq(S) /\ Len(s) \in Nat
      /\ Len(Append(s, m)) = Len(s) + 1
      /\ \A i \in 1..Len(s) : Append(s, m)[i] = s[i]
      /\ Append(s, m)[Len(s) + 1] = m
  BY AppendProperties, LenProperties
<1>2. DOMAIN s = 1..Len(s) /\ DOMAIN Append(s, m) = 1..(Len(s) + 1)
  BY <1>1, LenProperties
<1>3. Range(Append(s, m)) = Range(s) \cup {m}
  BY <1>1, <1>2 DEF Range
<1>4. s # <<>> => Len(s) # 0 /\ Head(s) = s[1]
  BY HeadTailProperties, EmptySeq
<1>5. s = <<>> => Len(s) = 0
  BY EmptySeq
<1>6. Append(s, m) # <<>> /\ Head(Append(s, m)) = Append(s, m)[1]
  <2>1. Len(Append(s, m)) # 0
    BY <1>1
  <2>2. Append(s, m) # <<>>
    BY <2>1, EmptySeq
  <2> QED
    BY <1>1, <2>2, HeadTailProperties
<1> QED
  BY <1>1, <1>3, <1>4, <1>5, <1>6

LEMMA Taken ==
    ASSUME NEW S, NEW s \in Seq(S), s # <<>>
    PROVE  /\ Tail(s) \in Seq(S) /\ Head(s) \in S
           /\ Len(s) \in Nat \ {0} /\ Len(Tail(s)) = Len(s) - 1
           /\ \A i \in 1..(Len(s) - 1) : Tail(s)[i] = s[i + 1]
           /\ Head(s) = s[1]
           /\ Range(s) = {Head(s)} \cup Range(Tail(s))
           /\ Tail(s) # <<>> => Head(Tail(s)) \in Range(Tail(s))
<1>1. /\ Tail(s) \in Seq(S) /\ Head(s) \in S
      /\ Len(s) \in Nat \ {0} /\ Len(Tail(s)) = Len(s) - 1
      /\ \A i \in 1..(Len(s) - 1) : Tail(s)[i] = s[i + 1]
      /\ Head(s) = s[1]
  BY HeadTailProperties, LenProperties, EmptySeq
<1>2. DOMAIN s = 1..Len(s) /\ DOMAIN Tail(s) = 1..(Len(s) - 1)
  BY <1>1, LenProperties
<1>3. Range(s) = {Head(s)} \cup Range(Tail(s))
  <2> DEFINE t == Tail(s)
             n == Len(s)
             h == Head(s)
  <2>1. /\ n \in Nat \ {0} /\ \A i \in 1..(n - 1) : t[i] = s[i + 1]
        /\ h = s[1] /\ DOMAIN s = 1..n /\ DOMAIN t = 1..(n - 1)
    BY <1>1, <1>2
  <2> HIDE DEF t, n, h
  <2>2. \A i \in 1..n : i # 1 => i - 1 \in 1..(n - 1) /\ t[i - 1] = s[i]
    BY <2>1
  <2>3. \A i \in 1..(n - 1) : i + 1 \in 1..n /\ 1 \in 1..n
    BY <2>1
  <2>4. Range(s) = {s[i] : i \in 1..n} /\ Range(t) = {t[i] : i \in 1..(n - 1)}
    BY <2>1 DEF Range
  <2>5. \A i \in 1..n : s[i] \in {h} \cup Range(t)
    BY <2>1, <2>2, <2>4
  <2>6. \A i \in 1..(n - 1) : t[i] \in Range(s)
    BY <2>1, <2>3, <2>4
  <2>7. h \in Range(s)
    BY <2>1, <2>4
  <2>8. Range(s) = {h} \cup Range(t)
    BY <2>4, <2>5, <2>6, <2>7
  <2> QED
    BY <2>8 DEF t, h
<1>4. ASSUME Tail(s) # <<>> PROVE Head(Tail(s)) \in Range(Tail(s))
  <2> DEFINE u == Tail(s)
  <2>1. Len(u) \in Nat \ {0} /\ Head(u) = u[1]
    BY <1>1, <1>4, HeadTailProperties, LenProperties, EmptySeq
  <2>2. DOMAIN u = 1..Len(u)
    BY <1>1, LenProperties
  <2> HIDE DEF u
  <2>3. 1 \in DOMAIN u
    BY <2>1, <2>2
  <2>4. u[1] \in Range(u)
    BY <2>3 DEF Range
  <2> QED
    BY <2>1, <2>4 DEF u
<1> QED
  BY <1>1, <1>3, <1>4

LEMMA EmptyQueue ==
    /\ Range(<<>>) = {} /\ Len(<<>>) = 0
    /\ NoResult(<<>>) /\ WelcomeFirst(<<>>) /\ ~Welcomed(<<>>)
<1>1. Range(<<>>) = {} /\ Len(<<>>) = 0
  BY EmptySeq DEF Range
<1> QED
  BY <1>1 DEF NoResult, WelcomeFirst, Welcomed

(* A message other than a welcome is added to a queue.                      *)
LEMMA MessageAdded ==
    ASSUME NEW s \in Seq(Down), NEW m \in Down, m.type # "welcome"
    PROVE  /\ Range(Append(s, m)) = Range(s) \cup {m}
           /\ WelcomeFirst(s) => WelcomeFirst(Append(s, m))
           /\ Welcomed(Append(s, m)) => Welcomed(s) /\ Head(Append(s, m)) = Head(s)
           /\ m.type # "claim-result" =>
                /\ NoResult(s) <=> NoResult(Append(s, m))
                /\ OneRefusal(s) => OneRefusal(Append(s, m))
           /\ m.type = "claim-result" /\ ~m.ok /\ NoResult(s) => OneRefusal(Append(s, m))
<1> DEFINE u == Append(s, m)
<1>1. /\ u \in Seq(Down) /\ Len(s) \in Nat /\ Len(u) = Len(s) + 1
      /\ \A i \in 1..Len(s) : u[i] = s[i]
      /\ u[Len(s) + 1] = m
      /\ Range(u) = Range(s) \cup {m}
      /\ Head(u) = IF s = <<>> THEN m ELSE Head(s)
  BY Appended
<1>2. \A i \in 1..Len(s) : s[i] \in Range(s)
  BY LenProperties DEF Range
<1> HIDE DEF u
<1>3. WelcomeFirst(s) => WelcomeFirst(u)
  BY <1>1 DEF WelcomeFirst
<1>4. Welcomed(u) => Welcomed(s) /\ Head(u) = Head(s)
  BY <1>1 DEF Welcomed
<1>5. m.type # "claim-result" => (NoResult(s) <=> NoResult(u))
  BY <1>1 DEF NoResult
<1>6. m.type # "claim-result" /\ OneRefusal(s) => OneRefusal(u)
  BY <1>1 DEF OneRefusal
<1>7. m.type = "claim-result" /\ ~m.ok /\ NoResult(s) => OneRefusal(u)
  BY <1>1, <1>2 DEF OneRefusal, NoResult
<1> QED
  BY <1>1, <1>3, <1>4, <1>5, <1>6, <1>7 DEF u

(* The head of a queue is taken.                                            *)
LEMMA MessageTaken ==
    ASSUME NEW s \in Seq(Down), s # <<>>, WelcomeFirst(s)
    PROVE  /\ Range(s) = {Head(s)} \cup Range(Tail(s))
           /\ WelcomeFirst(Tail(s)) /\ ~Welcomed(Tail(s))
           /\ NoResult(s) <=> Head(s).type # "claim-result" /\ NoResult(Tail(s))
           /\ OneRefusal(s) /\ Head(s).type # "claim-result" => OneRefusal(Tail(s))
           /\ OneRefusal(s) /\ Head(s).type = "claim-result" => NoResult(Tail(s))
<1> DEFINE u == Tail(s)
           n == Len(s)
           m == Head(s)
<1>1. /\ n \in Nat \ {0} /\ Len(u) = n - 1
      /\ \A i \in 1..(n - 1) : u[i] = s[i + 1]
      /\ m = s[1]
      /\ Range(s) = {m} \cup Range(u)
      /\ u \in Seq(Down)
      /\ u # <<>> => Head(u) \in Range(u)
  BY Taken
<1>2. DOMAIN u = 1..(n - 1)
  BY <1>1, LenProperties
<1> HIDE DEF u, m, n
<1>3. \A i \in 1..(n - 1) : i + 1 \in 1..n /\ i + 1 # 1
  BY <1>1
<1>4. \A i \in 1..(n - 1) : u[i].type # "welcome"
  BY <1>1, <1>3 DEF WelcomeFirst, n
<1>5. \A x \in Range(u) : \E i \in 1..(n - 1) : x = u[i]
  BY <1>2 DEF Range
<1>6. WelcomeFirst(u)
  BY <1>1, <1>4 DEF WelcomeFirst
<1>7. ~Welcomed(u)
  BY <1>1, <1>4, <1>5 DEF Welcomed
<1>8. NoResult(s) <=> m.type # "claim-result" /\ NoResult(u)
  BY <1>1 DEF NoResult
<1>9. ASSUME NEW i \in 1..n, s[i].type = "claim-result", ~s[i].ok,
             \A j \in 1..n : s[j].type = "claim-result" => j = i
      PROVE  IF m.type = "claim-result" THEN NoResult(u) ELSE OneRefusal(u)
  <2>1. CASE m.type = "claim-result"
    <3>1. i = 1
      BY <1>1, <1>9, <2>1
    <3>2. \A j \in 1..(n - 1) : u[j].type # "claim-result"
      BY <1>1, <1>3, <1>9, <3>1
    <3> QED
      BY <1>5, <2>1, <3>2 DEF NoResult
  <2>2. CASE m.type # "claim-result"
    <3>1. i - 1 \in 1..(n - 1) /\ u[i - 1] = s[i]
      BY <1>1, <1>9, <2>2
    <3>2. \A j \in 1..(n - 1) : u[j].type = "claim-result" => j = i - 1
      <4> TAKE j \in 1..(n - 1)
      <4>1. u[j] = s[j + 1] /\ j + 1 \in 1..n
        BY <1>1, <1>3
      <4>2. u[j].type = "claim-result" => j + 1 = i
        BY <1>9, <4>1
      <4> QED
        BY <1>1, <4>2
    <3>3. u[i - 1].type = "claim-result" /\ ~u[i - 1].ok
      BY <1>9, <3>1
    <3>4. \A j \in 1..Len(u) : u[j].type = "claim-result" => j = i - 1
      BY <1>1, <3>2
    <3>5. i - 1 \in 1..Len(u)
      BY <1>1, <3>1
    <3>6. OneRefusal(u)
      BY <3>3, <3>4, <3>5 DEF OneRefusal
    <3> QED
      BY <2>2, <3>6
  <2> QED
    BY <2>1, <2>2
<1>10. OneRefusal(s) => IF m.type = "claim-result" THEN NoResult(u) ELSE OneRefusal(u)
  BY <1>9 DEF OneRefusal, n
<1> QED
  BY <1>1, <1>6, <1>7, <1>8, <1>10 DEF u, m

-----------------------------------------------------------------------------
(* Messages and handlers.                                                   *)

LEMMA TaskTypes ==
    ASSUME NEW x \in TaskType
    PROVE  /\ x.step \in {"idle", "broadcast", "claim", "requested", "reply"}
           /\ x = Idle <=> x.step = "idle"
           /\ x.step = "claim" => x.create \in BOOLEAN /\ x.inbox \in Tabs \cup {None}
           /\ x.step \in {"requested", "reply"} =>
                /\ x.status \in Store!Status /\ x.wrap \in KeyPair \cup {None}
                /\ x.inbox \in Tabs \cup {None}
<1>1. CASE x = Idle \/ x = [step |-> "broadcast"]
  <2>1. x.step \in {"idle", "broadcast"} /\ (x = Idle <=> x.step = "idle")
    BY <1>1 DEF Idle
  <2> QED
    BY <2>1
<1>2. CASE x \in [step : {"claim"}, create : BOOLEAN, inbox : Tabs \cup {None}, had : BOOLEAN]
  <2>1. /\ x.step = "claim" /\ x # Idle
        /\ x.create \in BOOLEAN /\ x.inbox \in Tabs \cup {None}
    BY <1>2 DEF Idle
  <2> QED
    BY <2>1
<1>3. CASE x \in [step : {"requested", "reply"}, status : Store!Status,
                  wrap : KeyPair \cup {None}, inbox : Tabs \cup {None}]
  <2>1. /\ x.step \in {"requested", "reply"} /\ x # Idle
        /\ x.status \in Store!Status /\ x.wrap \in KeyPair \cup {None}
        /\ x.inbox \in Tabs \cup {None}
    BY <1>3 DEF Idle
  <2> QED
    BY <2>1
<1> QED
  BY <1>1, <1>2, <1>3 DEF TaskType

LEMMA NewTasks ==
    /\ Idle \in TaskType /\ [step |-> "broadcast"] \in TaskType
    /\ Idle.step = "idle"
    /\ \A create \in BOOLEAN, inbox \in Tabs \cup {None}, had \in BOOLEAN :
         [step |-> "claim", create |-> create, inbox |-> inbox, had |-> had] \in TaskType
    /\ \A status \in Store!Status, wrap \in KeyPair \cup {None} :
         [step |-> "requested", status |-> status, wrap |-> wrap, inbox |-> None] \in TaskType
BY DEF TaskType, Idle

LEMMA UpTypes ==
    ASSUME NEW m \in Up
    PROVE  /\ m.type \in {"claim", "join-request", "join-done"}
           /\ m.type = "claim" => m.create \in BOOLEAN /\ m.inbox \in Tabs \cup {None}
BY DEF Up

LEMMA NewUps ==
    /\ JoinRequest \in Up /\ JoinRequest.type = "join-request"
    /\ [type |-> "join-done"] \in Up
    /\ \A create \in BOOLEAN, inbox \in Tabs \cup {None} :
         /\ ClaimMessage(create, inbox) \in Up
         /\ ClaimMessage(create, inbox).type = "claim"
         /\ ClaimMessage(create, inbox).create = create
         /\ ClaimMessage(create, inbox).inbox = inbox
BY DEF Up, JoinRequest, ClaimMessage

LEMMA DownTypes ==
    ASSUME NEW m \in Down
    PROVE  /\ m.type \in {"welcome", "claim-result", "join-requests", "join-status"}
           /\ m.type = "welcome" => m.exists \in BOOLEAN
           /\ m.type = "claim-result" => m.ok \in BOOLEAN
           /\ m.type # "welcome" => m.inbox \in Tabs \cup {None}
           /\ m.type = "join-status" =>
                m.status \in Store!Status /\ m.wrap \in KeyPair \cup {None}
BY DEF Down

LEMMA NewDowns ==
    /\ \A exists \in BOOLEAN : [type |-> "welcome", exists |-> exists] \in Down
    /\ \A ok \in BOOLEAN, inbox \in Tabs \cup {None} :
         [type |-> "claim-result", ok |-> ok, inbox |-> inbox] \in Down
    /\ \A inbox \in Tabs \cup {None} : [type |-> "join-requests", inbox |-> inbox] \in Down
    /\ \A status \in Store!Status, wrap \in KeyPair \cup {None}, inbox \in Tabs \cup {None} :
         [type |-> "join-status", status |-> status, wrap |-> wrap, inbox |-> inbox] \in Down
BY DEF Down

LEMMA PairTypes ==
    /\ NoKeys \in KeyPair /\ NoKeys.key = None /\ NoKeys.inbox = None
    /\ \A p \in KeyPair : /\ p.key \in Keys \cup {None} /\ p.inbox \in Tabs \cup {None}
                          /\ p # NoKeys => p.key # None \/ p.inbox # None
    /\ \A k \in Keys \cup {None}, i \in Tabs \cup {None} : [key |-> k, inbox |-> i] \in KeyPair
    /\ \A p \in KeyPair, i \in Tabs \cup {None} :
         /\ [p EXCEPT !.inbox = i] \in KeyPair
         /\ [p EXCEPT !.inbox = i].key = p.key
         /\ [p EXCEPT !.inbox = i].inbox = i
BY DEF KeyPair, NoKeys, Keys

LEMMA Begun ==
    ASSUME Types, NEW t \in Tabs, NEW type, Begins(t, type)
    PROVE  /\ t \in online /\ task[t] = Idle /\ up[t] # <<>>
           /\ Head(up[t]) \in Up /\ Head(up[t]) \in Range(up[t])
           /\ Head(up[t]).type = type
           /\ up' \in [Tabs -> Seq(Up)]
           /\ up'[t] = Tail(up[t])
           /\ Range(up[t]) = {Head(up[t])} \cup Range(up'[t])
           /\ \A x \in Tabs \ {t} : up'[x] = up[x]
<1> DEFINE s == up[t]
<1>1. s \in Seq(Up) /\ up \in [Tabs -> Seq(Up)]
  BY DEF Types
<1>2. /\ t \in online /\ task[t] = Idle /\ s # <<>> /\ Head(s).type = type
      /\ up' = [up EXCEPT ![t] = Tail(s)]
  BY DEF Begins
<1>3. Tail(s) \in Seq(Up) /\ Head(s) \in Up /\ Range(s) = {Head(s)} \cup Range(Tail(s))
  BY <1>1, <1>2, Taken
<1> QED
  BY <1>1, <1>2, <1>3

LEMMA Received ==
    ASSUME Types, NEW t \in Tabs, NEW type, Receives(t, type), WelcomeFirst(down[t])
    PROVE  /\ t \in online /\ down[t] # <<>>
           /\ Head(down[t]) \in Down /\ Head(down[t]) \in Range(down[t])
           /\ Head(down[t]).type = type
           /\ down' \in [Tabs -> Seq(Down)]
           /\ down'[t] = Tail(down[t])
           /\ Range(down[t]) = {Head(down[t])} \cup Range(down'[t])
           /\ WelcomeFirst(down'[t]) /\ ~Welcomed(down'[t])
           /\ NoResult(down[t]) <=> type # "claim-result" /\ NoResult(down'[t])
           /\ OneRefusal(down[t]) /\ type # "claim-result" => OneRefusal(down'[t])
           /\ OneRefusal(down[t]) /\ type = "claim-result" => NoResult(down'[t])
           /\ \A x \in Tabs \ {t} : down'[x] = down[x]
<1> DEFINE s == down[t]
<1>1. s \in Seq(Down) /\ down \in [Tabs -> Seq(Down)]
  BY DEF Types
<1>2. /\ t \in online /\ s # <<>> /\ Head(s).type = type
      /\ down' = [down EXCEPT ![t] = Tail(s)]
  BY DEF Receives
<1>3. Tail(s) \in Seq(Down) /\ Head(s) \in Down /\ Range(s) = {Head(s)} \cup Range(Tail(s))
  BY <1>1, <1>2, Taken
<1>4. /\ WelcomeFirst(Tail(s)) /\ ~Welcomed(Tail(s))
      /\ NoResult(s) <=> type # "claim-result" /\ NoResult(Tail(s))
      /\ OneRefusal(s) /\ type # "claim-result" => OneRefusal(Tail(s))
      /\ OneRefusal(s) /\ type = "claim-result" => NoResult(Tail(s))
  BY <1>1, <1>2, MessageTaken
<1>5. down'[t] = Tail(s) /\ down' \in [Tabs -> Seq(Down)] /\ \A x \in Tabs \ {t} : down'[x] = down[x]
  BY <1>1, <1>2, <1>3
<1> QED
  BY <1>2, <1>3, <1>4, <1>5

LEMMA Sent ==
    ASSUME Types, NEW ts, NEW m \in Down, SendTo(ts, m)
    PROVE  /\ down' \in [Tabs -> Seq(Down)]
           /\ \A x \in Tabs : x \in ts =>
                /\ down'[x] = Append(down[x], m)
                /\ Range(down'[x]) = Range(down[x]) \cup {m}
           /\ \A x \in Tabs : x \notin ts => down'[x] = down[x]
<1>1. down \in [Tabs -> Seq(Down)]
  BY DEF Types
<1>2. down' = [x \in Tabs |-> IF x \in ts THEN Append(down[x], m) ELSE down[x]]
  BY DEF SendTo
<1>3. \A x \in Tabs : /\ Append(down[x], m) \in Seq(Down)
                      /\ Range(Append(down[x], m)) = Range(down[x]) \cup {m}
  BY <1>1, Appended
<1> QED
  BY <1>1, <1>2, <1>3

LEMMA SentOne ==
    ASSUME Types, NEW t \in Tabs, NEW m \in Down, SendTo({t}, m)
    PROVE  /\ down' \in [Tabs -> Seq(Down)]
           /\ down'[t] = Append(down[t], m)
           /\ Range(down'[t]) = Range(down[t]) \cup {m}
           /\ \A x \in Tabs \ {t} : down'[x] = down[x]
<1>1. PICK ts : ts = {t}
  OBVIOUS
<1>2. SendTo(ts, m)
  BY <1>1
<1>3. t \in ts /\ \A x \in Tabs \ {t} : x \notin ts
  BY <1>1
<1> QED
  BY <1>2, <1>3, Sent

LEMMA Went ==
    ASSUME Types, NEW t \in Tabs, NEW step \in TaskType, GoTo(t, step)
    PROVE  /\ task' \in [Tabs -> TaskType] /\ task'[t] = step
           /\ \A x \in Tabs \ {t} : task'[x] = task[x]
BY DEF Types, GoTo

LEMMA Answered ==
    ASSUME Types, NEW t \in Tabs, NEW m \in Up, Answers(t, <<m>>)
    PROVE  /\ up' \in [Tabs -> Seq(Up)]
           /\ up'[t] = Append(up[t], m)
           /\ Range(up'[t]) = Range(up[t]) \cup {m}
           /\ up[t] = <<>> => up'[t] = <<m>>
           /\ \A x \in Tabs \ {t} : up'[x] = up[x]
<1> DEFINE s == up[t]
<1>1. s \in Seq(Up) /\ up \in [Tabs -> Seq(Up)]
  BY DEF Types
<1>2. up' = [up EXCEPT ![t] = s \o <<m>>]
  BY DEF Answers
<1>3. s \o <<m>> = Append(s, m)
  BY <1>1
<1>4. Append(s, m) \in Seq(Up) /\ Range(Append(s, m)) = Range(s) \cup {m}
  BY <1>1, Appended
<1>5. Append(<<>>, m) = <<m>>
  OBVIOUS
<1> QED
  BY <1>1, <1>2, <1>3, <1>4, <1>5

LEMMA AnsweredTwice ==
    ASSUME Types, NEW t \in Tabs, NEW m \in Up, NEW n \in Up, Answers(t, <<m, n>>)
    PROVE  /\ up' \in [Tabs -> Seq(Up)]
           /\ Range(up'[t]) = Range(up[t]) \cup {m, n}
           /\ \A x \in Tabs \ {t} : up'[x] = up[x]
<1> DEFINE s == up[t]
<1>1. s \in Seq(Up) /\ up \in [Tabs -> Seq(Up)]
  BY DEF Types
<1>2. up' = [up EXCEPT ![t] = s \o <<m, n>>]
  BY DEF Answers
<1>3. s \o <<m, n>> = Append(Append(s, m), n)
  BY <1>1
<1>4. Append(s, m) \in Seq(Up) /\ Range(Append(s, m)) = Range(s) \cup {m}
  BY <1>1, Appended
<1>5. /\ Append(Append(s, m), n) \in Seq(Up)
      /\ Range(Append(Append(s, m), n)) = Range(Append(s, m)) \cup {n}
  <2> DEFINE v == Append(s, m)
  <2>1. v \in Seq(Up)
    BY <1>4
  <2> HIDE DEF v
  <2>2. Append(v, n) \in Seq(Up) /\ Range(Append(v, n)) = Range(v) \cup {n}
    BY <2>1, Appended
  <2> QED
    BY <2>2 DEF v
<1>6. up'[t] = Append(Append(s, m), n) /\ \A x \in Tabs \ {t} : up'[x] = up[x]
  BY <1>1, <1>2, <1>3
<1>7. up' \in [Tabs -> Seq(Up)]
  BY <1>1, <1>2, <1>3, <1>5
<1> QED
  BY <1>4, <1>5, <1>6, <1>7

-----------------------------------------------------------------------------
(* What a step leaves alone stays true.                                     *)

LEMMA FactsStay ==
    ASSUME NEW w \in Worlds, Registered => Registered'
    PROVE  /\ \A p : PairIn(w, p) => PairIn(w, p)'
           /\ \A status, wrap : WrapIn(w, status, wrap) => WrapIn(w, status, wrap)'
           /\ \A create, inbox : ClaimIn(w, create, inbox) => ClaimIn(w, create, inbox)'
           /\ \A x : TaskIn(w, x) => TaskIn(w, x)'
           /\ \A m : AnswerIn(w, m) => AnswerIn(w, m)'
<1>1. \A p : PairIn(w, p) => PairIn(w, p)'
  BY DEF PairIn
<1>2. \A status, wrap : WrapIn(w, status, wrap) => WrapIn(w, status, wrap)'
  BY DEF PairIn, WrapIn
<1>3. \A create, inbox : ClaimIn(w, create, inbox) => ClaimIn(w, create, inbox)'
  BY DEF ClaimIn
<1>4. \A x : TaskIn(w, x) => TaskIn(w, x)'
  BY DEF TaskIn, WrapIn, PairIn, ClaimIn
<1>5. \A m : AnswerIn(w, m) => AnswerIn(w, m)'
  BY DEF AnswerIn, WrapIn, PairIn
<1> QED
  BY <1>1, <1>2, <1>3, <1>4, <1>5

LEMMA LocalKept ==
    ASSUME NEW w \in Worlds, NEW x \in Tabs, Types, LocalAt(w, x),
           Registered => Registered',
           keys'[x] = keys[x], page'[x] = page[x], up'[x] = up[x], task'[x] = task[x],
           reqID'[x] = reqID[x], x \in online' <=> x \in online,
           NEW m \in Down, m.type \notin {"welcome", "claim-result"}, AnswerIn(w, m)',
           down'[x] = down[x] \/ (x \in online /\ down'[x] = Append(down[x], m))
    PROVE  /\ LocalAt(w, x)'
           /\ Trying(x)' <=> Trying(x)
           /\ WillCreate(x)' => WillCreate(x)
<1>0. PICK s \in Seq(Down), s1 \in Seq(Down) : s = down[x] /\ s1 = down'[x]
  <2>1. down[x] \in Seq(Down)
    BY DEF Types
  <2>2. Append(down[x], m) \in Seq(Down)
    BY <2>1, AppendProperties
  <2>3. down'[x] \in Seq(Down)
    BY <2>1, <2>2
  <2> QED
    BY <2>1, <2>3
<1>1. s1 = s \/ s1 = Append(s, m)
  BY <1>0
<1>2. /\ \A y \in Range(s1) : y \in Range(s) \/ y = m
      /\ Range(s) \subseteq Range(s1)
      /\ WelcomeFirst(s) => WelcomeFirst(s1)
      /\ Welcomed(s1) => Welcomed(s) /\ Head(s1) = Head(s)
      /\ NoResult(s1) <=> NoResult(s)
      /\ OneRefusal(s) => OneRefusal(s1)
  <2>1. CASE s1 = s
    BY <2>1
  <2>2. CASE s1 = Append(s, m)
    BY <2>2, MessageAdded
  <2> QED
    BY <1>1, <2>1, <2>2
<1>3. OfflineAt(x)'
  BY DEF LocalAt, OfflineAt
<1>4. InFlight(x)' <=> InFlight(x)
  BY <1>0, <1>2 DEF InFlight
<1>5. Trying(x)' <=> Trying(x)
  BY <1>0, <1>2 DEF Trying
<1>6. WillCreate(x)' => WillCreate(x)
  BY <1>0, <1>2 DEF WillCreate
<1>7. TriesAlone(x) => TriesAlone(x)'
  BY <1>0, <1>2 DEF TriesAlone
<1>8. PairIn(w, keys[x])'
  BY DEF LocalAt, PairIn
<1>9. (\A n \in Range(up[x]) : n.type = "claim" => ClaimIn(w, n.create, n.inbox))'
  BY DEF LocalAt, ClaimIn
<1>10. TaskIn(w, task[x])'
  <2>1. PICK y : y = task[x]
    OBVIOUS
  <2>2. TaskIn(w, y)
    BY <2>1 DEF LocalAt
  <2>3. TaskIn(w, y)'
    BY <2>2, FactsStay
  <2> QED
    BY <2>1, <2>3 DEF TaskIn, WrapIn, PairIn, ClaimIn
<1>11. (\A n \in Range(down[x]) : AnswerIn(w, n))'
  BY <1>0, <1>2, FactsStay DEF LocalAt
<1>12. WelcomeFirst(down[x])'
  BY <1>0, <1>2 DEF LocalAt
<1>13. (Welcomed(down[x]) /\ keys[x].key = None => up[x] = <<>> /\ task[x] = Idle)'
  BY <1>0, <1>2 DEF LocalAt
<1> QED
  BY <1>3, <1>4, <1>5, <1>6, <1>7, <1>8, <1>9, <1>10, <1>11, <1>12, <1>13 DEF LocalAt

(* The other pages at a step of t.                                          *)
Untouched(x) ==
    /\ keys'[x] = keys[x] /\ page'[x] = page[x] /\ up'[x] = up[x] /\ task'[x] = task[x]
    /\ reqID'[x] = reqID[x]
    /\ x \in online' <=> x \in online

OthersKept(w, t) ==
    \A x \in Tabs \ {t} :
      /\ LocalAt(w, x)'
      /\ Trying(x)' <=> Trying(x)
      /\ WillCreate(x)' => WillCreate(x)

LEMMA OthersUntouched ==
    ASSUME NEW w \in Worlds, NEW t \in Tabs, Types, Sound(w), Registered => Registered',
           \A x \in Tabs \ {t} : Untouched(x) /\ down'[x] = down[x]
    PROVE  OthersKept(w, t)
<1>1. PICK m : m = [type |-> "join-requests", inbox |-> None]
  OBVIOUS
<1>2. m \in Down /\ m.type = "join-requests"
  BY <1>1, NewDowns
<1>3. AnswerIn(w, m)'
  BY <1>2 DEF AnswerIn
<1> SUFFICES ASSUME NEW x \in Tabs \ {t}
             PROVE  /\ LocalAt(w, x)'
                    /\ Trying(x)' <=> Trying(x)
                    /\ WillCreate(x)' => WillCreate(x)
  BY DEF OthersKept
<1>4. LocalAt(w, x) /\ Untouched(x) /\ down'[x] = down[x]
  BY DEF Sound
<1> QED
  BY <1>2, <1>3, <1>4, LocalKept DEF Untouched

LEMMA OthersTold ==
    ASSUME NEW w \in Worlds, NEW t \in Tabs, Types, Sound(w), Registered => Registered',
           NEW m \in Down, m.type \notin {"welcome", "claim-result"}, AnswerIn(w, m)',
           NEW ts, ts \subseteq online, SendTo(ts, m),
           \A x \in Tabs \ {t} : Untouched(x)
    PROVE  OthersKept(w, t)
<1> SUFFICES ASSUME NEW x \in Tabs \ {t}
             PROVE  /\ LocalAt(w, x)'
                    /\ Trying(x)' <=> Trying(x)
                    /\ WillCreate(x)' => WillCreate(x)
  BY DEF OthersKept
<1>1. LocalAt(w, x) /\ Untouched(x)
  BY DEF Sound
<1>2. down'[x] = down[x] \/ (x \in online /\ down'[x] = Append(down[x], m))
  BY Sent
<1> QED
  BY <1>1, <1>2, LocalKept DEF Untouched

-----------------------------------------------------------------------------
(* The store.                                                               *)

LEMMA StoreFacts ==
    ASSUME NEW w \in Worlds, StoreAt(w), Registered
    PROVE  /\ rooms[Room] \in Store!Room /\ rooms[Room] # None
           /\ InboxPub = rooms[Room].inbox /\ InboxPub \in Tabs \cup {None}
           /\ \A b \in Browsers :
                /\ Req(b) \in Store!Request \cup {None}
                /\ Store!HasRequest(Room, b) <=> Req(b) # None
                /\ Req(b) # None => WrapIn(w, Req(b).status, Req(b).wrap)
<1>1. rooms[Room] \in Store!Room /\ rooms[Room] # None
  BY DEF StoreAt, Registered, Store!Exists
<1>2. InboxPub = rooms[Room].inbox
  BY DEF InboxPub, Store!InboxPub, Registered
<1>3. rooms[Room].inbox \in Tabs \cup {None}
  BY <1>1 DEF Store!Room
<1>4. \A b \in Browsers : Req(b) \in Store!Request \cup {None}
  BY <1>1 DEF Store!Room, Req
<1>5. \A b \in Browsers : Store!HasRequest(Room, b) <=> Req(b) # None
  BY DEF Store!HasRequest, Req, Registered
<1> QED
  BY <1>1, <1>2, <1>3, <1>4, <1>5 DEF StoreAt

LEMMA InboxTyped ==
    ASSUME NEW w \in Worlds, StoreAt(w)
    PROVE  InboxPub \in Tabs \cup {None}
<1>1. CASE Registered
  BY <1>1, StoreFacts
<1>2. CASE ~Registered
  BY <1>2 DEF InboxPub, Store!InboxPub, Registered
<1> QED
  BY <1>1, <1>2

LEMMA RequestFields ==
    ASSUME NEW q \in Store!Request
    PROVE  /\ q.status \in Store!Status /\ q.wrap \in KeyPair \cup {None} /\ q # None
BY NoneAssumption DEF Store!Request

LEMMA UnchangedStore ==
    ASSUME NEW w \in Worlds, StoreAt(w), UNCHANGED storeVars
    PROVE  /\ StoreAt(w)' /\ (Registered' <=> Registered)
           /\ InboxPub' = InboxPub
           /\ \A k : InStore(k)' <=> InStore(k)
<1>1. rooms' = rooms
  BY DEF storeVars
<1>2. Registered' <=> Registered
  BY <1>1 DEF Registered, Store!Exists
<1>3. InboxPub' = InboxPub
  BY <1>1 DEF InboxPub, Store!InboxPub, Store!Exists
<1>4. \A b \in Browsers : Req(b)' = Req(b)
  BY <1>1 DEF Req
<1>5. StoreAt(w)'
  BY <1>1, <1>2, <1>3, <1>4 DEF StoreAt, WrapIn, PairIn
<1>6. \A k : InStore(k)' <=> InStore(k)
  BY <1>2, <1>4 DEF InStore, WrapOf
<1> QED
  BY <1>2, <1>3, <1>5, <1>6

LEMMA RequestSet ==
    ASSUME NEW w \in Worlds, StoreAt(w), Registered,
           NEW b \in Browsers, NEW q \in Store!Request \cup {None},
           q # None => WrapIn(w, q.status, q.wrap), Store!SetRequest(Room, b, q)
    PROVE  /\ StoreAt(w)' /\ Registered'
           /\ InboxPub' = InboxPub
           /\ Req(b)' = q
           /\ \A o \in Browsers \ {b} : Req(o)' = Req(o)
<1> DEFINE s == rooms[Room]
           x == [s EXCEPT !.requests[b] = q]
<1>1. s \in Store!Room /\ InboxPub = s.inbox
  BY StoreFacts
<1>2. x = [idle |-> s.idle, inbox |-> s.inbox, requests |-> [s.requests EXCEPT ![b] = q]]
  BY <1>1 DEF Store!Room
<1>3. x \in Store!Room
  BY <1>1, <1>2 DEF Store!Room
<1>4. /\ x.inbox = s.inbox /\ x.requests[b] = q
      /\ \A o \in Browsers \ {b} : x.requests[o] = s.requests[o]
  BY <1>1, <1>2 DEF Store!Room
<1>5. rooms' = [rooms EXCEPT ![Room] = x]
  BY DEF Store!SetRequest, Store!Commit, Store!WithRequest
<1> HIDE DEF x
<1>6. rooms' \in [{Room} -> Store!Room \cup {None}] /\ rooms'[Room] = x
  BY <1>3, <1>5 DEF StoreAt
<1>7. Registered'
  BY <1>3, <1>6, NoneAssumption DEF Registered, Store!Exists
<1>8. InboxPub' = InboxPub
  BY <1>1, <1>4, <1>6, <1>7 DEF InboxPub, Store!InboxPub, Registered
<1>9. Req(b)' = q /\ \A o \in Browsers \ {b} : Req(o)' = Req(o)
  BY <1>4, <1>6 DEF Req
<1>10. \A o \in Browsers : Req(o)' # None => WrapIn(w, Req(o)'.status, Req(o)'.wrap)
  BY <1>9 DEF StoreAt
<1>11. (Registered => \A o \in Browsers :
          Req(o) # None => WrapIn(w, Req(o).status, Req(o).wrap))'
  BY <1>7, <1>10 DEF WrapIn, PairIn
<1> QED
  BY <1>6, <1>7, <1>8, <1>9, <1>11 DEF StoreAt

LEMMA Submitted ==
    ASSUME NEW w \in Worlds, StoreAt(w), NEW b \in Browsers, Store!Submit(Room, b)
    PROVE  /\ StoreAt(w)' /\ Registered /\ Registered' /\ InboxPub' = InboxPub
           /\ Req(b)' \in Store!Request
           /\ WrapIn(w, Req(b)'.status, Req(b)'.wrap)
           /\ Req(b)'.wrap # None => Req(b) # None /\ Req(b)'.wrap = Req(b).wrap
           /\ Req(b)'.status # "pending" => Req(b) # None /\ Req(b)'.status = Req(b).status
           /\ \A o \in Browsers \ {b} : Req(o)' = Req(o)
<1>0. PICK q : q = IF Store!IsLive(Room, b) THEN Store!Refreshed(rooms[Room].requests[b])
                                            ELSE Store!NewRequest
  OBVIOUS
<1>1. Store!SetRequest(Room, b, q)
  BY <1>0 DEF Store!Submit
<1>2. Registered
  BY DEF Store!Submit, Store!SubmitOK, Registered
<1>3. Store!NewRequest \in Store!Request /\ Store!NewRequest.wrap = None
      /\ Store!NewRequest.status = "pending"
  <2>1. <<>> \in Seq({}) /\ Len(<<>>) <= 1
    BY EmptySeq
  <2>2. 0 \in 0..Store!MaxIdle
    BY DEF Store!MaxIdle
  <2> QED
    BY <2>1, <2>2 DEF Store!Request, Store!NewRequest, Store!Status
<1>4. CASE Store!IsLive(Room, b)
  <2>1. Req(b) \in Store!Request /\ Req(b) # None /\ WrapIn(w, Req(b).status, Req(b).wrap)
    BY <1>2, <1>4, StoreFacts DEF Store!IsLive
  <2>2. q = [Req(b) EXCEPT !.idle = 0]
    BY <1>0, <1>4 DEF Store!Refreshed, Req
  <2>3. 0 \in 0..Store!MaxIdle
    BY DEF Store!MaxIdle
  <2>4. q \in Store!Request /\ q.status = Req(b).status /\ q.wrap = Req(b).wrap
    BY <2>1, <2>2, <2>3 DEF Store!Request
  <2> QED
    BY <1>1, <1>2, <2>1, <2>4, RequestSet
<1>5. CASE ~Store!IsLive(Room, b)
  <2>1. q \in Store!Request /\ q.wrap = None /\ q.status = "pending"
    BY <1>0, <1>3, <1>5
  <2>2. WrapIn(w, q.status, q.wrap)
    BY <2>1 DEF WrapIn
  <2> QED
    BY <1>1, <1>2, <2>1, <2>2, RequestSet
<1> QED
  BY <1>4, <1>5

LEMMA ApprovedInStore ==
    ASSUME NEW w \in Worlds, StoreAt(w), NEW b \in Browsers, NEW wrap \in KeyPair,
           WrapIn(w, "approved", wrap), b \in Store!Pending(Room),
           Store!Approve(Room, b, wrap)
    PROVE  /\ StoreAt(w)' /\ Registered /\ Registered' /\ InboxPub' = InboxPub
           /\ Req(b)' # None /\ Req(b)'.status = "approved" /\ Req(b)'.wrap = wrap
           /\ \A o \in Browsers \ {b} : Req(o)' = Req(o)
<1>1. Store!HasRequest(Room, b)
  BY DEF Store!Pending, Store!IsPending
<1>2. Registered
  BY <1>1 DEF Store!HasRequest, Registered
<1>3. Req(b) \in Store!Request
  BY <1>1, <1>2, StoreFacts
<1>4. PICK q : q = Store!Decided(Req(b), "approved", wrap)
  OBVIOUS
<1>5. Store!SetRequest(Room, b, q)
  BY <1>4 DEF Store!Approve, Req
<1>6. 0 \in 0..Store!MaxIdle
  BY DEF Store!MaxIdle
<1>7. q \in Store!Request /\ q.status = "approved" /\ q.wrap = wrap
  BY <1>3, <1>4, <1>6 DEF Store!Decided, Store!Request, Store!Status
<1>8. q # None
  BY <1>7, NoneAssumption
<1> QED
  BY <1>2, <1>5, <1>7, <1>8, RequestSet

LEMMA DoneInStore ==
    ASSUME NEW w \in Worlds, StoreAt(w), NEW b \in Browsers, Store!Done(Room, b)
    PROVE  /\ StoreAt(w)' /\ Registered /\ Registered' /\ InboxPub' = InboxPub
           /\ Req(b)' = None
           /\ \A o \in Browsers \ {b} : Req(o)' = Req(o)
<1>1. Registered
  BY DEF Store!Done, Store!DoneOK, Store!HasRequest, Registered
<1>2. Store!SetRequest(Room, b, None)
  BY DEF Store!Done
<1> QED
  BY <1>1, <1>2, RequestSet

LEMMA ClaimedInStore ==
    ASSUME NEW w \in Worlds, StoreAt(w), NEW create \in BOOLEAN, NEW inbox \in Tabs \cup {None},
           ClaimIn(w, create, inbox), Store!Claim(Room, create, inbox)
    PROVE  /\ StoreAt(w)' /\ Registered' /\ InboxPub' \in Tabs \cup {None}
           /\ InboxPub # None => InboxPub' = InboxPub
           /\ \A b \in Browsers : Req(b)' # None => Registered /\ Req(b)' = Req(b)
           /\ \A k : InStore(k)' => InStore(k)
           /\ create => ~Registered
<1>1. create => ~Registered
  BY DEF Store!Claim, Store!ClaimOK, Registered
<1>2. PICK x : x = IF Registered THEN Store!Reclaimed(rooms[Room], inbox) ELSE Store!NewRoom(inbox)
  OBVIOUS
<1>3. rooms' = [rooms EXCEPT ![Room] = x]
  BY <1>2 DEF Store!Claim, Store!Commit, Registered
<1>4. CASE Registered
  <2>1. /\ rooms[Room] \in Store!Room /\ InboxPub = rooms[Room].inbox
        /\ \A b \in Browsers : Req(b) # None => WrapIn(w, Req(b).status, Req(b).wrap)
    BY <1>4, StoreFacts
  <2>2. /\ x \in Store!Room /\ x.requests = rooms[Room].requests
        /\ x.inbox = IF rooms[Room].inbox = None THEN inbox ELSE rooms[Room].inbox
    BY <1>2, <1>4, <2>1 DEF Store!Reclaimed, Store!Room
  <2>3. x # None /\ rooms'[Room] = x /\ rooms' \in [{Room} -> Store!Room \cup {None}]
    BY <1>3, <2>2, NoneAssumption DEF StoreAt
  <2>4. Registered' /\ InboxPub' = x.inbox
    BY <2>3 DEF Registered, InboxPub, Store!InboxPub, Store!Exists
  <2>5. \A b \in Browsers : Req(b)' = Req(b)
    BY <2>2, <2>3 DEF Req
  <2>6. w = "new" => InboxPub # None
    BY <1>4 DEF StoreAt
  <2>7. w = "new" => InboxPub' # None
    BY <2>1, <2>2, <2>4, <2>6
  <2>8. (\A b \in Browsers : Req(b) # None => WrapIn(w, Req(b).status, Req(b).wrap))'
    BY <2>1, <2>4, <2>5 DEF WrapIn, PairIn
  <2>9. \A k : InStore(k)' => InStore(k)
    BY <1>4, <2>5 DEF InStore, WrapOf
  <2>10. x.inbox \in Tabs \cup {None}
    BY <2>2 DEF Store!Room
  <2>11. InboxPub # None => InboxPub' = InboxPub
    BY <2>1, <2>2, <2>4
  <2> QED
    BY <1>1, <1>4, <2>3, <2>4, <2>5, <2>7, <2>8, <2>9, <2>10, <2>11 DEF StoreAt
<1>5. CASE ~Registered
  <2>1. w = "new" /\ inbox # None
    BY <1>5 DEF StoreAt, ClaimIn, Worlds
  <2>2. /\ x = [idle |-> 0, inbox |-> inbox, requests |-> [p \in Browsers |-> None]]
    BY <1>2, <1>5 DEF Store!NewRoom, Store!NoRequests
  <2>3. x \in Store!Room /\ x.inbox = inbox
    BY <2>2 DEF Store!Room
  <2>4. x # None /\ rooms'[Room] = x /\ rooms' \in [{Room} -> Store!Room \cup {None}]
    BY <1>3, <2>3, NoneAssumption DEF StoreAt
  <2>5. Registered' /\ InboxPub' = inbox
    BY <2>3, <2>4 DEF Registered, InboxPub, Store!InboxPub, Store!Exists
  <2>6. \A b \in Browsers : Req(b)' = None
    BY <2>2, <2>4 DEF Req
  <2>7. \A k : ~InStore(k)'
    BY <2>6 DEF InStore
  <2>8. InboxPub = None
    BY <1>5 DEF InboxPub, Store!InboxPub, Registered
  <2> QED
    BY <1>1, <2>1, <2>4, <2>5, <2>6, <2>7, <2>8 DEF StoreAt
<1> QED
  BY <1>4, <1>5

-----------------------------------------------------------------------------
(* Keys.                                                                    *)

LEMMA KeyTypes ==
    ASSUME Types
    PROVE  /\ \A t \in Tabs : keys[t].key \in Keys \cup {None}
           /\ \A b \in Browsers : stored[b].key \in Keys \cup {None}
BY PairTypes DEF Types

(* The key of a page that is not trying to create the room is accepted, and *)
(* so is a key that is wrapped for somebody.                                *)
LEMMA OwnKeyAccepted ==
    ASSUME OneKeyHeld, NEW t \in Tabs, ~Trying(t), keys[t].key # None
    PROVE  Accepted(keys[t].key)
<1>1. HeldKey(keys[t].key)
  BY DEF HeldKey
<1>2. \A x \in Tabs : Trying(x) => keys[t].key # x
  BY DEF OneKeyHeld, KeptBack
<1> QED
  BY <1>1, <1>2 DEF Accepted

LEMMA WrappedKeyAccepted ==
    ASSUME OneKeyHeld, NEW k, k # None, Wrapping(k)
    PROVE  Accepted(k)
BY DEF OneKeyHeld, KeptBack, Accepted, HeldKey

(* OneKeyHeld holds on as long as keys change to accepted ones only.        *)
LEMMA OneKeyMoved ==
    ASSUME OneKeyHeld, browserOf' = browserOf, Registered => Registered',
           \A x \in Tabs :
             \/ keys'[x].key \in {keys[x].key, None}
             \/ \E k \in Keys : Accepted(k) /\ k = keys'[x].key,
           \A b \in Browsers :
             \/ stored'[b].key \in {stored[b].key, None}
             \/ \E k \in Keys : Accepted(k) /\ k = stored'[b].key,
           \A k \in Keys : Wrapping(k)' => Wrapping(k) \/ Accepted(k),
           \A x \in Tabs : Trying(x)' => Trying(x),
           \A x \in Tabs : Trying(x) => Trying(x)' \/ ~HeldKey(x)',
           \A x \in Tabs : WillCreate(x)' => WillCreate(x) \/ ~HeldKey(x)
    PROVE  OneKeyHeld'
<1>1. \A k \in Keys : Accepted(k) => HeldKey(k)
  BY DEF Accepted
<1>2. ASSUME NEW k \in Keys, HeldKey(k)' PROVE HeldKey(k)
  <2>1. k # None
    BY <1>2 DEF HeldKey
  <2>2. CASE \E x \in Tabs : keys'[x].key = k
    BY <1>1, <2>1, <2>2 DEF HeldKey
  <2>3. CASE \E b \in Browsers : stored'[b].key = k
    BY <1>1, <2>1, <2>3 DEF HeldKey
  <2>4. CASE Wrapping(k)'
    BY <1>1, <2>1, <2>4 DEF HeldKey
  <2> QED
    BY <1>2, <2>2, <2>3, <2>4 DEF HeldKey
<1>3. Tabs \subseteq Keys
  BY DEF Keys
<1>4. \A k \in Keys : Accepted(k)' => Accepted(k)
  BY <1>2, <1>3 DEF Accepted
<1>5. ASSUME NEW x \in Tabs, Trying(x)' PROVE KeptBack(x)'
  <2>1. Trying(x) /\ KeptBack(x) /\ ~Accepted(x) /\ x \in Keys
    BY <1>3, <1>5 DEF OneKeyHeld, Accepted
  <2>2. x # None
    BY NamesAssumption
  <2>3. \A y \in Tabs \ {x} : keys'[y].key # x
    BY <2>1, <2>2 DEF KeptBack
  <2>4. \A b \in Browsers \ {browserOf[x]} : stored'[b].key # x
    BY <2>1, <2>2 DEF KeptBack
  <2>5. ~Wrapping(x)'
    BY <2>1 DEF KeptBack
  <2> QED
    BY <2>3, <2>4, <2>5 DEF KeptBack
<1>6. \A x \in Tabs : WillCreate(x)' => ~HeldKey(x)'
  BY <1>2, <1>3 DEF OneKeyHeld
<1>7. \A k, l \in Keys : Accepted(k)' /\ Accepted(l)' => k = l
  BY <1>4 DEF OneKeyHeld
<1>8. \A k \in Keys : Accepted(k)' => Registered'
  BY <1>4 DEF OneKeyHeld
<1> QED
  BY <1>5, <1>6, <1>7, <1>8 DEF OneKeyHeld

(* Wraps that are on their way.                                             *)
LEMMA TasksQuiet ==
    ASSUME NEW t \in Tabs, \A x \in Tabs \ {t} : task'[x] = task[x],
           \/ task'[t].step \notin {"requested", "reply"}
           \/ task[t].step \in {"requested", "reply"} /\ task'[t].wrap = task[t].wrap
    PROVE  \A k : InTasks(k)' => InTasks(k)
BY DEF InTasks, WrapOf

LEMMA QueuesQuiet ==
    ASSUME \A x \in Tabs : \A y \in Range(down'[x]) : y \in Range(down[x]) \/ y.type # "join-status"
    PROVE  \A k : InQueues(k)' => InQueues(k)
BY DEF InQueues, WrapOf

-----------------------------------------------------------------------------
(* A step of t, or of the handler it is in, that leaves the keys alone.     *)

LEMMA StoredStays ==
    ASSUME NEW w \in Worlds, StoredIn(w), stored' = stored, Registered => Registered'
    PROVE  StoredIn(w)'
BY DEF StoredIn, PairIn

LEMMA QuietStep ==
    ASSUME Inv, NEW w \in Worlds, Sound(w), NEW t \in Tabs, Types', StoreAt(w)',
           UNCHANGED <<browserOf, keys, stored, contested, unconfirmed>>,
           Registered => Registered', LocalAt(w, t)', OthersKept(w, t),
           \A k \in Keys :
             Wrapping(k)' => Wrapping(k) \/ (page[t].claimed /\ k = keys[t].key),
           Trying(t)' <=> Trying(t), WillCreate(t)' => WillCreate(t)
    PROVE  Inv'
<1>1. Sound(w)'
  BY StoredStays DEF Sound, OthersKept
<1>2. StoredToo'
  BY DEF Inv, StoredToo
<1>3. ASSUME ~unconfirmed PROVE OneKeyHeld'
  <2>1. OneKeyHeld
    BY <1>3 DEF Inv
  <2>2. ASSUME NEW k \in Keys, page[t].claimed, k = keys[t].key PROVE Accepted(k)
    <3>1. ~Trying(t) /\ keys[t].key # None
      BY <2>2 DEF Sound, LocalAt, TriesAlone
    <3> QED
      BY <2>1, <2>2, <3>1, OwnKeyAccepted
  <2>3. \A k \in Keys : Wrapping(k)' => Wrapping(k) \/ Accepted(k)
    BY <2>2
  <2>4. \A x \in Tabs : Trying(x)' <=> Trying(x)
    BY DEF OthersKept
  <2>5. \A x \in Tabs : WillCreate(x)' => WillCreate(x)
    BY DEF OthersKept
  <2> QED
    BY <2>1, <2>3, <2>4, <2>5, OneKeyMoved
<1> QED
  BY <1>1, <1>2, <1>3 DEF Inv

-----------------------------------------------------------------------------
(* The handlers of the server.                                              *)

LEMMA HandleClaimStep ==
    ASSUME Inv, NEW t \in Tabs, HandleClaim(t)
    PROVE  Inv'
<1>0. PICK w \in Worlds : Sound(w)
  BY DEF Inv
<1>1. /\ Begins(t, "claim") /\ UNCHANGED storeVars
      /\ UNCHANGED <<linkVars, storeVars, browserVars, reqID, down>>
      /\ GoTo(t, [step |-> "claim", create |-> Head(up[t]).create,
                  inbox |-> Head(up[t]).inbox, had |-> InboxPub # None])
  BY DEF HandleClaim
<1>2. PICK m : m = Head(up[t])
  OBVIOUS
<1>3. /\ t \in online /\ task[t] = Idle /\ up[t] # <<>> /\ m \in Up /\ m.type = "claim"
      /\ up' \in [Tabs -> Seq(Up)] /\ up'[t] = Tail(up[t])
      /\ Range(up[t]) = {m} \cup Range(up'[t])
      /\ \A x \in Tabs \ {t} : up'[x] = up[x]
  BY <1>1, <1>2, Begun DEF Inv
<1>4. PICK a : a = [step |-> "claim", create |-> m.create, inbox |-> m.inbox,
                    had |-> InboxPub # None]
  OBVIOUS
<1>5. m.create \in BOOLEAN /\ m.inbox \in Tabs \cup {None}
  BY <1>3, UpTypes
<1>6. a \in TaskType /\ a.step = "claim" /\ a.create = m.create /\ a.inbox = m.inbox
  BY <1>4, <1>5, NewTasks
<1>7. /\ task' \in [Tabs -> TaskType] /\ task'[t] = a
      /\ \A x \in Tabs \ {t} : task'[x] = task[x]
  BY <1>1, <1>2, <1>4, <1>6, Went DEF Inv
<1>8. /\ StoreAt(w)' /\ (Registered' <=> Registered)
      /\ \A k : InStore(k)' <=> InStore(k)
  BY <1>0, <1>1, UnchangedStore DEF Sound
<1>9. Types'
  BY <1>1, <1>3, <1>7 DEF Inv, Types, linkVars, browserVars
<1>10. OthersKept(w, t)
  BY <1>0, <1>1, <1>3, <1>7, <1>8, OthersUntouched
     DEF Inv, Untouched, linkVars, browserVars
<1>11. \A k : Wrapping(k)' => Wrapping(k)
  BY <1>1, <1>6, <1>7, <1>8, TasksQuiet, QueuesQuiet DEF Wrapping
<1>12. LocalAt(w, t)
  BY <1>0 DEF Sound
<1>13. Idle.step = "idle"
  BY NewTasks
<1>14. Trying(t)' <=> Trying(t)
  BY <1>1, <1>3, <1>6, <1>7, <1>13 DEF Trying
<1>15. Trying(t) => TriesAlone(t)'
  <2> SUFFICES ASSUME Trying(t) PROVE TriesAlone(t)'
    OBVIOUS
  <2>1. TriesAlone(t)
    BY <1>12 DEF LocalAt
  <2>2. up[t] = <<ClaimMessage(TRUE, t)>> /\ NoResult(down[t])
    BY <1>3, <1>13, <2>1 DEF TriesAlone
  <2>3. up'[t] = <<>> /\ m = ClaimMessage(TRUE, t)
    BY <1>2, <1>3, <2>2
  <2>4. m.create = TRUE
    BY <2>3, NewUps
  <2> QED
    BY <1>1, <1>6, <1>7, <2>1, <2>2, <2>3, <2>4 DEF TriesAlone, browserVars
<1>16. LocalAt(w, t)'
  <2>1. InFlight(t)
    BY <1>3 DEF InFlight
  <2>2. ClaimIn(w, m.create, m.inbox)
    BY <1>3, <1>12 DEF LocalAt
  <2>3. TaskIn(w, task[t])'
    BY <1>6, <1>7, <1>8, <2>2 DEF TaskIn, ClaimIn
  <2>4. PairIn(w, keys[t])' /\ keys'[t].key # None
    BY <1>1, <1>8, <1>12, <2>1 DEF LocalAt, PairIn, browserVars
  <2>5. (\A n \in Range(up[t]) : n.type = "claim" => ClaimIn(w, n.create, n.inbox))'
    BY <1>3, <1>8, <1>12 DEF LocalAt, ClaimIn
  <2>6. (\A n \in Range(down[t]) : AnswerIn(w, n))'
    BY <1>1, <1>8, <1>12, FactsStay DEF LocalAt
  <2>7. OfflineAt(t)' /\ WelcomeFirst(down[t])'
    BY <1>1, <1>3, <1>12 DEF LocalAt, OfflineAt, linkVars
  <2> QED
    BY <1>14, <1>15, <2>3, <2>4, <2>5, <2>6, <2>7 DEF LocalAt
<1>17. WillCreate(t)' => WillCreate(t)
  BY <1>1 DEF WillCreate
<1> QED
  BY <1>0, <1>1, <1>8, <1>9, <1>10, <1>11, <1>14, <1>16, <1>17, QuietStep
     DEF linkVars, browserVars

LEMMA FinishClaimStep ==
    ASSUME Inv, NEW t \in Tabs, FinishClaim(t)
    PROVE  Inv'
<1>0. PICK w \in Worlds : Sound(w)
  BY DEF Inv
<1>1. task[t].step = "claim" /\ UNCHANGED <<linkVars, browserVars, reqID, up>>
  BY DEF FinishClaim
<1>2. PICK a \in TaskType : a = task[t]
  BY DEF Inv, Types
<1>3. /\ a.step = "claim" /\ a # Idle /\ a.create \in BOOLEAN /\ a.inbox \in Tabs \cup {None}
  BY <1>1, <1>2, TaskTypes
<1>4. LocalAt(w, t) /\ StoreAt(w)
  BY <1>0 DEF Sound
<1>5. t \in online /\ ClaimIn(w, a.create, a.inbox) /\ InFlight(t) /\ keys[t].key # None
  BY <1>1, <1>2, <1>3, <1>4 DEF LocalAt, OfflineAt, TaskIn, InFlight
<1>6. Trying(t) => /\ TriesAlone(t) /\ up[t] = <<>> /\ a.create /\ NoResult(down[t])
  BY <1>2, <1>3, <1>4 DEF LocalAt, TriesAlone
<1>7. a.create => Trying(t)
  BY <1>2, <1>3 DEF Trying
<1>8. Types /\ Idle \in TaskType /\ Idle.step = "idle" /\ [step |-> "broadcast"] \in TaskType
  BY NewTasks DEF Inv
(* What both outcomes have in common.                                       *)
<1>9. ASSUME NEW m \in Down, m.type = "claim-result", AnswerIn(w, m)', SendTo({t}, m),
             NEW b \in TaskType, b.step \in {"idle", "broadcast"}, GoTo(t, b),
             m.ok \/ (a.create /\ b = Idle),
             StoreAt(w)', Registered => Registered', \A k : InStore(k)' => InStore(k)
      PROVE  /\ Types' /\ Sound(w)' /\ StoredToo' /\ OthersKept(w, t)
             /\ \A k : Wrapping(k)' => Wrapping(k)
             /\ Trying(t)' <=> ~m.ok
             /\ WillCreate(t)' => WillCreate(t)
  <2>1. /\ down' \in [Tabs -> Seq(Down)]
        /\ down'[t] = Append(down[t], m)
        /\ Range(down'[t]) = Range(down[t]) \cup {m}
        /\ \A x \in Tabs \ {t} : down'[x] = down[x]
    BY <1>8, <1>9, SentOne
  <2>2. /\ task' \in [Tabs -> TaskType] /\ task'[t] = b
        /\ \A x \in Tabs \ {t} : task'[x] = task[x]
    BY <1>8, <1>9, Went
  <2>3. down[t] \in Seq(Down) /\ WelcomeFirst(down[t])
    BY <1>4, <1>8 DEF Types, LocalAt
  <2>4. /\ WelcomeFirst(down'[t])
        /\ Welcomed(down'[t]) => Welcomed(down[t]) /\ Head(down'[t]) = Head(down[t])
        /\ ~m.ok /\ NoResult(down[t]) => OneRefusal(down'[t])
    BY <1>9, <2>1, <2>3, MessageAdded
  <2>5. Types'
    BY <1>1, <1>8, <2>1, <2>2 DEF Types, linkVars, browserVars
  <2>6. OthersKept(w, t)
    BY <1>0, <1>1, <1>8, <1>9, <2>1, <2>2, OthersUntouched DEF Untouched, linkVars, browserVars
  <2>7. \A k : Wrapping(k)' => Wrapping(k)
    BY <1>9, <2>1, <2>2, TasksQuiet, QueuesQuiet DEF Wrapping
  <2>8. WillCreate(t)' => WillCreate(t)
    BY <2>4 DEF WillCreate
  <2>9. m.ok \in BOOLEAN
    BY <1>9, DownTypes
  <2>10. Trying(t)' <=> ~m.ok
    <3>1. ~m.ok => Trying(t)'
      BY <1>9, <2>1 DEF Trying
    <3>2. ASSUME m.ok PROVE ~Trying(t)'
      <4>1. CASE Trying(t)
        <5>1. up'[t] = <<>>
          BY <1>1, <1>6, <4>1
        <5> QED
          BY <1>6, <1>9, <2>1, <2>2, <3>2, <4>1, <5>1, EmptyQueue DEF Trying, NoResult
      <4>2. CASE ~Trying(t)
        BY <1>1, <1>9, <2>1, <2>2, <3>2, <4>2 DEF Trying
      <4> QED
        BY <4>1, <4>2
    <3> QED
      BY <3>1, <3>2
  <2>11. ~m.ok => TriesAlone(t)'
    BY <1>1, <1>6, <1>7, <1>9, <2>2, <2>4 DEF TriesAlone, browserVars
  <2>12. LocalAt(w, t)'
    <3>1. TaskIn(w, task[t])'
      BY <1>9, <2>2 DEF TaskIn
    <3>2. PairIn(w, keys[t])' /\ keys'[t].key # None
      BY <1>1, <1>4, <1>5, <1>9 DEF LocalAt, PairIn, browserVars
    <3>3. (\A n \in Range(up[t]) : n.type = "claim" => ClaimIn(w, n.create, n.inbox))'
      BY <1>1, <1>4, <1>9 DEF LocalAt, ClaimIn
    <3>4. (\A n \in Range(down[t]) : AnswerIn(w, n))'
      BY <1>4, <1>9, <2>1, FactsStay DEF LocalAt
    <3>5. OfflineAt(t)'
      BY <1>1, <1>5 DEF OfflineAt, linkVars
    <3> QED
      BY <2>4, <2>10, <2>11, <3>1, <3>2, <3>3, <3>4, <3>5 DEF LocalAt
  <2>13. StoredIn(w)'
    BY <1>0, <1>1, <1>9, StoredStays DEF Sound, browserVars
  <2>14. Sound(w)'
    BY <1>9, <2>6, <2>12, <2>13 DEF Sound, OthersKept
  <2>15. StoredToo'
    BY <1>1 DEF Inv, StoredToo, browserVars, linkVars
  <2> QED
    BY <2>5, <2>6, <2>7, <2>8, <2>10, <2>14, <2>15
<1>10. CASE Store!ClaimOK(Room, a.create)
  <2>1. Store!Claim(Room, a.create, a.inbox)
    BY <1>2, <1>10 DEF FinishClaim
  <2>2. /\ StoreAt(w)' /\ Registered' /\ InboxPub' \in Tabs \cup {None}
        /\ \A k : InStore(k)' => InStore(k)
        /\ a.create => ~Registered
    BY <1>3, <1>4, <1>5, <2>1, ClaimedInStore
  <2>3. PICK m : m = [type |-> "claim-result", ok |-> TRUE, inbox |-> InboxPub']
    OBVIOUS
  <2>4. m \in Down /\ m.type = "claim-result" /\ m.ok = TRUE /\ m.inbox = InboxPub'
    BY <2>2, <2>3, NewDowns
  <2>5. PICK b : b = AfterClaim(t)
    OBVIOUS
  <2>6. b \in TaskType /\ b.step \in {"idle", "broadcast"}
    BY <1>8, <2>5 DEF AfterClaim
  <2>7. SendTo({t}, m) /\ GoTo(t, b)
    BY <1>2, <1>10, <2>3, <2>5 DEF FinishClaim
  <2>8. AnswerIn(w, m)'
    BY <2>2, <2>4 DEF AnswerIn, StoreAt
  <2>9. /\ Types' /\ Sound(w)' /\ StoredToo' /\ OthersKept(w, t)
        /\ \A k : Wrapping(k)' => Wrapping(k)
        /\ ~Trying(t)'
        /\ WillCreate(t)' => WillCreate(t)
    BY <1>9, <2>2, <2>4, <2>6, <2>7, <2>8
  <2>10. \A x \in Tabs \ {t} : (Trying(x)' <=> Trying(x)) /\ (WillCreate(x)' => WillCreate(x))
    BY <2>9 DEF OthersKept
  <2>11. browserOf' = browserOf /\ keys' = keys /\ stored' = stored /\ unconfirmed' = unconfirmed
    BY <1>1 DEF linkVars, browserVars
  <2>12. \A k : HeldKey(k)' => HeldKey(k)
    BY <2>9, <2>11 DEF HeldKey
  <2>13. ASSUME ~unconfirmed PROVE OneKeyHeld'
    <3>1. OneKeyHeld
      BY <2>13 DEF Inv
    <3>2. CASE ~Trying(t)
      <4>1. \A x \in Tabs : (Trying(x)' <=> Trying(x)) /\ (WillCreate(x)' => WillCreate(x))
        BY <2>9, <2>10, <3>2
      <4> QED
        BY <2>2, <2>9, <2>11, <3>1, <4>1, OneKeyMoved
    <3>3. CASE Trying(t)
      <4>1. ~Registered
        BY <1>6, <2>2, <3>3
      <4>2. \A k \in Keys : ~Accepted(k)
        BY <3>1, <4>1 DEF OneKeyHeld
      <4>3. \A k \in Keys : Accepted(k)' => k = t
        BY <2>10, <2>12, <4>2 DEF Accepted
      <4>4. \A x \in Tabs : Trying(x)' => Trying(x)
        BY <2>9, <2>10
      <4>5. \A x \in Tabs : Trying(x)' => KeptBack(x)'
        BY <2>9, <2>11, <3>1, <4>4 DEF OneKeyHeld, KeptBack
      <4>6. \A x \in Tabs : WillCreate(x)' => ~HeldKey(x)'
        BY <2>9, <2>10, <2>12, <3>1 DEF OneKeyHeld
      <4> QED
        BY <2>2, <4>3, <4>5, <4>6 DEF OneKeyHeld
    <3> QED
      BY <3>2, <3>3
  <2> QED
    BY <2>9, <2>11, <2>13 DEF Inv
<1>11. CASE ~Store!ClaimOK(Room, a.create)
  <2>1. a.create /\ Registered
    BY <1>3, <1>11 DEF Store!ClaimOK, Registered
  <2>2. PICK m : m = [type |-> "claim-result", ok |-> FALSE, inbox |-> None]
    OBVIOUS
  <2>3. m \in Down /\ m.type = "claim-result" /\ m.ok = FALSE
    BY <2>2, NewDowns
  <2>4. SendTo({t}, m) /\ GoTo(t, Idle) /\ UNCHANGED storeVars
    BY <1>2, <1>11, <2>2 DEF FinishClaim
  <2>5. /\ StoreAt(w)' /\ (Registered' <=> Registered)
        /\ \A k : InStore(k)' <=> InStore(k)
    BY <1>4, <2>4, UnchangedStore
  <2>6. w # "old"
    BY <1>5, <2>1 DEF ClaimIn
  <2>7. AnswerIn(w, m)'
    BY <2>3, <2>6 DEF AnswerIn
  <2>8. /\ Types' /\ Sound(w)' /\ StoredToo' /\ OthersKept(w, t)
        /\ \A k : Wrapping(k)' => Wrapping(k)
        /\ Trying(t)'
        /\ WillCreate(t)' => WillCreate(t)
    BY <1>8, <1>9, <2>1, <2>3, <2>4, <2>5, <2>7
  <2>9. \A x \in Tabs : (Trying(x)' <=> Trying(x)) /\ (WillCreate(x)' => WillCreate(x))
    BY <1>7, <2>1, <2>8 DEF OthersKept
  <2>10. browserOf' = browserOf /\ keys' = keys /\ stored' = stored /\ unconfirmed' = unconfirmed
    BY <1>1 DEF linkVars, browserVars
  <2>11. ~unconfirmed => OneKeyHeld'
    BY <2>5, <2>8, <2>9, <2>10, OneKeyMoved DEF Inv
  <2> QED
    BY <2>8, <2>10, <2>11 DEF Inv
<1> QED
  BY <1>10, <1>11

LEMMA HandleRequestStep ==
    ASSUME Inv, NEW t \in Tabs, HandleRequest(t)
    PROVE  Inv'
<1>0. PICK w \in Worlds : Sound(w)
  BY DEF Inv
<1>1. PICK b : b = browserOf[t]
  OBVIOUS
<1>2. /\ Begins(t, "join-request") /\ Store!Submit(Room, b)
      /\ reqID' = [reqID EXCEPT ![t] = b]
      /\ UNCHANGED <<linkVars, browserVars, down>>
  BY <1>1 DEF HandleRequest
<1>3. LocalAt(w, t) /\ StoreAt(w) /\ Types /\ b \in Browsers
  BY <1>0, <1>1 DEF Sound, Inv, Types
<1>4. /\ StoreAt(w)' /\ Registered /\ Registered'
      /\ Req(b)' \in Store!Request
      /\ WrapIn(w, Req(b)'.status, Req(b)'.wrap)
      /\ Req(b)'.wrap # None => Req(b) # None /\ Req(b)'.wrap = Req(b).wrap
      /\ \A o \in Browsers \ {b} : Req(o)' = Req(o)
  BY <1>2, <1>3, Submitted
<1>5. PICK q : q = Req(b)'
  OBVIOUS
<1>6. q.status \in Store!Status /\ q.wrap \in KeyPair \cup {None}
  BY <1>4, <1>5, RequestFields
<1>7. PICK a : a = [step |-> "requested", status |-> q.status, wrap |-> q.wrap, inbox |-> None]
  OBVIOUS
<1>8. a \in TaskType /\ a.step = "requested" /\ a.status = q.status /\ a.wrap = q.wrap
  BY <1>6, <1>7, NewTasks
<1>9. GoTo(t, a)
  BY <1>1, <1>5, <1>7 DEF HandleRequest, Req
<1>10. /\ task' \in [Tabs -> TaskType] /\ task'[t] = a
       /\ \A x \in Tabs \ {t} : task'[x] = task[x]
  BY <1>3, <1>8, <1>9, Went
<1>11. /\ t \in online /\ task[t] = Idle /\ up[t] # <<>> /\ Head(up[t]).type = "join-request"
       /\ up' \in [Tabs -> Seq(Up)] /\ up'[t] = Tail(up[t])
       /\ Range(up[t]) = {Head(up[t])} \cup Range(up'[t])
       /\ \A x \in Tabs \ {t} : up'[x] = up[x]
  BY <1>2, <1>3, Begun
<1>12. Types'
  BY <1>1, <1>2, <1>3, <1>10, <1>11 DEF Types, linkVars, browserVars
<1>13. OthersKept(w, t)
  BY <1>0, <1>2, <1>3, <1>4, <1>10, <1>11, OthersUntouched
     DEF Types, Untouched, linkVars, browserVars
<1>14. \A k : Wrapping(k)' => Wrapping(k)
  <2>1. \A k : InStore(k)' => InStore(k)
    BY <1>3, <1>4 DEF InStore, WrapOf
  <2>2. \A k : WrapOf(k, q.wrap) => InStore(k)
    BY <1>3, <1>4, <1>5 DEF InStore, WrapOf
  <2>3. \A k : InTasks(k)' => InTasks(k) \/ WrapOf(k, q.wrap)
    BY <1>8, <1>10 DEF InTasks, WrapOf
  <2>4. \A k : InQueues(k)' => InQueues(k)
    BY <1>2, QueuesQuiet
  <2> QED
    BY <2>1, <2>2, <2>3, <2>4 DEF Wrapping
<1>15. Idle.step = "idle"
  BY NewTasks
<1>16. ~Trying(t)
  <2>1. ~TriesAlone(t)
    <3> SUFFICES ASSUME TriesAlone(t) PROVE FALSE
      OBVIOUS
    <3>1. up[t] = <<ClaimMessage(TRUE, t)>>
      BY <1>11, <1>15 DEF TriesAlone
    <3>2. Head(up[t]) = ClaimMessage(TRUE, t)
      BY <3>1
    <3>3. ClaimMessage(TRUE, t).type = "claim"
      BY NewUps
    <3> QED
      BY <1>11, <3>2, <3>3
  <2> QED
    BY <1>3, <2>1 DEF LocalAt
<1>17. ~Trying(t)' /\ (InFlight(t)' => InFlight(t))
  BY <1>2, <1>8, <1>10, <1>11, <1>16 DEF Trying, InFlight
<1>18. LocalAt(w, t)'
  <2>1. TaskIn(w, task[t])'
    BY <1>4, <1>5, <1>8, <1>10 DEF TaskIn, WrapIn, PairIn
  <2>2. PairIn(w, keys[t])' /\ (page[t].claimed \/ InFlight(t) => keys[t].key # None)'
    BY <1>2, <1>3, <1>4, <1>17 DEF LocalAt, PairIn, browserVars
  <2>3. (\A n \in Range(up[t]) : n.type = "claim" => ClaimIn(w, n.create, n.inbox))'
    BY <1>3, <1>4, <1>11 DEF LocalAt, ClaimIn
  <2>4. (\A n \in Range(down[t]) : AnswerIn(w, n))'
    BY <1>2, <1>3, <1>4, FactsStay DEF LocalAt
  <2>5. OfflineAt(t)' /\ WelcomeFirst(down[t])'
    BY <1>2, <1>3, <1>11 DEF LocalAt, OfflineAt, linkVars
  <2>6. (Welcomed(down[t]) /\ keys[t].key = None => up[t] = <<>> /\ task[t] = Idle)'
    BY <1>2, <1>3, <1>11 DEF LocalAt, browserVars
  <2> QED
    BY <1>17, <2>1, <2>2, <2>3, <2>4, <2>5, <2>6 DEF LocalAt
<1>19. WillCreate(t)' => WillCreate(t)
  BY <1>2 DEF WillCreate
<1> QED
  BY <1>0, <1>2, <1>4, <1>12, <1>13, <1>14, <1>16, <1>17, <1>18, <1>19, QuietStep
     DEF linkVars, browserVars

(* A page in the handler of its request has no claim on its way.            *)
LEMMA NotTrying ==
    ASSUME NEW w \in Worlds, NEW t \in Tabs, LocalAt(w, t),
           task[t].step \notin {"idle", "claim"} \/ page[t].claimed
    PROVE  ~Trying(t)
BY NewTasks DEF LocalAt, TriesAlone

LEMMA ReadInboxStep ==
    ASSUME Inv, NEW t \in Tabs, ReadInbox(t)
    PROVE  Inv'
<1>0. PICK w \in Worlds : Sound(w)
  BY DEF Inv
<1>1. /\ task[t].step = "requested" /\ UNCHANGED storeVars
      /\ UNCHANGED <<linkVars, browserVars, reqID, up, down>>
  BY DEF ReadInbox
<1>2. LocalAt(w, t) /\ StoreAt(w) /\ Types
  BY <1>0 DEF Sound, Inv
<1>3. PICK a \in TaskType : a = task[t]
  BY <1>2 DEF Types
<1>4. PICK i : i = InboxPub
  OBVIOUS
<1>5. i \in Tabs \cup {None}
  BY <1>2, <1>4, InboxTyped
<1>6. PICK n : n = [a EXCEPT !.step = "reply", !.inbox = i]
  OBVIOUS
<1>7. n \in TaskType /\ n.step = "reply" /\ n.status = a.status /\ n.wrap = a.wrap
  <2> DEFINE S == [step : {"requested", "reply"}, status : Store!Status,
                   wrap : KeyPair \cup {None}, inbox : Tabs \cup {None}]
  <2>1. a \in S
    BY <1>1, <1>3 DEF TaskType, Idle
  <2>2. n \in S /\ n.step = "reply" /\ n.status = a.status /\ n.wrap = a.wrap
    BY <1>5, <1>6, <2>1
  <2> QED
    BY <2>2 DEF TaskType
<1>8. GoTo(t, n)
  BY <1>3, <1>4, <1>6 DEF ReadInbox
<1>9. /\ task' \in [Tabs -> TaskType] /\ task'[t] = n
      /\ \A x \in Tabs \ {t} : task'[x] = task[x]
  BY <1>2, <1>7, <1>8, Went
<1>10. /\ StoreAt(w)' /\ (Registered' <=> Registered)
      /\ \A k : InStore(k)' <=> InStore(k)
  BY <1>1, <1>2, UnchangedStore
<1>11. Types'
  BY <1>1, <1>2, <1>9 DEF Types, linkVars, browserVars
<1>12. OthersKept(w, t)
  BY <1>0, <1>1, <1>2, <1>9, <1>10, OthersUntouched DEF Untouched, linkVars, browserVars
<1>13. \A k : Wrapping(k)' => Wrapping(k)
  BY <1>1, <1>3, <1>7, <1>9, <1>10, TasksQuiet, QueuesQuiet DEF Wrapping
<1>14. ~Trying(t)
  BY <1>1, <1>2, NotTrying
<1>15. ~Trying(t)' /\ (InFlight(t)' => InFlight(t))
  BY <1>1, <1>7, <1>9, <1>14 DEF Trying, InFlight
<1>16. t \in online
  BY <1>1, <1>2, NewTasks DEF LocalAt, OfflineAt
<1>17. LocalAt(w, t)'
  <2>1. TaskIn(w, task[t])'
    BY <1>1, <1>2, <1>3, <1>7, <1>9, <1>10 DEF LocalAt, TaskIn, WrapIn, PairIn
  <2>2. PairIn(w, keys[t])' /\ (page[t].claimed \/ InFlight(t) => keys[t].key # None)'
    BY <1>1, <1>2, <1>10, <1>15 DEF LocalAt, PairIn, browserVars
  <2>3. (\A m \in Range(up[t]) : m.type = "claim" => ClaimIn(w, m.create, m.inbox))'
    BY <1>1, <1>2, <1>10 DEF LocalAt, ClaimIn
  <2>4. (\A m \in Range(down[t]) : AnswerIn(w, m))'
    BY <1>1, <1>2, <1>10, FactsStay DEF LocalAt
  <2>5. OfflineAt(t)' /\ WelcomeFirst(down[t])'
    BY <1>1, <1>2, <1>16 DEF LocalAt, OfflineAt, linkVars
  <2>6. ~(Welcomed(down[t]) /\ keys[t].key = None)'
    BY <1>1, <1>2, NewTasks DEF LocalAt, browserVars
  <2> QED
    BY <1>15, <2>1, <2>2, <2>3, <2>4, <2>5, <2>6 DEF LocalAt
<1>18. WillCreate(t)' => WillCreate(t)
  BY <1>1 DEF WillCreate
<1> QED
  BY <1>0, <1>1, <1>10, <1>11, <1>12, <1>13, <1>14, <1>15, <1>17, <1>18, QuietStep
     DEF linkVars, browserVars

LEMMA ReplyStep ==
    ASSUME Inv, NEW t \in Tabs, Reply(t)
    PROVE  Inv'
<1>0. PICK w \in Worlds : Sound(w)
  BY DEF Inv
<1>1. /\ task[t].step = "reply" /\ UNCHANGED storeVars
      /\ UNCHANGED <<linkVars, browserVars, reqID, up>>
  BY DEF Reply
<1>2. LocalAt(w, t) /\ StoreAt(w) /\ Types
  BY <1>0 DEF Sound, Inv
<1>3. PICK a \in TaskType : a = task[t]
  BY <1>2 DEF Types
<1>4. /\ a.status \in Store!Status /\ a.wrap \in KeyPair \cup {None}
      /\ a.inbox \in Tabs \cup {None}
  BY <1>1, <1>3, TaskTypes
<1>5. PICK m : m = [type |-> "join-status", status |-> a.status, wrap |-> a.wrap,
                    inbox |-> a.inbox]
  OBVIOUS
<1>6. m \in Down /\ m.type = "join-status" /\ m.status = a.status /\ m.wrap = a.wrap
  BY <1>4, <1>5, NewDowns
<1>7. PICK n : n = AfterReply(a.status)
  OBVIOUS
<1>8. n \in TaskType /\ n.step \in {"idle", "broadcast"}
  BY <1>7, NewTasks DEF AfterReply
<1>9. SendTo({t}, m) /\ GoTo(t, n)
  BY <1>3, <1>5, <1>7 DEF Reply
<1>10. /\ task' \in [Tabs -> TaskType] /\ task'[t] = n
       /\ \A x \in Tabs \ {t} : task'[x] = task[x]
  BY <1>2, <1>8, <1>9, Went
<1>11. /\ down' \in [Tabs -> Seq(Down)]
       /\ down'[t] = Append(down[t], m)
       /\ Range(down'[t]) = Range(down[t]) \cup {m}
       /\ \A x \in Tabs \ {t} : down'[x] = down[x]
  BY <1>2, <1>6, <1>9, SentOne
<1>12. /\ StoreAt(w)' /\ (Registered' <=> Registered)
       /\ \A k : InStore(k)' <=> InStore(k)
  BY <1>1, <1>2, UnchangedStore
<1>13. Types'
  BY <1>1, <1>2, <1>10, <1>11 DEF Types, linkVars, browserVars
<1>14. OthersKept(w, t)
  BY <1>0, <1>1, <1>2, <1>10, <1>11, <1>12, OthersUntouched
     DEF Untouched, linkVars, browserVars
<1>15. \A k : Wrapping(k)' => Wrapping(k)
  <2>1. \A k : InTasks(k)' => InTasks(k)
    BY <1>8, <1>10, TasksQuiet
  <2>2. \A k : WrapOf(k, m.wrap) => InTasks(k)
    BY <1>1, <1>3, <1>6 DEF InTasks
  <2>3. \A k : InQueues(k)' => InQueues(k) \/ WrapOf(k, m.wrap)
    BY <1>11 DEF InQueues, WrapOf
  <2> QED
    BY <1>12, <2>1, <2>2, <2>3 DEF Wrapping
<1>16. ~Trying(t)
  BY <1>1, <1>2, NotTrying
<1>17. /\ WelcomeFirst(down'[t])
       /\ Welcomed(down'[t]) => Welcomed(down[t]) /\ Head(down'[t]) = Head(down[t])
       /\ NoResult(down'[t]) <=> NoResult(down[t])
  <2>1. down[t] \in Seq(Down) /\ WelcomeFirst(down[t])
    BY <1>2 DEF Types, LocalAt
  <2> QED
    BY <1>6, <1>11, <2>1, MessageAdded
<1>18. ~Trying(t)' /\ (InFlight(t)' => InFlight(t))
  BY <1>1, <1>6, <1>8, <1>10, <1>11, <1>16, <1>17 DEF Trying, InFlight
<1>19. t \in online
  BY <1>1, <1>2, NewTasks DEF LocalAt, OfflineAt
<1>20. LocalAt(w, t)'
  <2>1. TaskIn(w, task[t])'
    BY <1>8, <1>10 DEF TaskIn
  <2>2. PairIn(w, keys[t])' /\ (page[t].claimed \/ InFlight(t) => keys[t].key # None)'
    BY <1>1, <1>2, <1>12, <1>18 DEF LocalAt, PairIn, browserVars
  <2>3. (\A y \in Range(up[t]) : y.type = "claim" => ClaimIn(w, y.create, y.inbox))'
    BY <1>1, <1>2, <1>12 DEF LocalAt, ClaimIn
  <2>4. WrapIn(w, m.status, m.wrap)
    BY <1>1, <1>2, <1>3, <1>6 DEF LocalAt, TaskIn
  <2>5. AnswerIn(w, m)'
    BY <1>6, <1>12, <2>4 DEF AnswerIn, WrapIn, PairIn
  <2>6. (\A y \in Range(down[t]) : AnswerIn(w, y))'
    BY <1>2, <1>11, <1>12, <2>5, FactsStay DEF LocalAt
  <2>7. OfflineAt(t)'
    BY <1>1, <1>19 DEF OfflineAt, linkVars
  <2>8. ~(Welcomed(down[t]) /\ keys[t].key = None)'
    BY <1>1, <1>2, <1>17, NewTasks DEF LocalAt, browserVars
  <2> QED
    BY <1>17, <1>18, <2>1, <2>2, <2>3, <2>6, <2>7, <2>8 DEF LocalAt
<1>21. WillCreate(t)' => WillCreate(t)
  BY <1>17 DEF WillCreate
<1> QED
  BY <1>0, <1>1, <1>12, <1>13, <1>14, <1>15, <1>16, <1>18, <1>20, <1>21, QuietStep
     DEF linkVars, browserVars

LEMMA BroadcastStep ==
    ASSUME Inv, NEW t \in Tabs, Broadcast(t)
    PROVE  Inv'
<1>0. PICK w \in Worlds : Sound(w)
  BY DEF Inv
<1>1. /\ task[t].step = "broadcast" /\ GoTo(t, Idle) /\ UNCHANGED storeVars
      /\ UNCHANGED <<linkVars, browserVars, reqID, up>>
  BY DEF Broadcast
<1>2. LocalAt(w, t) /\ StoreAt(w) /\ Types
  BY <1>0 DEF Sound, Inv
<1>3. PICK m : m = [type |-> "join-requests", inbox |-> InboxPub]
  OBVIOUS
<1>4. m \in Down /\ m.type = "join-requests"
  BY <1>2, <1>3, InboxTyped, NewDowns
<1>5. PICK ts : ts = online
  OBVIOUS
<1>6. SendTo(ts, m)
  BY <1>3, <1>5 DEF Broadcast
<1>7. /\ task' \in [Tabs -> TaskType] /\ task'[t] = Idle
      /\ \A x \in Tabs \ {t} : task'[x] = task[x]
  BY <1>1, <1>2, NewTasks, Went
<1>8. t \in online
  BY <1>1, <1>2, NewTasks DEF LocalAt, OfflineAt
<1>9. /\ down' \in [Tabs -> Seq(Down)]
      /\ \A x \in Tabs : x \in ts =>
           /\ down'[x] = Append(down[x], m)
           /\ Range(down'[x]) = Range(down[x]) \cup {m}
      /\ \A x \in Tabs : x \notin ts => down'[x] = down[x]
  BY <1>2, <1>4, <1>6, Sent
<1>10. down'[t] = Append(down[t], m) /\ Range(down'[t]) = Range(down[t]) \cup {m}
  BY <1>5, <1>8, <1>9
<1>11. /\ StoreAt(w)' /\ (Registered' <=> Registered)
       /\ \A k : InStore(k)' <=> InStore(k)
  BY <1>1, <1>2, UnchangedStore
<1>12. Types'
  BY <1>1, <1>2, <1>7, <1>9 DEF Types, linkVars, browserVars
<1>13. AnswerIn(w, m)'
  BY <1>4 DEF AnswerIn
<1>14. \A x \in Tabs \ {t} : Untouched(x)
  BY <1>1, <1>7 DEF Untouched, linkVars, browserVars
<1>15. OthersKept(w, t)
  BY <1>0, <1>2, <1>4, <1>5, <1>6, <1>11, <1>13, <1>14, OthersTold
<1>16. \A k : Wrapping(k)' => Wrapping(k)
  <2>1. \A x \in Tabs : \A y \in Range(down'[x]) : y \in Range(down[x]) \/ y.type # "join-status"
    BY <1>4, <1>9
  <2>2. \A k : InTasks(k)' => InTasks(k)
    BY <1>7, NewTasks, TasksQuiet
  <2>3. \A k : InQueues(k)' => InQueues(k)
    BY <2>1, QueuesQuiet
  <2> QED
    BY <1>11, <2>2, <2>3 DEF Wrapping
<1>17. ~Trying(t)
  BY <1>1, <1>2, NotTrying
<1>18. /\ WelcomeFirst(down'[t])
       /\ Welcomed(down'[t]) => Welcomed(down[t]) /\ Head(down'[t]) = Head(down[t])
       /\ NoResult(down'[t]) <=> NoResult(down[t])
  <2>1. down[t] \in Seq(Down) /\ WelcomeFirst(down[t])
    BY <1>2 DEF Types, LocalAt
  <2> QED
    BY <1>4, <1>10, <2>1, MessageAdded
<1>19. ~Trying(t)' /\ (InFlight(t)' => InFlight(t))
  BY <1>1, <1>4, <1>7, <1>10, <1>17, <1>18, NewTasks DEF Trying, InFlight
<1>20. LocalAt(w, t)'
  <2>1. TaskIn(w, task[t])'
    BY <1>7, NewTasks DEF TaskIn
  <2>2. PairIn(w, keys[t])' /\ (page[t].claimed \/ InFlight(t) => keys[t].key # None)'
    BY <1>1, <1>2, <1>11, <1>19 DEF LocalAt, PairIn, browserVars
  <2>3. (\A y \in Range(up[t]) : y.type = "claim" => ClaimIn(w, y.create, y.inbox))'
    BY <1>1, <1>2, <1>11 DEF LocalAt, ClaimIn
  <2>4. (\A y \in Range(down[t]) : AnswerIn(w, y))'
    BY <1>2, <1>10, <1>11, <1>13, FactsStay DEF LocalAt
  <2>5. OfflineAt(t)'
    BY <1>1, <1>8 DEF OfflineAt, linkVars
  <2>6. ~(Welcomed(down[t]) /\ keys[t].key = None)'
    BY <1>1, <1>2, <1>18, NewTasks DEF LocalAt, browserVars
  <2> QED
    BY <1>18, <1>19, <2>1, <2>2, <2>3, <2>4, <2>5, <2>6 DEF LocalAt
<1>21. WillCreate(t)' => WillCreate(t)
  BY <1>18 DEF WillCreate
<1> QED
  BY <1>0, <1>1, <1>11, <1>12, <1>15, <1>16, <1>17, <1>19, <1>20, <1>21, QuietStep
     DEF linkVars, browserVars

LEMMA ApproveStep ==
    ASSUME Inv, NEW t \in Tabs, NEW b \in Browsers, Approve(t, b)
    PROVE  Inv'
<1>0. PICK w \in Worlds : Sound(w)
  BY DEF Inv
<1>1. PICK p : p = Wrapped(t)
  OBVIOUS
<1>2. /\ t \in online /\ page[t].claimed /\ keys[t].key # None
      /\ reqID[t] = None /\ task[t] = Idle /\ up[t] = <<>>
      /\ b \in Store!Pending(Room)
      /\ Store!Approve(Room, b, p)
      /\ GoTo(t, [step |-> "broadcast"])
      /\ UNCHANGED <<linkVars, browserVars, reqID, up>>
  BY <1>1 DEF Approve
<1>3. LocalAt(w, t) /\ StoreAt(w) /\ Types
  BY <1>0 DEF Sound, Inv
<1>4. Registered
  BY <1>2 DEF Store!Approve, Store!DecideOK, Store!IsPending, Store!HasRequest, Registered
<1>5. keys[t] \in KeyPair
  BY <1>3 DEF Types
<1>6. /\ p \in KeyPair /\ p.key = keys[t].key /\ p.inbox \in {None, keys[t].inbox}
  <2>1. keys[t].key \in Keys \cup {None} /\ keys[t].inbox \in Tabs \cup {None}
    BY <1>5, PairTypes
  <2> QED
    BY <1>1, <2>1 DEF Wrapped, KeyPair
<1>7. PairIn(w, p)
  BY <1>3, <1>4, <1>6 DEF LocalAt, PairIn
<1>8. WrapIn(w, "approved", p)
  BY <1>2, <1>6, <1>7, NoneAssumption DEF WrapIn
<1>9. /\ StoreAt(w)' /\ Registered'
      /\ Req(b)' # None /\ Req(b)'.wrap = p
      /\ \A o \in Browsers \ {b} : Req(o)' = Req(o)
  BY <1>2, <1>3, <1>6, <1>8, ApprovedInStore
<1>10. PICK m : m = [type |-> "join-status", status |-> "approved", wrap |-> p, inbox |-> None]
  OBVIOUS
<1>11. m \in Down /\ m.type = "join-status" /\ m.status = "approved" /\ m.wrap = p
  BY <1>6, <1>10, NewDowns DEF Store!Status
<1>12. PICK ts : ts = {x \in online : reqID[x] = b}
  OBVIOUS
<1>13. SendTo(ts, m) /\ ts \subseteq online /\ t \notin ts
  <2>1. b # None
    BY NamesAssumption
  <2> QED
    BY <1>1, <1>2, <1>10, <1>12, <2>1 DEF Approve
<1>14. PICK a : a = [step |-> "broadcast"]
  OBVIOUS
<1>15. a \in TaskType /\ a.step = "broadcast"
  BY <1>14, NewTasks
<1>16. /\ task' \in [Tabs -> TaskType] /\ task'[t] = a
       /\ \A x \in Tabs \ {t} : task'[x] = task[x]
  BY <1>2, <1>3, <1>14, <1>15, Went
<1>17. /\ down' \in [Tabs -> Seq(Down)]
       /\ \A x \in Tabs : x \in ts =>
            /\ down'[x] = Append(down[x], m)
            /\ Range(down'[x]) = Range(down[x]) \cup {m}
       /\ \A x \in Tabs : x \notin ts => down'[x] = down[x]
  BY <1>3, <1>11, <1>13, Sent
<1>18. down'[t] = down[t]
  BY <1>13, <1>17
<1>19. Types'
  BY <1>2, <1>3, <1>16, <1>17 DEF Types, linkVars, browserVars
<1>20. AnswerIn(w, m)'
  BY <1>4, <1>8, <1>9, <1>11 DEF AnswerIn, WrapIn, PairIn
<1>21. \A x \in Tabs \ {t} : Untouched(x)
  BY <1>2, <1>16 DEF Untouched, linkVars, browserVars
<1>22. OthersKept(w, t)
  BY <1>0, <1>3, <1>9, <1>11, <1>13, <1>20, <1>21, OthersTold
<1>23. \A k : Wrapping(k)' => Wrapping(k) \/ k = keys[t].key
  <2>1. \A k : InStore(k)' => InStore(k) \/ k = keys[t].key
    BY <1>4, <1>6, <1>9 DEF InStore, WrapOf
  <2>2. \A k : InTasks(k)' => InTasks(k)
    BY <1>15, <1>16, TasksQuiet
  <2>3. \A k : InQueues(k)' => InQueues(k) \/ k = keys[t].key
    BY <1>6, <1>11, <1>17 DEF InQueues, WrapOf
  <2> QED
    BY <2>1, <2>2, <2>3 DEF Wrapping
<1>24. ~Trying(t)
  BY <1>2, <1>3, NotTrying
<1>25. ~Trying(t)'
  BY <1>2, <1>15, <1>16, <1>18, <1>24 DEF Trying
<1>26. LocalAt(w, t)'
  <2>1. TaskIn(w, task[t])'
    BY <1>15, <1>16 DEF TaskIn
  <2>2. PairIn(w, keys[t])' /\ (page[t].claimed \/ InFlight(t) => keys[t].key # None)'
    BY <1>2, <1>3, <1>4, <1>9 DEF LocalAt, PairIn, browserVars
  <2>3. (\A y \in Range(up[t]) : y.type = "claim" => ClaimIn(w, y.create, y.inbox))'
    BY <1>2, <1>3, <1>9 DEF LocalAt, ClaimIn
  <2>4. (\A y \in Range(down[t]) : AnswerIn(w, y))'
    BY <1>3, <1>9, <1>18, FactsStay DEF LocalAt
  <2>5. OfflineAt(t)' /\ WelcomeFirst(down[t])'
    BY <1>2, <1>3, <1>18 DEF LocalAt, OfflineAt, linkVars
  <2>6. ~(Welcomed(down[t]) /\ keys[t].key = None)'
    BY <1>2 DEF browserVars
  <2> QED
    BY <1>25, <2>1, <2>2, <2>3, <2>4, <2>5, <2>6 DEF LocalAt
<1>27. WillCreate(t)' => WillCreate(t)
  BY <1>18 DEF WillCreate
<1> QED
  BY <1>0, <1>2, <1>9, <1>19, <1>22, <1>23, <1>24, <1>25, <1>26, <1>27, QuietStep
     DEF linkVars, browserVars

LEMMA HandleDoneStep ==
    ASSUME Inv, NEW t \in Tabs, HandleDone(t)
    PROVE  Inv'
<1>0. PICK w \in Worlds : Sound(w)
  BY DEF Inv
<1>1. PICK b : b = browserOf[t]
  OBVIOUS
<1>2. /\ Begins(t, "join-done")
      /\ reqID' = [reqID EXCEPT ![t] = None]
      /\ Store!Done(Room, b) \/ UNCHANGED storeVars
      /\ UNCHANGED <<linkVars, browserVars, task, down>>
  BY <1>1 DEF HandleDone
<1>3. LocalAt(w, t) /\ StoreAt(w) /\ Types /\ b \in Browsers
  BY <1>0, <1>1 DEF Sound, Inv, Types
<1>4. /\ StoreAt(w)' /\ (Registered => Registered')
      /\ \A k : InStore(k)' => InStore(k)
  <2>1. CASE UNCHANGED storeVars
    BY <1>3, <2>1, UnchangedStore
  <2>2. CASE Store!Done(Room, b)
    <3>1. /\ StoreAt(w)' /\ Registered /\ Registered' /\ Req(b)' = None
          /\ \A o \in Browsers \ {b} : Req(o)' = Req(o)
      BY <1>3, <2>2, DoneInStore
    <3> QED
      BY <3>1 DEF InStore, WrapOf
  <2> QED
    BY <1>2, <2>1, <2>2
<1>5. /\ t \in online /\ task[t] = Idle /\ up[t] # <<>> /\ Head(up[t]).type = "join-done"
      /\ up' \in [Tabs -> Seq(Up)] /\ up'[t] = Tail(up[t])
      /\ Range(up[t]) = {Head(up[t])} \cup Range(up'[t])
      /\ \A x \in Tabs \ {t} : up'[x] = up[x]
  BY <1>2, <1>3, Begun
<1>6. Types'
  BY <1>2, <1>3, <1>5 DEF Types, linkVars, browserVars
<1>7. OthersKept(w, t)
  BY <1>0, <1>2, <1>3, <1>4, <1>5, OthersUntouched DEF Types, Untouched, linkVars, browserVars
<1>8. \A k : Wrapping(k)' => Wrapping(k)
  BY <1>2, <1>4, QueuesQuiet DEF Wrapping, InTasks, WrapOf
<1>9. ~Trying(t)
  <2>1. ~TriesAlone(t)
    <3> SUFFICES ASSUME TriesAlone(t) PROVE FALSE
      OBVIOUS
    <3>1. up[t] = <<ClaimMessage(TRUE, t)>>
      BY <1>5, NewTasks DEF TriesAlone
    <3>2. Head(up[t]) = ClaimMessage(TRUE, t)
      BY <3>1
    <3>3. ClaimMessage(TRUE, t).type = "claim"
      BY NewUps
    <3> QED
      BY <1>5, <3>2, <3>3
  <2> QED
    BY <1>3, <2>1 DEF LocalAt
<1>10. ~Trying(t)' /\ (InFlight(t)' => InFlight(t))
  BY <1>2, <1>5, <1>9 DEF Trying, InFlight
<1>11. LocalAt(w, t)'
  <2>1. TaskIn(w, task[t])'
    BY <1>2, <1>5, NewTasks DEF TaskIn
  <2>2. PairIn(w, keys[t])' /\ (page[t].claimed \/ InFlight(t) => keys[t].key # None)'
    BY <1>2, <1>3, <1>4, <1>10 DEF LocalAt, PairIn, browserVars
  <2>3. (\A n \in Range(up[t]) : n.type = "claim" => ClaimIn(w, n.create, n.inbox))'
    BY <1>3, <1>4, <1>5 DEF LocalAt, ClaimIn
  <2>4. (\A n \in Range(down[t]) : AnswerIn(w, n))'
    BY <1>2, <1>3, <1>4, FactsStay DEF LocalAt
  <2>5. OfflineAt(t)' /\ WelcomeFirst(down[t])'
    BY <1>2, <1>3, <1>5 DEF LocalAt, OfflineAt, linkVars
  <2>6. ~(Welcomed(down[t]) /\ keys[t].key = None)'
    BY <1>2, <1>3, <1>5 DEF LocalAt, browserVars
  <2> QED
    BY <1>10, <2>1, <2>2, <2>3, <2>4, <2>5, <2>6 DEF LocalAt
<1>12. WillCreate(t)' => WillCreate(t)
  BY <1>2 DEF WillCreate
<1> QED
  BY <1>0, <1>2, <1>4, <1>6, <1>7, <1>8, <1>9, <1>10, <1>11, <1>12, QuietStep
     DEF linkVars, browserVars

-----------------------------------------------------------------------------
(* Connections.                                                             *)

LEMMA OnlyWelcome ==
    ASSUME NEW m \in Down, m.type = "welcome"
    PROVE  /\ <<m>> \in Seq(Down) /\ Range(<<m>>) = {m} /\ <<m>> # <<>> /\ Head(<<m>>) = m
           /\ NoResult(<<m>>) /\ WelcomeFirst(<<m>>)
<1>1. PICK s : s = <<>>
  OBVIOUS
<1>2. Range(s) = {} /\ Len(s) = 0
  BY <1>1, EmptyQueue
<1>3. s \in Seq(Down)
  BY <1>1
<1>4. <<m>> = Append(s, m)
  BY <1>1
<1>5. /\ Append(s, m) \in Seq(Down) /\ Len(Append(s, m)) = 1
      /\ Range(Append(s, m)) = {m} /\ Append(s, m) # <<>> /\ Head(Append(s, m)) = m
  <2>1. /\ Append(s, m) \in Seq(Down) /\ Len(Append(s, m)) = Len(s) + 1
        /\ Range(Append(s, m)) = Range(s) \cup {m} /\ Append(s, m) # <<>>
        /\ Head(Append(s, m)) = IF s = <<>> THEN m ELSE Head(s)
    BY <1>3, Appended
  <2>2. Range(s) \cup {m} = {m} /\ Len(s) + 1 = 1
    BY <1>2
  <2>3. Head(Append(s, m)) = m
    BY <1>1, <2>1
  <2> QED
    BY <2>1, <2>2, <2>3
<1>6. Range(<<m>>) = {m} /\ Len(<<m>>) = 1
  BY <1>4, <1>5
<1>7. NoResult(<<m>>)
  BY <1>6 DEF NoResult
<1>8. WelcomeFirst(<<m>>)
  BY <1>6 DEF WelcomeFirst
<1> QED
  BY <1>4, <1>5, <1>7, <1>8

LEMMA NothingOnItsWay ==
    ASSUME NEW w \in Worlds, NEW t \in Tabs, LocalAt(w, t), t \notin online
    PROVE  ~Trying(t) /\ ~InFlight(t)
<1>1. up[t] = <<>> /\ down[t] = <<>> /\ task[t].step = "idle"
  BY NewTasks DEF LocalAt, OfflineAt
<1>2. Range(up[t]) = {} /\ Range(down[t]) = {} /\ NoResult(down[t])
  BY <1>1, EmptyQueue
<1> QED
  BY <1>1, <1>2 DEF Trying, InFlight

LEMMA ConnectStep ==
    ASSUME Inv, NEW t \in Tabs, Connect(t)
    PROVE  Inv'
<1>0. PICK w \in Worlds : Sound(w)
  BY DEF Inv
<1>1. PICK m : m = [type |-> "welcome", exists |-> Registered]
  OBVIOUS
<1>2. m \in Down /\ m.type = "welcome" /\ m.exists = Registered
  BY <1>1, NewDowns DEF Registered, Store!Exists
<1>3. /\ t \notin online /\ online' = online \cup {t}
      /\ down' = [down EXCEPT ![t] = <<m>>]
      /\ UNCHANGED storeVars /\ UNCHANGED <<reqID, task>>
      /\ UNCHANGED <<browserOf, keys, stored, page, contested, unconfirmed>>
      /\ UNCHANGED <<up, greeted, early, drops>>
  BY <1>1 DEF Connect, Registered, serverVars, storeVars, browserVars
<1>4. LocalAt(w, t) /\ StoreAt(w) /\ Types
  BY <1>0 DEF Sound, Inv
<1>5. /\ <<m>> \in Seq(Down) /\ Range(<<m>>) = {m} /\ Head(<<m>>) = m
      /\ NoResult(<<m>>) /\ WelcomeFirst(<<m>>)
  BY <1>2, OnlyWelcome
<1>6. /\ down' \in [Tabs -> Seq(Down)] /\ down'[t] = <<m>>
      /\ \A x \in Tabs \ {t} : down'[x] = down[x]
  BY <1>3, <1>4, <1>5 DEF Types
<1>7. /\ StoreAt(w)' /\ (Registered' <=> Registered)
      /\ \A k : InStore(k)' <=> InStore(k)
  BY <1>3, <1>4, UnchangedStore
<1>8. /\ up[t] = <<>> /\ task[t] = Idle /\ reqID[t] = None /\ ~page[t].claimed
      /\ ~Trying(t) /\ ~InFlight(t)
  BY <1>3, <1>4, NothingOnItsWay DEF LocalAt, OfflineAt
<1>9. Types'
  BY <1>3, <1>4, <1>6 DEF Types
<1>10. OthersKept(w, t)
  BY <1>0, <1>3, <1>4, <1>6, <1>7, OthersUntouched DEF Untouched
<1>11. \A k : Wrapping(k)' => Wrapping(k)
  <2>1. \A k : InTasks(k)' => InTasks(k)
    BY <1>3 DEF InTasks
  <2>2. \A x \in Tabs : \A y \in Range(down'[x]) : y \in Range(down[x]) \/ y.type # "join-status"
    BY <1>2, <1>5, <1>6
  <2> QED
    BY <1>7, <2>1, <2>2, QueuesQuiet DEF Wrapping
<1>12. ~Trying(t)' /\ ~InFlight(t)'
  BY <1>2, <1>3, <1>5, <1>6, <1>8 DEF Trying, InFlight
<1>13. LocalAt(w, t)'
  <2>1. AnswerIn(w, m)'
    BY <1>2, <1>4, <1>7 DEF AnswerIn, StoreAt
  <2>2. (\A y \in Range(down[t]) : AnswerIn(w, y))'
    BY <1>5, <1>6, <2>1
  <2>3. PairIn(w, keys[t])' /\ (page[t].claimed \/ InFlight(t) => keys[t].key # None)'
    BY <1>3, <1>4, <1>7, <1>8, <1>12 DEF LocalAt, PairIn
  <2>4. (\A y \in Range(up[t]) : y.type = "claim" => ClaimIn(w, y.create, y.inbox))'
    BY <1>3, <1>4, <1>7 DEF LocalAt, ClaimIn
  <2>5. TaskIn(w, task[t])'
    BY <1>3, <1>8, NewTasks DEF TaskIn
  <2>6. OfflineAt(t)' /\ WelcomeFirst(down[t])'
    BY <1>3, <1>5, <1>6 DEF OfflineAt
  <2> QED
    BY <1>3, <1>8, <1>12, <2>2, <2>3, <2>4, <2>5, <2>6 DEF LocalAt
<1>14. Sound(w)'
  BY <1>0, <1>3, <1>7, <1>10, <1>13, StoredStays DEF Sound, OthersKept
<1>15. StoredToo'
  BY <1>3 DEF Inv, StoredToo
<1>16. ASSUME ~unconfirmed PROVE OneKeyHeld'
  <2>1. OneKeyHeld
    BY <1>16 DEF Inv
  <2>2. t \in Keys
    BY DEF Keys
  <2>3. ~Registered => ~HeldKey(t)
    BY <1>8, <2>1, <2>2 DEF OneKeyHeld, Accepted
  <2>4. WillCreate(t)' => ~HeldKey(t)
    BY <1>2, <1>5, <1>6, <2>3 DEF WillCreate
  <2>5. \A x \in Tabs : Trying(x)' <=> Trying(x)
    BY <1>8, <1>10, <1>12 DEF OthersKept
  <2>6. \A x \in Tabs : WillCreate(x)' => WillCreate(x) \/ ~HeldKey(x)
    BY <1>10, <2>4 DEF OthersKept
  <2> QED
    BY <1>3, <1>7, <1>11, <2>1, <2>5, <2>6, OneKeyMoved
<1> QED
  BY <1>3, <1>9, <1>14, <1>15, <1>16 DEF Inv

(* A connection is lost; the page goes on with its keys, or starts again    *)
(* with those its browser has stored.                                       *)
LEMMA DropStep ==
    ASSUME Inv, NEW t \in Tabs, Drop(t),
           keys' = keys \/ keys' = [keys EXCEPT ![t] = stored[browserOf[t]]],
           page' \in [Tabs -> PageType], ~page'[t].claimed,
           \A x \in Tabs \ {t} : page'[x] = page[x],
           ~unconfirmed' =>
             /\ ~unconfirmed /\ ~page[t].creating
             /\ \/ keys' = keys
                \/ \A x \in Siblings(t) :
                     page[x].creating => keys[x].key # stored[browserOf[t]].key
    PROVE  Inv'
<1>0. PICK w \in Worlds : Sound(w)
  BY DEF Inv
<1>1. LocalAt(w, t) /\ StoreAt(w) /\ StoredIn(w) /\ Types
  BY <1>0 DEF Sound, Inv
<1>2. PICK b \in Browsers : b = browserOf[t]
  BY <1>1 DEF Types
<1>3. /\ t \in online /\ task[t] = Idle /\ drops < MaxDrops /\ drops' = drops + 1
      /\ online' = online \ {t}
      /\ up' = [up EXCEPT ![t] = <<>>] /\ down' = [down EXCEPT ![t] = <<>>]
      /\ reqID' = [reqID EXCEPT ![t] = None]
      /\ greeted' = OfOthers(greeted, t) /\ early' = OfOthers(early, t)
      /\ UNCHANGED storeVars /\ UNCHANGED <<browserOf, task, stored, contested>>
  BY DEF Drop
<1>4. /\ up' \in [Tabs -> Seq(Up)] /\ up'[t] = <<>>
      /\ down' \in [Tabs -> Seq(Down)] /\ down'[t] = <<>>
      /\ \A x \in Tabs \ {t} : up'[x] = up[x] /\ down'[x] = down[x]
  BY <1>1, <1>3 DEF Types
<1>5. /\ keys' \in [Tabs -> KeyPair] /\ keys'[t] \in {keys[t], stored[b]}
      /\ \A x \in Tabs \ {t} : keys'[x] = keys[x]
  <2>1. keys \in [Tabs -> KeyPair] /\ stored[b] \in KeyPair
    BY <1>1 DEF Types
  <2>2. CASE keys' = keys
    BY <2>1, <2>2
  <2>3. CASE keys' = [keys EXCEPT ![t] = stored[b]]
    BY <2>1, <2>3
  <2> QED
    BY <1>2, <2>2, <2>3
<1>6. /\ StoreAt(w)' /\ (Registered' <=> Registered)
      /\ \A k : InStore(k)' <=> InStore(k)
  BY <1>1, <1>3, UnchangedStore
<1>7. Types'
  <2>1. drops' \in 0..MaxDrops
    BY <1>1, <1>3, MaxDropsAssumption DEF Types
  <2>2. early' \subseteq greeted' /\ greeted' \subseteq online' \X online'
    BY <1>1, <1>3 DEF Types, OfOthers
  <2>3. reqID' \in [Tabs -> Browsers \cup {None}] /\ \A x \in Tabs : reqID'[x] \in {browserOf[x], None}
    BY <1>1, <1>3 DEF Types
  <2> QED
    BY <1>1, <1>3, <1>4, <1>5, <2>1, <2>2, <2>3 DEF Types
<1>8. OthersKept(w, t)
  <2>1. \A x \in Tabs \ {t} : Untouched(x)
    BY <1>1, <1>3, <1>4, <1>5 DEF Types, Untouched
  <2> QED
    BY <1>0, <1>1, <1>4, <1>6, <2>1, OthersUntouched
<1>9. \A k : Wrapping(k)' => Wrapping(k)
  <2>1. \A k : InTasks(k)' => InTasks(k)
    BY <1>3 DEF InTasks
  <2>2. \A x \in Tabs : \A y \in Range(down'[x]) : y \in Range(down[x]) \/ y.type # "join-status"
    BY <1>4, EmptyQueue
  <2> QED
    BY <1>6, <2>1, <2>2, QueuesQuiet DEF Wrapping
<1>10. ~Trying(t)' /\ ~InFlight(t)'
  <2>1. task'[t].step = "idle"
    BY <1>3, NewTasks
  <2>2. Range(up'[t]) = {} /\ Range(down'[t]) = {} /\ NoResult(down'[t])
    BY <1>4, EmptyQueue
  <2> QED
    BY <2>1, <2>2 DEF Trying, InFlight
<1>11. LocalAt(w, t)'
  <2>1. PairIn(w, keys[t])'
    BY <1>1, <1>2, <1>5, <1>6 DEF LocalAt, StoredIn, PairIn
  <2>2. TaskIn(w, task[t])'
    BY <1>3, NewTasks DEF TaskIn
  <2>3. OfflineAt(t)'
    BY <1>1, <1>3, <1>4 DEF OfflineAt, Types
  <2>4. Range(up'[t]) = {} /\ Range(down'[t]) = {} /\ WelcomeFirst(down'[t]) /\ ~Welcomed(down'[t])
    BY <1>4, EmptyQueue
  <2> QED
    BY <1>10, <2>1, <2>2, <2>3, <2>4 DEF LocalAt
<1>12. Sound(w)'
  BY <1>1, <1>3, <1>6, <1>8, <1>11, StoredStays DEF Sound, OthersKept
<1>13. StoredToo'
  BY <1>2, <1>3, <1>5 DEF Inv, StoredToo
<1>14. ASSUME ~unconfirmed' PROVE OneKeyHeld'
  <2>1. OneKeyHeld /\ ~page[t].creating
    BY <1>14 DEF Inv
  <2>2. ~Trying(t)
    BY <1>1, <2>1 DEF LocalAt, TriesAlone
  <2>3. \A x \in Tabs : Trying(x)' <=> Trying(x)
    BY <1>8, <1>10, <2>2 DEF OthersKept
  <2>4. \A x \in Tabs : WillCreate(x)' => WillCreate(x)
    BY <1>4, <1>8, EmptyQueue DEF OthersKept, WillCreate
  <2>5. ASSUME keys' # keys, stored[b].key # None PROVE Accepted(stored[b].key)
    <3>1. HeldKey(stored[b].key)
      BY <2>5 DEF HeldKey
    <3>2. ASSUME NEW x \in Tabs, Trying(x), stored[b].key = x PROVE FALSE
      <4>1. browserOf[x] = b
        BY <2>1, <3>2 DEF OneKeyHeld, KeptBack
      <4>2. keys[x].key = x /\ page[x].creating
        <5>1. LocalAt(w, x)
          BY <1>0 DEF Sound
        <5>2. TriesAlone(x)
          BY <3>2, <5>1 DEF LocalAt
        <5> QED
          BY <5>2 DEF TriesAlone
      <4>3. x \in Siblings(t)
        BY <1>2, <2>2, <3>2, <4>1 DEF Siblings
      <4> QED
        BY <1>2, <1>14, <2>5, <3>2, <4>2, <4>3
    <3> QED
      BY <3>1, <3>2 DEF Accepted
  <2>6. stored[b].key \in Keys \cup {None}
    BY <1>1, KeyTypes
  <2>7. \A x \in Tabs :
          \/ keys'[x].key \in {keys[x].key, None}
          \/ \E k \in Keys : Accepted(k) /\ k = keys'[x].key
    BY <1>5, <2>5, <2>6
  <2> QED
    BY <1>3, <1>6, <1>9, <2>1, <2>3, <2>4, <2>7, OneKeyMoved
<1> QED
  BY <1>7, <1>12, <1>13, <1>14 DEF Inv

LEMMA PageTypes ==
    /\ NewPage \in PageType /\ ~NewPage.claimed
    /\ \A p \in PageType : /\ [p EXCEPT !.claimed = FALSE] \in PageType
                           /\ ~[p EXCEPT !.claimed = FALSE].claimed
BY DEF NewPage, PageType

LEMMA DisconnectStep ==
    ASSUME Inv, NEW t \in Tabs, Disconnect(t)
    PROVE  Inv'
<1>1. /\ Drop(t) /\ keys' = keys /\ unconfirmed' = (unconfirmed \/ page[t].creating)
      /\ page' = [page EXCEPT ![t].claimed = FALSE]
  BY DEF Disconnect
<1>2. page \in [Tabs -> PageType]
  BY DEF Inv, Types
<1>3. page' \in [Tabs -> PageType] /\ ~page'[t].claimed
  BY <1>1, <1>2, PageTypes
<1>4. \A x \in Tabs \ {t} : page'[x] = page[x]
  BY <1>1, <1>2
<1> QED
  BY <1>1, <1>3, <1>4, DropStep

LEMMA ReloadStep ==
    ASSUME Inv, NEW t \in Tabs, Reload(t)
    PROVE  Inv'
<1>1. /\ Drop(t) /\ keys' = [keys EXCEPT ![t] = stored[browserOf[t]]]
      /\ unconfirmed' = (unconfirmed \/ page[t].creating \/
           \E x \in Siblings(t) : page[x].creating /\ keys[x].key = stored[browserOf[t]].key)
      /\ page' = [page EXCEPT ![t] = NewPage]
  BY DEF Reload
<1>2. page \in [Tabs -> PageType]
  BY DEF Inv, Types
<1>3. page' \in [Tabs -> PageType] /\ ~page'[t].claimed
  BY <1>1, <1>2, PageTypes
<1>4. \A x \in Tabs \ {t} : page'[x] = page[x]
  BY <1>1, <1>2
<1> QED
  BY <1>1, <1>3, <1>4, DropStep

-----------------------------------------------------------------------------
(* The handlers of the page.                                                *)

(* The page has no claim on its way that would create the room.             *)
LEMMA StillNotTrying ==
    ASSUME NEW t \in Tabs, ~Trying(t), task'[t] = task[t],
           Range(down'[t]) \subseteq Range(down[t]),
           \A m \in Range(up'[t]) : m.type = "claim" /\ m.create => m \in Range(up[t])
    PROVE  ~Trying(t)'
BY DEF Trying

(* A page that is trying gets a message that is not the answer.             *)
LEMMA StillTrying ==
    ASSUME NEW t \in Tabs, Trying(t), TriesAlone(t),
           task'[t] = task[t], up'[t] = up[t], keys'[t] = keys[t],
           page'[t].creating = page[t].creating, page'[t].claimed = page[t].claimed,
           down'[t] \in Seq(Down), ~Welcomed(down'[t]),
           NoResult(down[t]) <=> NoResult(down'[t]),
           OneRefusal(down[t]) => OneRefusal(down'[t])
    PROVE  Trying(t)' /\ TriesAlone(t)'
<1>1. TriesAlone(t)'
  BY DEF TriesAlone
<1>2. CASE up[t] = <<ClaimMessage(TRUE, t)>>
  <2>1. up'[t] = up[t] /\ \E m \in Range(up[t]) : m.type = "claim" /\ m.create
    <3>1. PICK m : m = ClaimMessage(TRUE, t)
      OBVIOUS
    <3>2. m.type = "claim" /\ m.create
      BY <3>1, NewUps
    <3>3. m = <<m>>[1] /\ 1 \in DOMAIN <<m>>
      OBVIOUS
    <3>4. m \in Range(up[t])
      BY <1>2, <3>1, <3>3 DEF Range
    <3> QED
      BY <3>2, <3>4
  <2> QED
    BY <1>1, <2>1 DEF Trying
<1>3. CASE task[t].step = "claim" /\ task[t].create
  BY <1>1, <1>3 DEF Trying
<1>4. CASE OneRefusal(down[t])
  <2>1. OneRefusal(down'[t])
    BY <1>4
  <2>2. PICK s \in Seq(Down) : s = down'[t]
    OBVIOUS
  <2>3. PICK i \in 1..Len(s) : s[i].type = "claim-result" /\ ~s[i].ok
    BY <2>1, <2>2 DEF OneRefusal
  <2>4. s[i] \in Range(s)
    BY LenProperties DEF Range
  <2> QED
    BY <1>1, <2>2, <2>3, <2>4 DEF Trying
<1> QED
  BY <1>2, <1>3, <1>4 DEF TriesAlone

LEMMA AnswerRefused ==
    ASSUME NEW s \in Seq(Down), OneRefusal(s), s # <<>>, Head(s).type = "claim-result"
    PROVE  ~Head(s).ok
<1>1. Len(s) \in Nat \ {0} /\ Head(s) = s[1]
  BY Taken
<1>2. PICK i \in 1..Len(s) : ~s[i].ok /\ \A j \in 1..Len(s) : s[j].type = "claim-result" => j = i
  BY DEF OneRefusal
<1>3. i = 1
  BY <1>1, <1>2
<1> QED
  BY <1>1, <1>2, <1>3

(* What a step of the page t leaves alone.                                  *)
PageFrame(t) ==
    /\ UNCHANGED storeVars /\ UNCHANGED <<browserOf, task, reqID, online, unconfirmed, drops>>
    /\ \A x \in Tabs \ {t} :
         keys'[x] = keys[x] /\ page'[x] = page[x] /\ up'[x] = up[x] /\ down'[x] = down[x]
    /\ Range(down'[t]) \subseteq Range(down[t])

LEMMA PageFrameKeeps ==
    ASSUME Types, NEW w \in Worlds, Sound(w), NEW t \in Tabs, PageFrame(t)
    PROVE  /\ StoreAt(w)' /\ (Registered' <=> Registered) /\ OthersKept(w, t)
           /\ \A k : Wrapping(k)' => Wrapping(k)
<1>1. /\ StoreAt(w)' /\ (Registered' <=> Registered)
      /\ \A k : InStore(k)' <=> InStore(k)
  BY UnchangedStore DEF Sound, PageFrame
<1>2. \A x \in Tabs \ {t} : Untouched(x) /\ down'[x] = down[x]
  BY DEF Untouched, PageFrame
<1>3. OthersKept(w, t)
  BY <1>1, <1>2, OthersUntouched
<1>4. \A k : InTasks(k)' => InTasks(k)
  BY DEF InTasks, PageFrame
<1>5. \A k : InQueues(k)' => InQueues(k)
  BY QueuesQuiet DEF PageFrame
<1> QED
  BY <1>1, <1>3, <1>4, <1>5 DEF Wrapping

LEMMA PageLocal ==
    ASSUME NEW w \in Worlds, NEW t \in Tabs, LocalAt(w, t), PageFrame(t), t \in online,
           Registered' <=> Registered,
           WelcomeFirst(down'[t]), ~Welcomed(down'[t]) \/ keys'[t].key # None,
           \A m \in Range(up'[t]) : m.type = "claim" =>
             m \in Range(up[t]) \/ ClaimIn(w, m.create, m.inbox),
           PairIn(w, keys'[t]),
           page'[t].claimed \/ InFlight(t)' => keys'[t].key # None,
           Trying(t)' => TriesAlone(t)'
    PROVE  LocalAt(w, t)'
<1>1. OfflineAt(t)'
  BY DEF OfflineAt, PageFrame
<1>2. (\A m \in Range(up[t]) : m.type = "claim" => ClaimIn(w, m.create, m.inbox))'
  BY DEF LocalAt, ClaimIn
<1>3. TaskIn(w, task[t])'
  <2>1. PICK y : y = task[t]
    OBVIOUS
  <2>2. task'[t] = y
    BY <2>1 DEF PageFrame
  <2>3. TaskIn(w, y)'
    BY <2>1, FactsStay DEF LocalAt
  <2> QED
    BY <2>2, <2>3 DEF TaskIn, WrapIn, PairIn, ClaimIn
<1>4. (\A m \in Range(down[t]) : AnswerIn(w, m))'
  BY FactsStay DEF LocalAt, PageFrame
<1>5. PairIn(w, keys[t])'
  BY DEF PairIn
<1>6. (Welcomed(down[t]) /\ keys[t].key = None => up[t] = <<>> /\ task[t] = Idle)'
  OBVIOUS
<1> QED
  BY <1>1, <1>2, <1>3, <1>4, <1>5, <1>6 DEF LocalAt

LEMMA TookKeys ==
    ASSUME Types, NEW t \in Tabs, NEW new \in KeyPair, TakeKeys(t, new)
    PROVE  /\ keys' \in [Tabs -> KeyPair] /\ keys'[t] = new
           /\ \A x \in Tabs \ {t} : keys'[x] = keys[x]
           /\ stored' \in [Browsers -> KeyPair] /\ stored'[browserOf[t]] = new
           /\ \A b \in Browsers \ {browserOf[t]} : stored'[b] = stored[b]
           /\ contested' \in SUBSET Browsers /\ contested \subseteq contested'
<1>1. browserOf[t] \in Browsers
  BY DEF Types
<1>2. keys' = [keys EXCEPT ![t] = new] /\ stored' = [stored EXCEPT ![browserOf[t]] = new]
  BY DEF TakeKeys, Stores
<1>3. contested' \in {contested, contested \cup {browserOf[t]}}
  BY DEF TakeKeys
<1> QED
  BY <1>1, <1>2, <1>3 DEF Types

(* Whoever overwrites what another tab goes by is told apart.               *)
LEMMA StoredTooKept ==
    ASSUME Types, StoredToo, browserOf' = browserOf,
           NEW t \in Tabs, NEW new \in KeyPair, TakeKeys(t, new)
    PROVE  StoredToo'
<1> DEFINE b == browserOf[t]
<1>1. /\ keys'[t] = new /\ \A x \in Tabs \ {t} : keys'[x] = keys[x]
      /\ stored'[b] = new /\ \A o \in Browsers \ {b} : stored'[o] = stored[o]
      /\ contested \subseteq contested'
  BY TookKeys
<1>2. SUFFICES ASSUME NEW x \in Tabs, keys'[x].key # None, browserOf[x] \notin contested'
               PROVE  /\ stored'[browserOf[x]].key = keys'[x].key
                      /\ keys'[x].inbox # None => stored'[browserOf[x]].inbox = keys'[x].inbox
  BY DEF StoredToo
<1>3. CASE x = t
  BY <1>1, <1>3
<1>4. CASE x # t /\ browserOf[x] # b
  BY <1>1, <1>2, <1>4 DEF StoredToo, Types
<1>5. CASE x # t /\ browserOf[x] = b
  <2>1. /\ keys[x].key # None /\ b \notin contested
        /\ stored[b].key = keys[x].key
        /\ keys[x].inbox # None => stored[b].inbox = keys[x].inbox
    BY <1>1, <1>2, <1>5 DEF StoredToo
  <2>2. x \in Siblings(t)
    BY <1>5 DEF Siblings
  <2>3. new # NoKeys
    BY <1>2, <1>5, <2>1, <2>2 DEF TakeKeys
  <2>4. ~Replaces(stored[b].key, new.key) /\ ~Replaces(stored[b].inbox, new.inbox)
    BY <1>2, <1>5, <2>3 DEF TakeKeys
  <2> QED
    BY <1>1, <1>5, <2>1, <2>4 DEF Replaces
<1> QED
  BY <1>3, <1>4, <1>5

(* A page takes keys that somebody has, or removes its own.                 *)
LEMMA KeyMoved ==
    ASSUME Types, OneKeyHeld, NEW w \in Worlds, Sound(w), NEW t \in Tabs, PageFrame(t),
           NEW new \in KeyPair, TakeKeys(t, new),
           new.key = None \/ Accepted(new.key),
           ~Trying(t)', Trying(t) => new.key = None,
           WillCreate(t)' => WillCreate(t)
    PROVE  OneKeyHeld'
<1>1. /\ keys'[t] = new /\ \A x \in Tabs \ {t} : keys'[x] = keys[x]
      /\ stored'[browserOf[t]] = new
      /\ \A b \in Browsers \ {browserOf[t]} : stored'[b] = stored[b]
  BY TookKeys
<1>2. /\ (Registered' <=> Registered) /\ OthersKept(w, t)
      /\ \A k : Wrapping(k)' => Wrapping(k)
  BY PageFrameKeeps
<1>3. new.key \in Keys \cup {None}
  BY PairTypes
<1>4. \A x \in Tabs :
        \/ keys'[x].key \in {keys[x].key, None}
        \/ \E k \in Keys : Accepted(k) /\ k = keys'[x].key
  BY <1>1, <1>3
<1>5. \A b \in Browsers :
        \/ stored'[b].key \in {stored[b].key, None}
        \/ \E k \in Keys : Accepted(k) /\ k = stored'[b].key
  BY <1>1, <1>3
<1>6. \A x \in Tabs : (Trying(x)' => Trying(x)) /\ (WillCreate(x)' => WillCreate(x))
  BY <1>2 DEF OthersKept
<1>7. Trying(t) => ~HeldKey(t)'
  <2> SUFFICES ASSUME Trying(t) PROVE ~HeldKey(t)'
    OBVIOUS
  <2>1. KeptBack(t) /\ t # None
    BY NamesAssumption DEF OneKeyHeld
  <2>2. \A x \in Tabs : keys'[x].key # t
    BY <1>1, <2>1 DEF KeptBack
  <2>3. \A b \in Browsers : stored'[b].key # t
    BY <1>1, <2>1 DEF KeptBack
  <2>4. ~Wrapping(t)'
    BY <1>2, <2>1 DEF KeptBack
  <2> QED
    BY <2>2, <2>3, <2>4 DEF HeldKey
<1>8. \A x \in Tabs : Trying(x) => Trying(x)' \/ ~HeldKey(x)'
  BY <1>2, <1>7 DEF OthersKept
<1>9. browserOf' = browserOf
  BY DEF PageFrame
<1> QED
  BY <1>2, <1>4, <1>5, <1>6, <1>8, <1>9, OneKeyMoved

LEMMA QuietPage ==
    ASSUME Inv, NEW w \in Worlds, Sound(w), NEW t \in Tabs, PageFrame(t), t \in online,
           KeepKeys, Types',
           WelcomeFirst(down'[t]), ~Welcomed(down'[t]) \/ keys[t].key # None,
           \A m \in Range(up'[t]) : m.type = "claim" =>
             m \in Range(up[t]) \/ ClaimIn(w, m.create, m.inbox),
           page'[t].claimed \/ InFlight(t)' => keys[t].key # None,
           Trying(t)' => TriesAlone(t)', Trying(t)' <=> Trying(t),
           WillCreate(t)' => WillCreate(t)
    PROVE  Inv'
<1>1. LocalAt(w, t) /\ Types
  BY DEF Sound, Inv
<1>2. /\ StoreAt(w)' /\ (Registered' <=> Registered) /\ OthersKept(w, t)
      /\ \A k : Wrapping(k)' => Wrapping(k)
  BY <1>1, PageFrameKeeps
<1>3. PairIn(w, keys'[t]) /\ keys'[t] = keys[t]
  BY <1>1 DEF LocalAt, KeepKeys
<1>4. LocalAt(w, t)'
  BY <1>1, <1>2, <1>3, PageLocal
<1>5. UNCHANGED <<browserOf, keys, stored, contested, unconfirmed>>
  BY DEF PageFrame, KeepKeys
<1> QED
  BY <1>2, <1>4, <1>5, QuietStep

LEMMA KeyPage ==
    ASSUME Inv, NEW w \in Worlds, Sound(w), NEW t \in Tabs, PageFrame(t), t \in online,
           NEW new \in KeyPair, TakeKeys(t, new), PairIn(w, new), Types',
           WelcomeFirst(down'[t]), ~Welcomed(down'[t]) \/ new.key # None,
           \A m \in Range(up'[t]) : m.type = "claim" =>
             m \in Range(up[t]) \/ ClaimIn(w, m.create, m.inbox),
           page'[t].claimed \/ InFlight(t)' => new.key # None,
           Trying(t)' => TriesAlone(t)',
           ~unconfirmed => OneKeyHeld'
    PROVE  Inv'
<1>1. LocalAt(w, t) /\ Types /\ StoredToo /\ StoredIn(w) /\ browserOf' = browserOf
  BY DEF Sound, Inv, PageFrame
<1>2. StoreAt(w)' /\ (Registered' <=> Registered) /\ OthersKept(w, t)
  BY <1>1, PageFrameKeeps
<1>3. /\ keys'[t] = new /\ stored'[browserOf[t]] = new
      /\ \A b \in Browsers \ {browserOf[t]} : stored'[b] = stored[b]
  BY <1>1, TookKeys
<1>4. LocalAt(w, t)'
  BY <1>1, <1>2, <1>3, PageLocal
<1>5. StoredIn(w)'
  <2>1. \A b \in Browsers : PairIn(w, stored'[b])
    BY <1>1, <1>3 DEF StoredIn
  <2> QED
    BY <1>2, <2>1 DEF StoredIn, PairIn
<1>6. Sound(w)'
  BY <1>2, <1>4, <1>5 DEF Sound, OthersKept
<1>7. StoredToo'
  BY <1>1, StoredTooKept
<1>8. unconfirmed' = unconfirmed
  BY DEF PageFrame
<1> QED
  BY <1>6, <1>7, <1>8 DEF Inv

(* The page t takes a message and handles it.                               *)
LEMMA Handling ==
    ASSUME Inv, NEW w \in Worlds, Sound(w), NEW t \in Tabs, NEW type, Receives(t, type),
           UNCHANGED <<linkVars, serverVars>>,
           keys' \in [Tabs -> KeyPair], page' \in [Tabs -> PageType], up' \in [Tabs -> Seq(Up)],
           \A x \in Tabs \ {t} : keys'[x] = keys[x] /\ page'[x] = page[x] /\ up'[x] = up[x],
           stored' \in [Browsers -> KeyPair], contested' \in SUBSET Browsers
    PROVE  /\ PageFrame(t) /\ Types' /\ LocalAt(w, t) /\ t \in online
           /\ Head(down[t]) \in Down /\ Head(down[t]).type = type /\ AnswerIn(w, Head(down[t]))
           /\ down[t] \in Seq(Down) /\ down[t] # <<>>
           /\ down'[t] \in Seq(Down) /\ Range(down'[t]) \subseteq Range(down[t])
           /\ WelcomeFirst(down'[t]) /\ ~Welcomed(down'[t]) /\ ~WillCreate(t)'
           /\ NoResult(down[t]) <=> type # "claim-result" /\ NoResult(down'[t])
           /\ OneRefusal(down[t]) /\ type # "claim-result" => OneRefusal(down'[t])
           /\ OneRefusal(down[t]) /\ type = "claim-result" => NoResult(down'[t])
<1>1. LocalAt(w, t) /\ Types /\ WelcomeFirst(down[t])
  BY DEF Sound, Inv, LocalAt
<1>2. /\ t \in online /\ down[t] # <<>>
      /\ Head(down[t]) \in Down /\ Head(down[t]) \in Range(down[t])
      /\ Head(down[t]).type = type
      /\ down' \in [Tabs -> Seq(Down)]
      /\ Range(down[t]) = {Head(down[t])} \cup Range(down'[t])
      /\ WelcomeFirst(down'[t]) /\ ~Welcomed(down'[t])
      /\ NoResult(down[t]) <=> type # "claim-result" /\ NoResult(down'[t])
      /\ OneRefusal(down[t]) /\ type # "claim-result" => OneRefusal(down'[t])
      /\ OneRefusal(down[t]) /\ type = "claim-result" => NoResult(down'[t])
      /\ \A x \in Tabs \ {t} : down'[x] = down[x]
  BY <1>1, Received
<1>3. PageFrame(t)
  BY <1>2 DEF PageFrame, linkVars, serverVars, storeVars
<1>4. Types'
  BY <1>1, <1>2 DEF Types, linkVars, serverVars
<1>5. AnswerIn(w, Head(down[t])) /\ down[t] \in Seq(Down)
  BY <1>1, <1>2 DEF LocalAt, Types
<1>6. ~WillCreate(t)'
  BY <1>2 DEF WillCreate
<1> QED
  BY <1>1, <1>2, <1>3, <1>4, <1>5, <1>6

LEMMA OnJoinRequestsStep ==
    ASSUME Inv, NEW t \in Tabs, OnJoinRequests(t)
    PROVE  Inv'
<1>0. PICK w \in Worlds : Sound(w)
  BY DEF Inv
<1>1. /\ Receives(t, "join-requests") /\ KeepKeys
      /\ UNCHANGED <<linkVars, serverVars>> /\ up' = up
  BY DEF OnJoinRequests
<1>2. Types /\ t \in online /\ page[t] \in PageType
  BY <1>1 DEF Inv, Types, Receives
<1>3. PICK i : i = Head(down[t]).inbox
  OBVIOUS
<1>4. Head(down[t]) \in Down /\ Head(down[t]).type = "join-requests"
  BY <1>0, <1>1, <1>2, Received DEF Sound, LocalAt
<1>5. i \in Tabs \cup {None}
  BY <1>3, <1>4, DownTypes
<1>6. \/ page' = [page EXCEPT ![t].roomInbox = IF i = None THEN @ ELSE i]
      \/ page' = [page EXCEPT ![t].chat = Chat(t, page[t].waits, i)]
  BY <1>3 DEF OnJoinRequests
<1>7. /\ page' \in [Tabs -> PageType] /\ \A x \in Tabs \ {t} : page'[x] = page[x]
      /\ page'[t].creating = page[t].creating /\ page'[t].claimed = page[t].claimed
  <2>1. page \in [Tabs -> PageType]
    BY <1>2 DEF Types
  <2>2. CASE page' = [page EXCEPT ![t].roomInbox = IF i = None THEN @ ELSE i]
    BY <1>5, <2>1, <2>2 DEF PageType
  <2>3. CASE page' = [page EXCEPT ![t].chat = Chat(t, page[t].waits, i)]
    <3>1. Chat(t, page[t].waits, i) \in Tabs \cup {None}
      BY <1>2, <1>5 DEF Chat, PageType
    <3> QED
      BY <2>1, <2>3, <3>1 DEF PageType
  <2> QED
    BY <1>6, <2>2, <2>3
<1>8. /\ keys' = keys /\ keys' \in [Tabs -> KeyPair] /\ stored' \in [Browsers -> KeyPair]
      /\ contested' \in SUBSET Browsers /\ up' \in [Tabs -> Seq(Up)]
  BY <1>1, <1>2 DEF KeepKeys, Types
<1>9. \A x \in Tabs \ {t} : keys'[x] = keys[x] /\ page'[x] = page[x] /\ up'[x] = up[x]
  BY <1>1, <1>7, <1>8
<1>10. Inv /\ Sound(w) /\ Receives(t, "join-requests") /\ UNCHANGED <<linkVars, serverVars>>
  BY <1>0, <1>1
<1>11. /\ PageFrame(t) /\ Types' /\ LocalAt(w, t)
      /\ down'[t] \in Seq(Down) /\ Range(down'[t]) \subseteq Range(down[t])
      /\ WelcomeFirst(down'[t]) /\ ~Welcomed(down'[t]) /\ ~WillCreate(t)'
  BY <1>7, <1>8, <1>9, <1>10, Handling
<1>12. NoResult(down[t]) <=> NoResult(down'[t])
  BY SMTT(30), <1>7, <1>8, <1>9, <1>10, Handling
<1>13. OneRefusal(down[t]) => OneRefusal(down'[t])
  BY SMTT(30), <1>7, <1>8, <1>9, <1>10, Handling
<1>14. task'[t] = task[t]
  BY <1>11 DEF PageFrame
<1>15. Trying(t) => Trying(t)' /\ TriesAlone(t)'
  BY <1>1, <1>7, <1>8, <1>11, <1>12, <1>13, <1>14, StillTrying DEF LocalAt
<1>16. ~Trying(t) => ~Trying(t)'
  BY <1>1, <1>11, <1>14, StillNotTrying
<1>17. page'[t].claimed \/ InFlight(t)' => keys[t].key # None
  BY <1>1, <1>7, <1>11, <1>12, <1>14 DEF LocalAt, InFlight
<1> QED
  BY <1>0, <1>1, <1>2, <1>11, <1>15, <1>16, <1>17, QuietPage

(* createRoom: the key is new, and nobody else has it.                      *)
LEMMA PageFields ==
    ASSUME NEW p \in PageType, NEW b \in BOOLEAN, NEW d \in BOOLEAN,
           NEW c \in Tabs \cup {None}
    PROVE  /\ [p EXCEPT !.creating = b] \in PageType
           /\ [p EXCEPT !.creating = b].creating = b
           /\ [p EXCEPT !.creating = b].claimed = p.claimed
           /\ [p EXCEPT !.chat = c, !.creating = b] \in PageType
           /\ [p EXCEPT !.waits = b, !.chat = c] \in PageType
           /\ [p EXCEPT !.waits = b, !.chat = c].claimed = p.claimed
           /\ [p EXCEPT !.creating = b, !.claimed = TRUE, !.roomInbox = c,
                        !.inboxClaimed = d] \in PageType
BY DEF PageType

LEMMA OnePage ==
    ASSUME page \in [Tabs -> PageType], NEW t \in Tabs, NEW q \in PageType,
           page' = [page EXCEPT ![t] = q]
    PROVE  /\ page' \in [Tabs -> PageType] /\ page'[t] = q
           /\ \A x \in Tabs \ {t} : page'[x] = page[x]
OBVIOUS

LEMMA KeyMade ==
    ASSUME Types, OneKeyHeld, NEW w \in Worlds, Sound(w), NEW t \in Tabs, PageFrame(t),
           NEW new \in KeyPair, TakeKeys(t, new), new.key = t,
           WillCreate(t), ~Trying(t), Trying(t)', ~WillCreate(t)'
    PROVE  OneKeyHeld'
<1>1. /\ keys'[t] = new /\ \A x \in Tabs \ {t} : keys'[x] = keys[x]
      /\ stored'[browserOf[t]] = new
      /\ \A b \in Browsers \ {browserOf[t]} : stored'[b] = stored[b]
  BY TookKeys
<1>2. /\ (Registered' <=> Registered) /\ OthersKept(w, t)
      /\ \A k : Wrapping(k)' => Wrapping(k)
  BY PageFrameKeeps
<1>3. browserOf' = browserOf
  BY DEF PageFrame
<1>4. ~HeldKey(t) /\ t # None
  BY NamesAssumption DEF OneKeyHeld
<1>5. \A k : HeldKey(k)' => HeldKey(k) \/ k = t
  BY <1>1, <1>2 DEF HeldKey
<1>6. \A x \in Tabs \ {t} : (Trying(x)' <=> Trying(x)) /\ (WillCreate(x)' => WillCreate(x))
  BY <1>2 DEF OthersKept
<1>7. \A k : Accepted(k)' => Accepted(k)
  BY <1>5, <1>6 DEF Accepted
<1>8. KeptBack(t)'
  <2>1. \A x \in Tabs \ {t} : keys'[x].key # t
    BY <1>1, <1>4 DEF HeldKey
  <2>2. \A b \in Browsers \ {browserOf'[t]} : stored'[b].key # t
    BY <1>1, <1>3, <1>4 DEF HeldKey
  <2>3. ~Wrapping(t)'
    BY <1>2, <1>4 DEF HeldKey
  <2> QED
    BY <2>1, <2>2, <2>3 DEF KeptBack
<1>9. ASSUME NEW x \in Tabs \ {t}, Trying(x)' PROVE KeptBack(x)'
  <2>1. KeptBack(x)
    BY <1>6, <1>9 DEF OneKeyHeld
  <2>2. \A y \in Tabs \ {x} : keys'[y].key # x
    BY <1>1, <2>1 DEF KeptBack
  <2>3. \A b \in Browsers \ {browserOf'[x]} : stored'[b].key # x
    BY <1>1, <1>3, <2>1 DEF KeptBack
  <2>4. ~Wrapping(x)'
    BY <1>2, <2>1 DEF KeptBack
  <2> QED
    BY <2>2, <2>3, <2>4 DEF KeptBack
<1>10. \A x \in Tabs : WillCreate(x)' => ~HeldKey(x)'
  BY <1>5, <1>6 DEF OneKeyHeld
<1>11. \A k, l \in Keys : Accepted(k)' /\ Accepted(l)' => k = l
  BY <1>7 DEF OneKeyHeld
<1>12. \A k \in Keys : Accepted(k)' => Registered'
  BY <1>2, <1>7 DEF OneKeyHeld
<1> QED
  BY <1>8, <1>9, <1>10, <1>11, <1>12 DEF OneKeyHeld

LEMMA OnWelcomeStep ==
    ASSUME Inv, NEW t \in Tabs, OnWelcome(t)
    PROVE  Inv'
<1>0. PICK w \in Worlds : Sound(w)
  BY DEF Inv
<1>1. Receives(t, "welcome") /\ UNCHANGED <<linkVars, serverVars>>
  BY DEF OnWelcome
<1>2. /\ Types /\ LocalAt(w, t)
      /\ keys \in [Tabs -> KeyPair] /\ stored \in [Browsers -> KeyPair]
      /\ contested \in SUBSET Browsers
      /\ page \in [Tabs -> PageType] /\ keys[t] \in KeyPair
  BY <1>0 DEF Inv, Sound, Types
<1>3. Welcomed(down[t])
  BY <1>1 DEF Receives, Welcomed
<1>4. ~Trying(t)
  BY <1>2, <1>3 DEF LocalAt, TriesAlone
<1>5. CASE /\ keys[t].key # None
           /\ page' = [page EXCEPT ![t].creating = FALSE]
           /\ Answers(t, <<ClaimMessage(FALSE, keys[t].inbox)>>)
           /\ KeepKeys
  <2>1. PICK m : m = ClaimMessage(FALSE, keys[t].inbox)
    OBVIOUS
  <2>2. m \in Up /\ m.type = "claim" /\ m.create = FALSE /\ m.inbox = keys[t].inbox
    BY <1>2, <2>1, NewUps, PairTypes
  <2>3. /\ up' \in [Tabs -> Seq(Up)] /\ Range(up'[t]) = Range(up[t]) \cup {m}
        /\ \A x \in Tabs \ {t} : up'[x] = up[x]
    BY <1>2, <1>5, <2>1, <2>2, Answered
  <2>4. /\ page' \in [Tabs -> PageType]
        /\ \A x \in Tabs \ {t} : page'[x] = page[x]
    BY <1>2, <1>5 DEF PageType
  <2>5. /\ keys' \in [Tabs -> KeyPair] /\ stored' \in [Browsers -> KeyPair]
        /\ contested' \in SUBSET Browsers
        /\ \A x \in Tabs \ {t} : keys'[x] = keys[x] /\ page'[x] = page[x] /\ up'[x] = up[x]
    BY <1>2, <1>5, <2>3, <2>4 DEF KeepKeys
  <2>6. /\ PageFrame(t) /\ Types' /\ t \in online
        /\ Range(down'[t]) \subseteq Range(down[t])
        /\ WelcomeFirst(down'[t]) /\ ~Welcomed(down'[t]) /\ ~WillCreate(t)'
    BY <1>0, <1>1, <2>3, <2>4, <2>5, Handling
  <2>7. ClaimIn(w, m.create, m.inbox)
    BY <1>2, <1>5, <2>2 DEF LocalAt, PairIn, ClaimIn, Worlds
  <2>8. ~Trying(t)'
    BY <1>4, <2>2, <2>3, <2>6, StillNotTrying DEF PageFrame
  <2> QED
    BY <1>0, <1>4, <1>5, <2>3, <2>6, <2>7, <2>8, QuietPage
<1>6. CASE /\ keys[t].key = None /\ ~Head(down[t]).exists
           /\ TakeKeys(t, [key |-> t, inbox |-> t])
           /\ page' = [page EXCEPT ![t].creating = TRUE]
           /\ Answers(t, <<ClaimMessage(TRUE, t)>>)
  <2>1. PICK m : m = ClaimMessage(TRUE, t)
    OBVIOUS
  <2>2. m \in Up /\ m.type = "claim" /\ m.create = TRUE /\ m.inbox = t
    BY <2>1, NewUps
  <2>3. up[t] = <<>> /\ task[t] = Idle /\ ~page[t].claimed /\ NoResult(down[t])
    BY <1>2, <1>3, <1>6 DEF LocalAt, InFlight
  <2>4. /\ up' \in [Tabs -> Seq(Up)] /\ Range(up'[t]) = Range(up[t]) \cup {m}
        /\ up'[t] = <<m>> /\ \A x \in Tabs \ {t} : up'[x] = up[x]
    BY <1>2, <1>6, <2>1, <2>2, <2>3, Answered
  <2>5. PICK new : new = [key |-> t, inbox |-> t]
    OBVIOUS
  <2>6. new \in KeyPair /\ new.key = t /\ new.inbox = t /\ TakeKeys(t, new)
    BY <1>6, <2>5, PairTypes DEF Keys
  <2>7. /\ page' \in [Tabs -> PageType]
        /\ page'[t].creating /\ page'[t].claimed = page[t].claimed
        /\ \A x \in Tabs \ {t} : page'[x] = page[x]
    <3>1. PICK q : q = [page[t] EXCEPT !.creating = TRUE]
      OBVIOUS
    <3>2. page[t] \in PageType /\ TRUE \in BOOLEAN /\ page \in [Tabs -> PageType]
      BY <1>2
    <3>3. q \in PageType /\ q.creating /\ q.claimed = page[t].claimed
      <4>1. q.creating = TRUE /\ q \in PageType /\ q.claimed = page[t].claimed
        BY <3>1, <3>2, PageFields
      <4> QED
        BY <4>1
    <3>4. page' = [page EXCEPT ![t] = q]
      BY <1>6, <3>1
    <3> QED
      BY <3>2, <3>3, <3>4, OnePage
  <2>8. /\ keys' \in [Tabs -> KeyPair] /\ keys'[t] = new
        /\ stored' \in [Browsers -> KeyPair] /\ contested' \in SUBSET Browsers
        /\ \A x \in Tabs \ {t} : keys'[x] = keys[x] /\ page'[x] = page[x] /\ up'[x] = up[x]
    BY <1>2, <2>4, <2>6, <2>7, TookKeys
  <2>9. /\ PageFrame(t) /\ Types' /\ t \in online /\ AnswerIn(w, Head(down[t]))
        /\ Head(down[t]).type = "welcome"
        /\ WelcomeFirst(down'[t]) /\ ~Welcomed(down'[t]) /\ ~WillCreate(t)'
    BY <1>0, <1>1, <2>4, <2>7, <2>8, Handling
  <2>10. NoResult(down'[t])
    BY <2>3, <2>9 DEF NoResult, PageFrame
  <2>11. w = "new" /\ t # OldKey /\ t # None
    BY <1>6, <2>9, NamesAssumption DEF AnswerIn, Worlds
  <2>12. PairIn(w, new) /\ ClaimIn(w, m.create, m.inbox)
    BY <2>2, <2>6, <2>11 DEF PairIn, ClaimIn
  <2>13. TriesAlone(t)'
    BY <2>1, <2>3, <2>4, <2>5, <2>7, <2>8, <2>9, <2>10 DEF TriesAlone, PageFrame
  <2>14. Trying(t)'
    BY <2>2, <2>4 DEF Trying
  <2>15. WillCreate(t)
    BY <1>3, <1>6 DEF WillCreate
  <2>16. ~unconfirmed => OneKeyHeld'
    BY <1>0, <1>2, <1>4, <2>6, <2>9, <2>14, <2>15, KeyMade DEF Inv
  <2> QED
    BY <1>0, <2>4, <2>6, <2>9, <2>11, <2>12, <2>13, <2>16, KeyPage
<1>7. CASE /\ keys[t].key = None
           /\ Answers(t, <<JoinRequest>>)
           /\ KeepKeys /\ UNCHANGED page
  <2>1. PICK m : m = JoinRequest
    OBVIOUS
  <2>2. m \in Up /\ m.type = "join-request"
    BY <2>1, NewUps
  <2>3. /\ up' \in [Tabs -> Seq(Up)] /\ Range(up'[t]) = Range(up[t]) \cup {m}
        /\ \A x \in Tabs \ {t} : up'[x] = up[x]
    BY <1>2, <1>7, <2>1, <2>2, Answered
  <2>4. /\ keys' \in [Tabs -> KeyPair] /\ stored' \in [Browsers -> KeyPair]
        /\ contested' \in SUBSET Browsers /\ page' \in [Tabs -> PageType]
        /\ \A x \in Tabs \ {t} : keys'[x] = keys[x] /\ page'[x] = page[x] /\ up'[x] = up[x]
    BY <1>2, <1>7, <2>3 DEF KeepKeys
  <2>5. /\ PageFrame(t) /\ Types' /\ t \in online
        /\ Range(down'[t]) \subseteq Range(down[t])
        /\ WelcomeFirst(down'[t]) /\ ~Welcomed(down'[t]) /\ ~WillCreate(t)'
    BY <1>0, <1>1, <2>3, <2>4, Handling
  <2>6. ~Trying(t)'
    BY <1>4, <2>2, <2>3, <2>5, StillNotTrying DEF PageFrame
  <2>7. ~page[t].claimed /\ ~InFlight(t)
    BY <1>2, <1>7 DEF LocalAt
  <2>8. ~InFlight(t)'
    BY <2>2, <2>3, <2>5, <2>7 DEF InFlight, NoResult, PageFrame
  <2> QED
    BY <1>0, <1>4, <1>7, <2>2, <2>3, <2>5, <2>6, <2>7, <2>8, QuietPage
<1> QED
  BY <1>5, <1>6, <1>7 DEF OnWelcome

(* The answer to a claim: the keys of a room that was not created are gone; *)
(* a member of a room without an inbox key registers one.                   *)
LEMMA RefusedStep ==
    ASSUME Inv, NEW t \in Tabs, Receives(t, "claim-result"), ~Head(down[t]).ok,
           OnRefusal(t), page' = [page EXCEPT ![t].creating = FALSE],
           UNCHANGED <<linkVars, serverVars>>
    PROVE  Inv'
<1>0. PICK w \in Worlds : Sound(w)
  BY DEF Inv
<1>1. /\ Types /\ LocalAt(w, t)
      /\ keys \in [Tabs -> KeyPair] /\ stored \in [Browsers -> KeyPair]
      /\ contested \in SUBSET Browsers /\ page \in [Tabs -> PageType]
  BY <1>0 DEF Inv, Sound, Types
<1>2. PICK m : m = JoinRequest
  OBVIOUS
<1>3. m \in Up /\ m.type = "join-request"
  BY <1>2, NewUps
<1>4. /\ up' \in [Tabs -> Seq(Up)] /\ Range(up'[t]) = Range(up[t]) \cup {m}
      /\ \A x \in Tabs \ {t} : up'[x] = up[x]
  BY <1>1, <1>2, <1>3, Answered DEF OnRefusal
<1>5. /\ page' \in [Tabs -> PageType] /\ page'[t].claimed = page[t].claimed
      /\ \A x \in Tabs \ {t} : page'[x] = page[x]
  BY <1>1 DEF PageType
<1>6. NoKeys \in KeyPair /\ NoKeys.key = None /\ TakeKeys(t, NoKeys)
  BY PairTypes DEF OnRefusal
<1>7. /\ keys' \in [Tabs -> KeyPair]
      /\ stored' \in [Browsers -> KeyPair] /\ contested' \in SUBSET Browsers
      /\ \A x \in Tabs \ {t} : keys'[x] = keys[x] /\ page'[x] = page[x] /\ up'[x] = up[x]
  BY <1>1, <1>4, <1>5, <1>6, TookKeys
<1>8. /\ PageFrame(t) /\ Types' /\ t \in online
      /\ Head(down[t]).type = "claim-result" /\ down[t] \in Seq(Down) /\ down[t] # <<>>
      /\ WelcomeFirst(down'[t]) /\ ~Welcomed(down'[t]) /\ ~WillCreate(t)'
  BY <1>0, <1>4, <1>5, <1>7, Handling
<1>9. OneRefusal(down[t]) => NoResult(down'[t])
  BY <1>0, <1>4, <1>5, <1>7, Handling
<1>10. Head(down[t]) \in Range(down[t])
  BY <1>8, Taken
<1>11. Trying(t) /\ ~NoResult(down[t])
  BY <1>8, <1>10 DEF Trying, NoResult
<1>12. TriesAlone(t)
  BY <1>1, <1>11 DEF LocalAt
<1>13. up[t] = <<>> /\ task[t] = Idle /\ OneRefusal(down[t]) /\ ~page[t].claimed
  BY <1>11, <1>12 DEF TriesAlone
<1>14. Range(up'[t]) = {m} /\ task'[t].step = "idle" /\ NoResult(down'[t])
  BY <1>4, <1>8, <1>9, <1>13, EmptyQueue, NewTasks DEF PageFrame
<1>15. ~InFlight(t)' /\ ~Trying(t)'
  BY <1>3, <1>14 DEF InFlight, Trying, NoResult
<1>16. PairIn(w, NoKeys)
  BY PairTypes, NamesAssumption DEF PairIn
<1>17. ~unconfirmed => OneKeyHeld'
  BY <1>0, <1>1, <1>6, <1>8, <1>15, KeyMoved DEF Inv
<1> QED
  BY <1>0, <1>3, <1>5, <1>6, <1>8, <1>13, <1>14, <1>15, <1>16, <1>17, KeyPage

LEMMA PageConfirmed ==
    ASSUME page \in [Tabs -> PageType], NEW t \in Tabs,
           NEW i \in Tabs \cup {None}, NEW register \in BOOLEAN,
           page' = [page EXCEPT ![t] = [@ EXCEPT
                      !.creating = FALSE, !.claimed = TRUE, !.roomInbox = i,
                      !.inboxClaimed = page[t].inboxClaimed \/ register]]
    PROVE  page' \in [Tabs -> PageType]
<1>1. PICK d \in BOOLEAN : d = (page[t].inboxClaimed \/ register)
  OBVIOUS
<1>2. PICK q : q = [page[t] EXCEPT !.creating = FALSE, !.claimed = TRUE, !.roomInbox = i,
                                   !.inboxClaimed = d]
  OBVIOUS
<1>3. page[t] \in PageType /\ FALSE \in BOOLEAN
  OBVIOUS
<1>4. q \in PageType
  BY <1>2, <1>3, PageFields
<1>5. page' = [page EXCEPT ![t] = q]
  BY <1>1, <1>2
<1> QED
  BY <1>4, <1>5, OnePage

LEMMA ConfirmedStep ==
    ASSUME Inv, NEW t \in Tabs, Receives(t, "claim-result"),
           NEW m, m = Head(down[t]), m.ok, NEW register \in BOOLEAN,
           NEW i \in Tabs \cup {None}, i = m.inbox, register => i = None,
           NEW inbox \in Tabs,
           page' = [page EXCEPT ![t] = [@ EXCEPT
                      !.creating = FALSE, !.claimed = TRUE, !.roomInbox = i,
                      !.inboxClaimed = page[t].inboxClaimed \/ register]],
           IF register
           THEN /\ TakeKeys(t, [keys[t] EXCEPT !.inbox = inbox])
                /\ Answers(t, <<ClaimMessage(FALSE, inbox)>>)
           ELSE KeepKeys /\ UNCHANGED up,
           UNCHANGED <<linkVars, serverVars>>
    PROVE  Inv'
<1>0. PICK w \in Worlds : Sound(w)
  BY DEF Inv
<1>1. /\ Types /\ LocalAt(w, t) /\ WelcomeFirst(down[t])
      /\ keys \in [Tabs -> KeyPair] /\ stored \in [Browsers -> KeyPair]
      /\ contested \in SUBSET Browsers /\ page \in [Tabs -> PageType]
      /\ up \in [Tabs -> Seq(Up)] /\ down[t] \in Seq(Down)
  BY <1>0 DEF Inv, Sound, Types, LocalAt
<1>2. /\ m \in Down /\ m.type = "claim-result" /\ m \in Range(down[t]) /\ down[t] # <<>>
  BY <1>1, Received
<1>3. AnswerIn(w, m)
  BY <1>1, <1>2 DEF LocalAt
<1>4. ~NoResult(down[t])
  BY <1>2 DEF NoResult
<1>5. ~Trying(t)
  BY <1>1, <1>2, <1>4, AnswerRefused DEF LocalAt, TriesAlone
<1>6. keys[t].key # None
  BY <1>1, <1>4 DEF LocalAt, InFlight
<1>7. /\ page' \in [Tabs -> PageType]
      /\ \A x \in Tabs \ {t} : page'[x] = page[x]
  <2>1. page' \in [Tabs -> PageType]
    BY <1>1, PageConfirmed
  <2>2. \A x \in Tabs \ {t} : page'[x] = page[x]
    BY <1>1
  <2> QED
    BY <2>1, <2>2
<1>8. CASE register
  <2>1. PICK n : n = ClaimMessage(FALSE, inbox)
    OBVIOUS
  <2>2. n \in Up /\ n.type = "claim" /\ n.create = FALSE /\ n.inbox = inbox
    BY <2>1, NewUps
  <2>3. /\ up' \in [Tabs -> Seq(Up)] /\ Range(up'[t]) = Range(up[t]) \cup {n}
        /\ \A x \in Tabs \ {t} : up'[x] = up[x]
    BY <1>1, <1>8, <2>1, <2>2, Answered
  <2>4. PICK new : new = [keys[t] EXCEPT !.inbox = inbox]
    OBVIOUS
  <2>5. new \in KeyPair /\ new.key = keys[t].key /\ new.inbox = inbox /\ TakeKeys(t, new)
    BY <1>1, <1>8, <2>4, PairTypes
  <2>6. /\ keys' \in [Tabs -> KeyPair]
        /\ stored' \in [Browsers -> KeyPair] /\ contested' \in SUBSET Browsers
        /\ \A x \in Tabs \ {t} : keys'[x] = keys[x] /\ page'[x] = page[x] /\ up'[x] = up[x]
    BY <1>1, <1>7, <2>3, <2>5, TookKeys
  <2>7. /\ PageFrame(t) /\ Types' /\ t \in online
        /\ Range(down'[t]) \subseteq Range(down[t])
        /\ WelcomeFirst(down'[t]) /\ ~Welcomed(down'[t]) /\ ~WillCreate(t)'
    BY <1>0, <1>7, <2>3, <2>6, Handling
  <2>8. ~Trying(t)'
    BY <1>5, <2>2, <2>3, <2>7, StillNotTrying DEF PageFrame
  <2>9. w = "old"
    BY <1>2, <1>3, <1>8 DEF AnswerIn, Worlds
  <2>10. PairIn(w, new) /\ ClaimIn(w, n.create, n.inbox)
    BY <1>1, <2>2, <2>5, <2>9 DEF LocalAt, PairIn, ClaimIn
  <2>11. ~unconfirmed => OneKeyHeld'
    <3>1. OneKeyHeld => Accepted(new.key)
      BY <1>5, <1>6, <2>5, OwnKeyAccepted
    <3> QED
      BY <1>0, <1>1, <1>5, <2>5, <2>7, <2>8, <3>1, KeyMoved DEF Inv
  <2> QED
    BY <1>0, <1>6, <2>3, <2>5, <2>7, <2>8, <2>10, <2>11, KeyPage
<1>9. CASE ~register
  <2>1. KeepKeys /\ up' = up
    BY <1>9
  <2>2. /\ keys' \in [Tabs -> KeyPair] /\ up' \in [Tabs -> Seq(Up)]
        /\ stored' \in [Browsers -> KeyPair] /\ contested' \in SUBSET Browsers
        /\ \A x \in Tabs \ {t} : keys'[x] = keys[x] /\ page'[x] = page[x] /\ up'[x] = up[x]
    BY <1>1, <1>7, <2>1 DEF KeepKeys
  <2>3. /\ PageFrame(t) /\ Types' /\ t \in online
        /\ Range(down'[t]) \subseteq Range(down[t])
        /\ WelcomeFirst(down'[t]) /\ ~Welcomed(down'[t]) /\ ~WillCreate(t)'
    BY <1>0, <1>7, <2>2, Handling
  <2>4. ~Trying(t)'
    BY <1>5, <2>1, <2>3, StillNotTrying DEF PageFrame
  <2> QED
    BY <1>0, <1>5, <1>6, <2>1, <2>3, <2>4, QuietPage
<1> QED
  BY <1>8, <1>9

LEMMA OnClaimResultStep ==
    ASSUME Inv, NEW t \in Tabs, OnClaimResult(t)
    PROVE  Inv'
<1>1. Receives(t, "claim-result") /\ UNCHANGED <<linkVars, serverVars>>
  BY DEF OnClaimResult
<1>2. PICK m : m = Head(down[t])
  OBVIOUS
<1>3. PICK register \in BOOLEAN : register = (m.inbox = None /\ ~page[t].inboxClaimed)
  OBVIOUS
<1>4. PICK inbox \in Tabs : inbox = IF keys[t].inbox = None THEN t ELSE keys[t].inbox
  <2>1. keys[t] \in KeyPair
    BY DEF Inv, Types
  <2>2. keys[t].inbox \in Tabs \cup {None}
    BY <2>1, PairTypes
  <2> QED
    BY <2>2
<1>5. PICK i \in Tabs \cup {None} : i = m.inbox
  <2>1. m \in Down /\ m.type = "claim-result"
    BY <1>1, <1>2, Received DEF Inv, Sound, LocalAt
  <2> QED
    BY <2>1, DownTypes
<1>6. CASE ~m.ok
  <2>1. OnRefusal(t) /\ page' = [page EXCEPT ![t].creating = FALSE]
    BY <1>2, <1>6 DEF OnClaimResult
  <2> QED
    BY <1>1, <1>2, <1>6, <2>1, RefusedStep
<1>7. CASE m.ok
  <2>1. page' = [page EXCEPT ![t] = [@ EXCEPT
                   !.creating = FALSE, !.claimed = TRUE, !.roomInbox = i,
                   !.inboxClaimed = page[t].inboxClaimed \/ register]]
    BY <1>2, <1>3, <1>5, <1>7 DEF OnClaimResult
  <2>2. IF register
        THEN /\ TakeKeys(t, [keys[t] EXCEPT !.inbox = inbox])
             /\ Answers(t, <<ClaimMessage(FALSE, inbox)>>)
        ELSE KeepKeys /\ UNCHANGED up
    BY <1>2, <1>3, <1>4, <1>7 DEF OnClaimResult
  <2> QED
    BY <1>1, <1>2, <1>3, <1>5, <1>7, <2>1, <2>2, ConfirmedStep
<1> QED
  BY <1>6, <1>7

LEMMA OnJoinStatusStep ==
    ASSUME Inv, NEW t \in Tabs, OnJoinStatus(t)
    PROVE  Inv'
<1>0. PICK w \in Worlds : Sound(w)
  BY DEF Inv
<1>1. Receives(t, "join-status") /\ UNCHANGED <<linkVars, serverVars>>
  BY DEF OnJoinStatus
<1>2. /\ Types /\ LocalAt(w, t) /\ WelcomeFirst(down[t])
      /\ keys \in [Tabs -> KeyPair] /\ stored \in [Browsers -> KeyPair]
      /\ contested \in SUBSET Browsers /\ page \in [Tabs -> PageType]
      /\ up \in [Tabs -> Seq(Up)] /\ keys[t] \in KeyPair /\ down[t] \in Seq(Down)
  BY <1>0 DEF Inv, Sound, Types, LocalAt
<1>3. PICK m : m = Head(down[t])
  OBVIOUS
<1>4. m \in Down /\ m.type = "join-status" /\ m \in Range(down[t])
  BY <1>1, <1>2, <1>3, Received
<1>5. m.inbox \in Tabs \cup {None} /\ WrapIn(w, m.status, m.wrap)
  BY <1>2, <1>4, DownTypes DEF LocalAt, AnswerIn
<1>6. CASE keys[t].key # None /\ KeepKeys /\ UNCHANGED <<page, up>>
  <2>1. /\ keys' \in [Tabs -> KeyPair] /\ up' \in [Tabs -> Seq(Up)]
        /\ page' \in [Tabs -> PageType]
        /\ stored' \in [Browsers -> KeyPair] /\ contested' \in SUBSET Browsers
        /\ \A x \in Tabs \ {t} : keys'[x] = keys[x] /\ page'[x] = page[x] /\ up'[x] = up[x]
    BY <1>2, <1>6 DEF KeepKeys
  <2>2. /\ PageFrame(t) /\ Types' /\ t \in online /\ down'[t] \in Seq(Down)
        /\ Range(down'[t]) \subseteq Range(down[t])
        /\ WelcomeFirst(down'[t]) /\ ~Welcomed(down'[t]) /\ ~WillCreate(t)'
    BY <1>0, <1>1, <2>1, Handling
  <2>3. NoResult(down[t]) <=> NoResult(down'[t])
    BY SMTT(30), <1>0, <1>1, <2>1, Handling
  <2>4. OneRefusal(down[t]) => OneRefusal(down'[t])
    BY SMTT(30), <1>0, <1>1, <2>1, Handling
  <2>5. Trying(t) => Trying(t)' /\ TriesAlone(t)'
    BY <1>2, <1>6, <2>2, <2>3, <2>4, StillTrying DEF LocalAt, KeepKeys, PageFrame
  <2>6. ~Trying(t) => ~Trying(t)'
    BY <1>6, <2>2, StillNotTrying DEF PageFrame
  <2> QED
    BY <1>0, <1>6, <2>2, <2>5, <2>6, QuietPage
<1>7. keys[t].key = None => ~Trying(t) /\ ~InFlight(t) /\ ~page[t].claimed
  <2>1. TriesAlone(t) => keys[t].key = t
    BY DEF TriesAlone
  <2> QED
    BY <1>2, <2>1, NamesAssumption DEF LocalAt
<1>8. CASE /\ keys[t].key = None /\ m.status = "pending"
           /\ page' = [page EXCEPT ![t].waits = TRUE, ![t].chat = Chat(t, TRUE, m.inbox)]
           /\ KeepKeys /\ UNCHANGED up
  <2>1. PICK c \in Tabs \cup {None} : c = Chat(t, TRUE, m.inbox)
    BY <1>2, <1>5 DEF Chat, PageType
  <2>2. page' = [page EXCEPT ![t].waits = TRUE, ![t].chat = c]
    BY <1>8, <2>1
  <2>3. page' \in [Tabs -> PageType] /\ page'[t].claimed = page[t].claimed
    <3>1. PICK q : q = [page[t] EXCEPT !.waits = TRUE, !.chat = c]
      OBVIOUS
    <3>2. page[t] \in PageType /\ TRUE \in BOOLEAN
      BY <1>2
    <3>3. q \in PageType /\ q.claimed = page[t].claimed
      BY <3>1, <3>2, PageFields
    <3>4. page' = [page EXCEPT ![t] = q]
      BY <2>2, <3>1
    <3> QED
      BY <1>2, <3>3, <3>4, OnePage
  <2>4. /\ keys' \in [Tabs -> KeyPair] /\ up' \in [Tabs -> Seq(Up)]
        /\ stored' \in [Browsers -> KeyPair] /\ contested' \in SUBSET Browsers
        /\ \A x \in Tabs \ {t} : keys'[x] = keys[x] /\ page'[x] = page[x] /\ up'[x] = up[x]
    BY <1>2, <1>8, <2>2 DEF KeepKeys
  <2>5. /\ PageFrame(t) /\ Types' /\ t \in online
        /\ Range(down'[t]) \subseteq Range(down[t])
        /\ WelcomeFirst(down'[t]) /\ ~Welcomed(down'[t]) /\ ~WillCreate(t)'
    BY <1>0, <1>1, <2>3, <2>4, Handling
  <2>6. ~Trying(t)' /\ ~InFlight(t)'
    BY <1>7, <1>8, <2>5, StillNotTrying DEF PageFrame, InFlight, NoResult
  <2> QED
    BY <1>0, <1>7, <1>8, <2>3, <2>5, <2>6, QuietPage
<1>9. CASE /\ keys[t].key = None /\ m.status = "approved"
           /\ TakeKeys(t, m.wrap)
           /\ page' = [page EXCEPT ![t].chat = None, ![t].creating = FALSE]
           /\ Answers(t, <<[type |-> "join-done"], ClaimMessage(FALSE, m.wrap.inbox)>>)
  <2>1. PICK new : new = m.wrap
    OBVIOUS
  <2>2. /\ new # None /\ new \in KeyPair /\ new.key # None /\ PairIn(w, new)
        /\ TakeKeys(t, new)
    BY <1>5, <1>9, <2>1 DEF WrapIn
  <2>3. PICK d : d = [type |-> "join-done"]
    OBVIOUS
  <2>4. PICK n : n = ClaimMessage(FALSE, new.inbox)
    OBVIOUS
  <2>5. /\ d \in Up /\ d.type = "join-done"
        /\ n \in Up /\ n.type = "claim" /\ n.create = FALSE /\ n.inbox = new.inbox
    BY <2>2, <2>3, <2>4, NewUps, PairTypes
  <2>6. /\ up' \in [Tabs -> Seq(Up)] /\ Range(up'[t]) = Range(up[t]) \cup {d, n}
        /\ \A x \in Tabs \ {t} : up'[x] = up[x]
    BY <1>2, <1>9, <2>1, <2>3, <2>4, <2>5, AnsweredTwice
  <2>7. page' \in [Tabs -> PageType] /\ \A x \in Tabs \ {t} : page'[x] = page[x]
    <3>1. page' = [page EXCEPT ![t].chat = None, ![t].creating = FALSE]
      BY <1>9
    <3>2. page' \in [Tabs -> PageType]
      <4>1. PICK q : q = [page[t] EXCEPT !.chat = None, !.creating = FALSE]
        OBVIOUS
      <4>2. q \in PageType
        <5>1. page[t] \in PageType /\ FALSE \in BOOLEAN /\ None \in Tabs \cup {None}
          BY <1>2
        <5> QED
          BY <4>1, <5>1, PageFields
      <4>3. page' = [page EXCEPT ![t] = q]
        BY <3>1, <4>1
      <4> QED
        BY <1>2, <4>2, <4>3, OnePage
    <3> QED
      BY <1>2, <3>1, <3>2
  <2>8. /\ keys' \in [Tabs -> KeyPair]
        /\ stored' \in [Browsers -> KeyPair] /\ contested' \in SUBSET Browsers
        /\ \A x \in Tabs \ {t} : keys'[x] = keys[x] /\ page'[x] = page[x] /\ up'[x] = up[x]
    BY <1>2, <2>2, <2>6, <2>7, TookKeys
  <2>9. /\ PageFrame(t) /\ Types' /\ t \in online
        /\ Range(down'[t]) \subseteq Range(down[t])
        /\ WelcomeFirst(down'[t]) /\ ~Welcomed(down'[t]) /\ ~WillCreate(t)'
    BY <1>0, <1>1, <2>6, <2>7, <2>8, Handling
  <2>10. ~Trying(t) /\ ~Trying(t)'
    BY <1>7, <1>9, <2>5, <2>6, <2>9, StillNotTrying DEF PageFrame
  <2>11. ClaimIn(w, n.create, n.inbox)
    BY <2>2, <2>5 DEF PairIn, ClaimIn, Worlds
  <2>12. Wrapping(new.key)
    BY <1>4, <2>1, <2>2 DEF Wrapping, InQueues, WrapOf
  <2>13. ~unconfirmed => OneKeyHeld'
    <3>1. OneKeyHeld => Accepted(new.key)
      BY <2>2, <2>12, WrappedKeyAccepted
    <3> QED
      BY <1>0, <1>2, <2>2, <2>9, <2>10, <3>1, KeyMoved DEF Inv
  <2> QED
    BY <1>0, <2>2, <2>5, <2>6, <2>9, <2>10, <2>11, <2>13, KeyPage
<1> QED
  BY <1>3, <1>6, <1>8, <1>9 DEF OnJoinStatus

LEMMA HelloStep ==
    ASSUME Inv, NEW s \in Tabs, NEW t \in Tabs, Hello(s, t)
    PROVE  Inv'
<1>0. PICK w \in Worlds : Sound(w)
  BY DEF Inv
<1>1. /\ s # t /\ s \in online /\ t \in online
      /\ keys[s].key # None /\ keys[s].key = keys[t].key
      /\ greeted' = greeted \cup {<<s, t>>}
      /\ early' \in {early, early \cup {<<s, t>>}}
      /\ UNCHANGED storeVars
      /\ UNCHANGED <<browserOf, online, unconfirmed, drops, reqID, task, down>>
  BY DEF Hello, serverVars, storeVars
<1>2. /\ Types /\ LocalAt(w, t) /\ LocalAt(w, s) /\ WelcomeFirst(down[t])
      /\ keys \in [Tabs -> KeyPair] /\ stored \in [Browsers -> KeyPair]
      /\ contested \in SUBSET Browsers /\ page \in [Tabs -> PageType]
      /\ up \in [Tabs -> Seq(Up)] /\ keys[t] \in KeyPair /\ keys[s] \in KeyPair
  BY <1>0 DEF Inv, Sound, Types, LocalAt
<1>3. ASSUME keys' \in [Tabs -> KeyPair], page' \in [Tabs -> PageType],
             up' \in [Tabs -> Seq(Up)],
             \A x \in Tabs \ {t} : keys'[x] = keys[x] /\ page'[x] = page[x] /\ up'[x] = up[x],
             stored' \in [Browsers -> KeyPair], contested' \in SUBSET Browsers
      PROVE  /\ PageFrame(t) /\ Types' /\ Range(down'[t]) \subseteq Range(down[t])
             /\ WelcomeFirst(down'[t]) /\ (WillCreate(t)' => WillCreate(t))
  <2>1. PageFrame(t)
    BY <1>1, <1>3 DEF PageFrame
  <2>2. early' \subseteq greeted' /\ greeted' \subseteq online \X online
    BY <1>1, <1>2 DEF Types
  <2>3. Types'
    BY <1>1, <1>2, <1>3, <2>2 DEF Types
  <2> QED
    BY <1>1, <1>2, <2>1, <2>3 DEF WillCreate
<1>4. PICK inbox : inbox = InboxOf(s)
  OBVIOUS
<1>5. CASE inbox # None /\ inbox = page[t].roomInbox /\ ~InboxOK(t)
  <2>1. /\ TakeKeys(t, [keys[t] EXCEPT !.inbox = inbox])
        /\ Answers(t, <<ClaimMessage(FALSE, inbox)>>)
        /\ page' = [page EXCEPT ![t].creating = FALSE]
    BY <1>4, <1>5 DEF Hello
  <2>2. inbox = keys[s].inbox /\ inbox \in Tabs
    BY <1>2, <1>4, <1>5, PairTypes DEF InboxOf
  <2>3. PICK new : new = [keys[t] EXCEPT !.inbox = inbox]
    OBVIOUS
  <2>4. new \in KeyPair /\ new.key = keys[t].key /\ new.inbox = inbox /\ TakeKeys(t, new)
    BY <1>2, <2>1, <2>2, <2>3, PairTypes
  <2>5. PICK n : n = ClaimMessage(FALSE, inbox)
    OBVIOUS
  <2>6. n \in Up /\ n.type = "claim" /\ n.create = FALSE /\ n.inbox = inbox
    BY <2>2, <2>5, NewUps
  <2>7. /\ up' \in [Tabs -> Seq(Up)] /\ Range(up'[t]) = Range(up[t]) \cup {n}
        /\ \A x \in Tabs \ {t} : up'[x] = up[x]
    BY <1>2, <2>1, <2>5, <2>6, Answered
  <2>8. page' \in [Tabs -> PageType] /\ \A x \in Tabs \ {t} : page'[x] = page[x]
    <3>1. [page[t] EXCEPT !.creating = FALSE] \in PageType
      BY <1>2 DEF PageType
    <3>2. page' = [page EXCEPT ![t] = [page[t] EXCEPT !.creating = FALSE]]
      BY <2>1
    <3> QED
      BY <1>2, <3>1, <3>2
  <2>9. /\ keys' \in [Tabs -> KeyPair]
        /\ stored' \in [Browsers -> KeyPair] /\ contested' \in SUBSET Browsers
        /\ \A x \in Tabs \ {t} : keys'[x] = keys[x] /\ page'[x] = page[x] /\ up'[x] = up[x]
    BY <1>2, <2>4, <2>7, <2>8, TookKeys
  <2>10. /\ PageFrame(t) /\ Types' /\ Range(down'[t]) \subseteq Range(down[t])
         /\ WelcomeFirst(down'[t]) /\ (WillCreate(t)' => WillCreate(t))
    BY <1>3, <2>7, <2>8, <2>9
  <2>11. w = "new" => inbox = keys[t].key
    BY <1>1, <1>2, <1>5, <2>2 DEF LocalAt, PairIn
  <2>12. ~Trying(t)
    <3> SUFFICES ASSUME Trying(t) PROVE FALSE
      OBVIOUS
    <3>1. keys[t] = [key |-> t, inbox |-> t]
      BY <1>2 DEF LocalAt, TriesAlone
    <3>2. w = "new"
      BY <1>2, <3>1, NamesAssumption DEF LocalAt, PairIn, Worlds
    <3> QED
      BY <1>5, <2>11, <3>1, <3>2 DEF InboxOK
  <2>13. ~Trying(t)'
    BY <1>1, <2>6, <2>7, <2>10, <2>12, StillNotTrying
  <2>14. PairIn(w, new) /\ ClaimIn(w, n.create, n.inbox)
    BY <1>2, <1>5, <2>4, <2>6, <2>11 DEF LocalAt, PairIn, ClaimIn
  <2>15. ~unconfirmed => OneKeyHeld'
    <3>1. OneKeyHeld => Accepted(new.key)
      BY <1>1, <2>4, <2>12, OwnKeyAccepted
    <3> QED
      BY <1>0, <1>2, <2>4, <2>10, <2>12, <2>13, <3>1, KeyMoved DEF Inv
  <2> QED
    BY <1>0, <1>1, <2>4, <2>7, <2>10, <2>13, <2>14, <2>15, KeyPage
<1>6. CASE ~(inbox # None /\ inbox = page[t].roomInbox /\ ~InboxOK(t))
  <2>1. KeepKeys /\ UNCHANGED <<page, up>>
    BY <1>4, <1>6 DEF Hello
  <2>2. /\ PageFrame(t) /\ Types' /\ Range(down'[t]) \subseteq Range(down[t])
        /\ WelcomeFirst(down'[t]) /\ (WillCreate(t)' => WillCreate(t))
    BY <1>2, <1>3, <2>1 DEF KeepKeys
  <2>3. Trying(t)' <=> Trying(t)
    BY <1>1, <2>1 DEF Trying
  <2>4. Trying(t)' => TriesAlone(t)'
    <3>1. TriesAlone(t) => TriesAlone(t)'
      BY <1>1, <2>1 DEF TriesAlone, KeepKeys
    <3> QED
      BY <1>2, <2>3, <3>1 DEF LocalAt
  <2> QED
    BY <1>0, <1>1, <2>1, <2>2, <2>3, <2>4, QuietPage
<1> QED
  BY <1>5, <1>6

-----------------------------------------------------------------------------
(* The invariant.                                                           *)

LEMMA InitInv ==
    ASSUME Init
    PROVE  Inv
<1>1. /\ browserOf \in [Tabs -> Browsers]
      /\ keys = [t \in Tabs |-> stored[browserOf[t]]]
      /\ page = [t \in Tabs |-> NewPage]
      /\ online = {} /\ reqID = [t \in Tabs |-> None]
      /\ task = [t \in Tabs |-> Idle]
      /\ up = [t \in Tabs |-> <<>>] /\ down = [t \in Tabs |-> <<>>]
      /\ greeted = {} /\ early = {} /\ contested = {} /\ drops = 0
  BY DEF Init
<1>2. \A t \in Tabs :
        /\ up[t] = <<>> /\ down[t] = <<>> /\ task[t] = Idle /\ task[t].step = "idle"
        /\ reqID[t] = None /\ ~page[t].claimed
  BY <1>1, NewTasks, PageTypes
<1>3. \A t \in Tabs :
        /\ Range(up[t]) = {} /\ Range(down[t]) = {}
        /\ NoResult(down[t]) /\ WelcomeFirst(down[t]) /\ ~Welcomed(down[t])
  BY <1>2, EmptyQueue
<1>4. \A t \in Tabs : ~Trying(t) /\ ~InFlight(t) /\ ~WillCreate(t)
  BY <1>2, <1>3 DEF Trying, InFlight, WillCreate
<1>5. ASSUME NEW w \in Worlds, StoreAt(w), StoredIn(w), stored \in [Browsers -> KeyPair],
             \A b \in Browsers : stored[b].key \in {None, OldKey} /\ stored[b].inbox = None,
             Registered => \A b \in Browsers : Req(b) = None,
             (\E b \in Browsers : stored[b].key # None) => Registered
      PROVE  Inv
  <2>1. /\ keys \in [Tabs -> KeyPair]
        /\ \A t \in Tabs : keys[t] = stored[browserOf[t]] /\ browserOf[t] \in Browsers
    BY <1>1, <1>5
  <2>2. Types
    <3>1. page \in [Tabs -> PageType] /\ task \in [Tabs -> TaskType]
      BY <1>1, PageTypes, NewTasks
    <3>2. up \in [Tabs -> Seq(Up)] /\ down \in [Tabs -> Seq(Down)]
      BY <1>1
    <3>3. reqID \in [Tabs -> Browsers \cup {None}] /\ 0 \in 0..MaxDrops
      BY <1>1, MaxDropsAssumption
    <3> QED
      BY <1>1, <1>2, <1>5, <2>1, <3>1, <3>2, <3>3 DEF Types
  <2>3. StoredToo
    BY <2>1 DEF StoredToo
  <2>4. ASSUME NEW t \in Tabs PROVE LocalAt(w, t)
    <3>1. PairIn(w, keys[t])
      BY <1>5, <2>1 DEF StoredIn
    <3>2. OfflineAt(t) /\ TaskIn(w, task[t])
      BY <1>2 DEF OfflineAt, TaskIn
    <3> QED
      BY <1>2, <1>3, <1>4, <3>1, <3>2 DEF LocalAt
  <2>5. Sound(w)
    BY <1>5, <2>4 DEF Sound
  <2>6. \A k : ~Wrapping(k)
    BY <1>2, <1>3, <1>5 DEF Wrapping, InStore, InTasks, InQueues
  <2>7. \A k : HeldKey(k) => k = OldKey /\ Registered
    BY <1>5, <2>1, <2>6 DEF HeldKey
  <2>8. OneKeyHeld
    BY <1>4, <2>7 DEF OneKeyHeld, Accepted
  <2> QED
    BY <2>2, <2>3, <2>5, <2>8 DEF Inv
<1>6. CASE rooms = Store!NoRooms /\ stored = [b \in Browsers |-> NoKeys]
  <2>1. rooms = [r \in {Room} |-> None]
    BY <1>6 DEF Store!NoRooms
  <2>2. ~Registered
    BY <2>1 DEF Registered, Store!Exists
  <2>3. \A b \in Browsers : stored[b] = NoKeys
    BY <1>6
  <2>4. PairIn("new", NoKeys)
    BY PairTypes, NamesAssumption DEF PairIn
  <2>5. StoreAt("new") /\ StoredIn("new")
    BY <2>1, <2>2, <2>3, <2>4 DEF StoreAt, StoredIn
  <2>6. stored \in [Browsers -> KeyPair]
    BY <1>6, PairTypes
  <2>7. \A b \in Browsers : stored[b].key = None /\ stored[b].inbox = None
    BY <2>3, PairTypes
  <2>8. "new" \in Worlds
    BY DEF Worlds
  <2> QED
    BY <1>5, <2>2, <2>5, <2>6, <2>7, <2>8
<1>7. CASE /\ rooms = [r \in {Room} |-> Store!NewRoom(None)]
           /\ \E holders \in (SUBSET Browsers) \ {{}} :
                stored = [b \in Browsers |->
                           [NoKeys EXCEPT !.key = IF b \in holders THEN OldKey ELSE None]]
  <2>1. Store!NewRoom(None) \in Store!Room /\ Store!NewRoom(None).requests = [p \in Browsers |-> None]
    BY DEF Store!NewRoom, Store!Room, Store!NoRequests
  <2>2. rooms \in [{Room} -> Store!Room \cup {None}] /\ Registered
    BY <1>7, <2>1, NoneAssumption DEF Registered, Store!Exists
  <2>3. \A b \in Browsers : Req(b) = None
    BY <1>7, <2>1 DEF Req
  <2>4. PICK holders : stored = [b \in Browsers |->
                         [NoKeys EXCEPT !.key = IF b \in holders THEN OldKey ELSE None]]
    BY <1>7
  <2>5. \A k \in {None, OldKey} : /\ [NoKeys EXCEPT !.key = k] \in KeyPair
                                  /\ [NoKeys EXCEPT !.key = k].key = k
                                  /\ [NoKeys EXCEPT !.key = k].inbox = None
    BY DEF NoKeys, KeyPair, Keys
  <2>6. \A b \in Browsers : \E k \in {None, OldKey} : stored[b] = [NoKeys EXCEPT !.key = k]
    BY <2>4
  <2>7. \A b \in Browsers : /\ stored[b] \in KeyPair /\ stored[b].key \in {None, OldKey}
                            /\ stored[b].inbox = None
    BY <2>5, <2>6
  <2>8. stored \in [Browsers -> KeyPair]
    BY <2>4, <2>7
  <2>9. StoreAt("old") /\ StoredIn("old")
    BY <2>2, <2>3, <2>7 DEF StoreAt, StoredIn, PairIn
  <2>10. "old" \in Worlds
    BY DEF Worlds
  <2> QED
    BY <1>5, <2>2, <2>3, <2>7, <2>8, <2>9, <2>10
<1> QED
  BY <1>6, <1>7 DEF Init

(* Nothing happens.                                                         *)
LEMMA StutterInv ==
    ASSUME Inv, UNCHANGED vars
    PROVE  Inv'
<1>1. /\ UNCHANGED storeVars /\ UNCHANGED <<browserOf, stored, keys, page, online>>
      /\ UNCHANGED <<reqID, task, up, down, greeted, early, unconfirmed, contested, drops>>
  BY DEF vars, storeVars
<1>2. PICK w \in Worlds : Sound(w)
  BY DEF Inv
<1>3. /\ StoreAt(w)' /\ (Registered' <=> Registered)
      /\ \A k : InStore(k)' <=> InStore(k)
  BY <1>1, <1>2, UnchangedStore DEF Sound
<1>4. Types' /\ StoredToo'
  BY <1>1 DEF Inv, Types, StoredToo
<1>5. PICK m : m = [type |-> "join-requests", inbox |-> None]
  OBVIOUS
<1>6. m \in Down /\ m.type = "join-requests"
  BY <1>5, NewDowns
<1>7. AnswerIn(w, m)'
  BY <1>6 DEF AnswerIn
<1>8. ASSUME NEW x \in Tabs
      PROVE  LocalAt(w, x)' /\ (Trying(x)' <=> Trying(x)) /\ (WillCreate(x)' => WillCreate(x))
  <2>1. LocalAt(w, x) /\ Types
    BY <1>2 DEF Sound, Inv
  <2> QED
    BY <1>1, <1>3, <1>6, <1>7, <2>1, LocalKept
<1>9. Sound(w)'
  BY <1>1, <1>2, <1>3, <1>8, StoredStays DEF Sound
<1>10. \A k : Wrapping(k)' => Wrapping(k)
  BY <1>1, <1>3 DEF Wrapping, InTasks, InQueues, WrapOf
<1>11. ~unconfirmed => OneKeyHeld'
  BY <1>1, <1>3, <1>8, <1>10, OneKeyMoved DEF Inv
<1> QED
  BY <1>1, <1>4, <1>9, <1>11 DEF Inv

LEMMA NextInv ==
    ASSUME Inv, [Next]_vars
    PROVE  Inv'
<1>1. CASE UNCHANGED vars
  BY <1>1, StutterInv
<1>2. CASE Next
  BY <1>2, ConnectStep, DisconnectStep, ReloadStep, HandleClaimStep, FinishClaimStep,
     HandleRequestStep, ReadInboxStep, ReplyStep, BroadcastStep, ApproveStep,
     HandleDoneStep, OnWelcomeStep, OnClaimResultStep, OnJoinRequestsStep,
     OnJoinStatusStep, HelloStep DEF Next
<1> QED
  BY <1>1, <1>2

(* The inductive invariant holds.                                           *)
THEOREM Invariance == Spec => []Inv
<1>1. Init => Inv
  BY InitInv
<1>2. Inv /\ [Next]_vars => Inv'
  BY NextInv
<1> QED
  BY <1>1, <1>2, PTL DEF Spec

-----------------------------------------------------------------------------
(* What it says.                                                            *)

(* Every variable holds a value of its kind; members are connected and hold *)
(* a key: whatever the pages, the server and the network do.                *)
THEOREM TypeCorrect == Spec => []TypeOK
<1>1. Inv => TypeOK
  <2> SUFFICES ASSUME Inv PROVE TypeOK
    OBVIOUS
  <2>1. PICK w \in Worlds : Sound(w)
    BY DEF Inv
  <2>2. Types
    BY DEF Inv
  <2>3. ASSUME NEW t \in Tabs
        PROVE  /\ page[t].roomInbox \in Tabs \cup {None}
               /\ page[t].chat \in Tabs \cup {None}
               /\ task[t] \in TaskType
               /\ \A i \in 1..Len(up[t]) : up[t][i] \in Up
               /\ \A i \in 1..Len(down[t]) : down[t][i] \in Down
               /\ page[t].claimed => t \in online /\ keys[t].key # None
               /\ reqID[t] \in {browserOf[t], None}
    <3>1. LocalAt(w, t)
      BY <2>1 DEF Sound
    <3>2. page[t].claimed => t \in online /\ keys[t].key # None
      BY <3>1 DEF LocalAt, OfflineAt
    <3>3. page[t].roomInbox \in Tabs \cup {None} /\ page[t].chat \in Tabs \cup {None}
      BY <2>2 DEF Types, PageType
    <3>4. up[t] \in Seq(Up) /\ down[t] \in Seq(Down)
      BY <2>2 DEF Types
    <3>5. \A i \in 1..Len(up[t]) : up[t][i] \in Up
      BY <3>4, ElementOfSeq
    <3>6. \A i \in 1..Len(down[t]) : down[t][i] \in Down
      BY <3>4, ElementOfSeq
    <3> QED
      BY <2>2, <3>2, <3>3, <3>5, <3>6 DEF Types
  <2> QED
    BY <2>2, <2>3 DEF TypeOK, Types
<1> QED
  BY <1>1, Invariance, PTL

(* The members of a room hold one key, however many pages opened the room   *)
(* at the same time and in whatever order the claims, answers, decisions    *)
(* and hellos arrive, unless a page went on with a key of an unanswered     *)
(* claim (claim, onClaimResult and forgetKey of room.js).                   *)
THEOREM OneKeyHolds == Spec => []OneKey
<1>1. Inv => OneKey
  <2> SUFFICES ASSUME Inv, ~unconfirmed, NEW s \in Members, NEW t \in Members
               PROVE  keys[s].key = keys[t].key
    BY DEF OneKey
  <2>1. PICK w \in Worlds : Sound(w)
    BY DEF Inv
  <2>2. OneKeyHeld /\ Types
    BY DEF Inv
  <2>3. ASSUME NEW x \in Members
        PROVE  keys[x].key \in Keys /\ Accepted(keys[x].key)
    <3>1. x \in Tabs /\ page[x].claimed
      BY <2>2 DEF Members, Types
    <3>2. LocalAt(w, x)
      BY <2>1, <3>1 DEF Sound
    <3>3. keys[x].key # None /\ ~Trying(x)
      BY <3>1, <3>2 DEF LocalAt, TriesAlone
    <3> QED
      BY <2>2, <3>1, <3>3, KeyTypes, OwnKeyAccepted
  <2> QED
    BY <2>2, <2>3 DEF OneKeyHeld
<1> QED
  BY <1>1, Invariance, PTL

(* A member's browser has stored the keys the page goes by, unless its tabs *)
(* got in each other's way (storeKey and forgetKey of room.js).             *)
THEOREM KeysKeptHolds == Spec => []KeysKept
<1>1. Inv => KeysKept
  <2> SUFFICES ASSUME Inv, NEW t \in Members, browserOf[t] \notin contested
               PROVE  /\ stored[browserOf[t]].key = keys[t].key
                      /\ InboxOK(t) => stored[browserOf[t]].inbox = keys[t].inbox
    BY DEF KeysKept
  <2>1. PICK w \in Worlds : Sound(w)
    BY DEF Inv
  <2>2. t \in Tabs /\ page[t].claimed
    BY DEF Members, Inv, Types
  <2>3. keys[t].key # None
    BY <2>1, <2>2 DEF Sound, LocalAt
  <2> QED
    BY <2>2, <2>3 DEF Inv, StoredToo, InboxOK
<1> QED
  BY <1>1, Invariance, PTL

-----------------------------------------------------------------------------
(* The inductive invariant, part 4: the inbox key.  What a page, a handler  *)
(* or a message says of it is right, and a pair that holds the key its      *)
(* creator registered holds both halves.                                    *)

Known(inbox) == inbox \in {None, InboxPub}

Whole(p) == p.key \in {None, OldKey} \/ p.inbox = p.key

(* While no inbox key is registered, the one of any new pair may become it. *)
Full(p) == IF InboxPub = None THEN Whole(p) ELSE p.key = InboxPub => p.inbox = InboxPub

FullWrap(wrap) == wrap # None => Full(wrap)

Asked(x) == x.step \in {"requested", "reply"}

TaskFacts(x) ==
    /\ Asked(x) => Registered /\ x.status # "rejected" /\ Known(x.inbox) /\ FullWrap(x.wrap)
    /\ x.step = "claim" /\ x.had => InboxPub # None

DownFacts(m) ==
    /\ m.type # "welcome" => Known(m.inbox)
    /\ m.type = "join-status" => Registered /\ m.status # "rejected" /\ FullWrap(m.wrap)

Accepts(m) == m.type = "claim-result" /\ m.ok

AllNamed(s) == \A m \in Range(s) : Accepts(m) => m.inbox # None

Names(m) == m.type \in {"claim-result", "join-requests"} /\ m.inbox # None

(* After a message that names the inbox key every answer to a claim does.   *)
NamedInOrder(s) ==
    \A i, j \in 1..Len(s) : i < j /\ Names(s[i]) /\ Accepts(s[j]) => s[j].inbox # None

QueueFacts(t) ==
    /\ \A m \in Range(down[t]) : DownFacts(m)
    /\ page[t].roomInbox # None => AllNamed(down[t])
    /\ NamedInOrder(down[t])

PageFacts(t) ==
    /\ Known(page[t].roomInbox) /\ Known(page[t].chat)
    /\ page[t].waits => Registered
    /\ page[t].claimed /\ keys[t].key # OldKey => page[t].roomInbox # None
    /\ Full(keys[t])

RequestFacts ==
    Registered => \A b \in Browsers :
      Req(b) # None => Req(b).status # "rejected" /\ FullWrap(Req(b).wrap)

StoredFull == \A b \in Browsers : Full(stored[b])

(* In a room that is older than inbox keys a page that was greeted by one   *)
(* with the inbox key, both knowing which it is, has it from then on.       *)
Has(t) == keys[t].key # None /\ InboxOK(t) /\ AllNamed(down[t])

GreetedHave == HeldKey(OldKey) => \A s, t \in Tabs : <<s, t>> \in greeted \ early => Has(t)

-----------------------------------------------------------------------------
(* Part 5: applicants hear of the inbox key.                                *)

Says(m, status) == m.type = "join-status" /\ m.status = status

WillTell(x) == x.step = "broadcast" \/ (x.step = "claim" /\ ~x.create /\ ~x.had)

Busy == \E x \in Tabs : WillTell(task[x])

(* The page will ask, or is about to be answered.                           *)
Asks(t) ==
    \/ \E m \in Range(down[t]) : m.type = "welcome"
    \/ \E m \in Range(up[t]) : m.type = "join-request"
    \/ Asked(task[t])

Waiting(t) == page[t].waits \/ \E m \in Range(down[t]) : Says(m, "pending")

(* A message the page will learn the inbox key from, or that lets it in.    *)
Telling(s, waits) ==
    \/ \E m \in Range(s) : Says(m, "approved") \/ (Says(m, "pending") /\ m.inbox # None)
    \/ \E i \in 1..Len(s) :
         /\ s[i].type = "join-requests" /\ s[i].inbox # None
         /\ waits \/ \E j \in 1..Len(s) : j < i /\ Says(s[j], "pending")

LearnsAt(t) ==
    (InboxPub # None /\ t \in online /\ keys[t].key = None /\ page[t].chat = None /\ Waiting(t))
      => Busy \/ Asks(t) \/ Telling(down[t], page[t].waits)

InboxInv ==
    /\ RequestFacts /\ StoredFull
    /\ \A t \in Tabs : PageFacts(t) /\ TaskFacts(task[t]) /\ QueueFacts(t) /\ LearnsAt(t)
    /\ GreetedHave

-----------------------------------------------------------------------------
(* Queues.                                                                  *)

LEMMA NamesAdded ==
    ASSUME NEW s \in Seq(Down), NEW m \in Down, NamedInOrder(s),
           Accepts(m) /\ m.inbox = None => \A n \in Range(s) : ~Names(n)
    PROVE  NamedInOrder(Append(s, m))
<1> DEFINE u == Append(s, m)
<1>1. /\ Len(s) \in Nat /\ Len(u) = Len(s) + 1
      /\ \A i \in 1..Len(s) : u[i] = s[i]
      /\ u[Len(s) + 1] = m
  BY Appended
<1>2. \A i \in 1..Len(s) : s[i] \in Range(s)
  BY LenProperties DEF Range
<1> HIDE DEF u
<1>3. SUFFICES ASSUME NEW i \in 1..Len(u), NEW j \in 1..Len(u), i < j, Names(u[i]), Accepts(u[j])
               PROVE  u[j].inbox # None
  BY DEF NamedInOrder, u
<1>4. i \in 1..Len(s) /\ u[i] = s[i]
  BY <1>1, <1>3
<1>5. CASE j \in 1..Len(s)
  BY <1>1, <1>3, <1>4, <1>5 DEF NamedInOrder
<1>6. CASE j = Len(s) + 1
  BY <1>1, <1>2, <1>3, <1>4, <1>6
<1> QED
  BY <1>1, <1>5, <1>6

LEMMA NamesTaken ==
    ASSUME NEW s \in Seq(Down), s # <<>>, NamedInOrder(s)
    PROVE  /\ NamedInOrder(Tail(s))
           /\ Names(Head(s)) => AllNamed(Tail(s))
<1> DEFINE u == Tail(s)
           n == Len(s)
           h == Head(s)
<1>1. /\ n \in Nat \ {0} /\ Len(u) = n - 1
      /\ \A i \in 1..(n - 1) : u[i] = s[i + 1]
      /\ h = s[1] /\ u \in Seq(Down)
  BY Taken
<1>2. DOMAIN u = 1..(n - 1)
  BY <1>1, LenProperties
<1>3. \A i, j \in 1..n : i < j /\ Names(s[i]) /\ Accepts(s[j]) => s[j].inbox # None
  BY DEF NamedInOrder
<1> HIDE DEF u, n, h
<1>4. NamedInOrder(u)
  <2> SUFFICES ASSUME NEW i \in 1..Len(u), NEW j \in 1..Len(u), i < j, Names(u[i]), Accepts(u[j])
               PROVE  u[j].inbox # None
    BY DEF NamedInOrder
  <2>1. i + 1 \in 1..n /\ j + 1 \in 1..n /\ i + 1 < j + 1 /\ u[i] = s[i + 1] /\ u[j] = s[j + 1]
    BY <1>1
  <2> QED
    BY <1>3, <2>1
<1>5. ASSUME Names(h) PROVE AllNamed(u)
  <2> SUFFICES ASSUME NEW m \in Range(u), Accepts(m) PROVE m.inbox # None
    BY DEF AllNamed
  <2>1. PICK j \in 1..(n - 1) : m = u[j]
    BY <1>2 DEF Range
  <2>2. 1 \in 1..n /\ j + 1 \in 1..n /\ 1 < j + 1 /\ m = s[j + 1]
    BY <1>1, <2>1
  <2> QED
    BY <1>1, <1>3, <1>5, <2>2
<1> QED
  BY <1>4, <1>5 DEF u, h

LEMMA TellingAdded ==
    ASSUME NEW s \in Seq(Down), NEW m \in Down, NEW waits \in BOOLEAN
    PROVE  /\ Telling(s, waits) => Telling(Append(s, m), waits)
           /\ Says(m, "approved") => Telling(Append(s, m), waits)
           /\ (/\ m.type = "join-requests" /\ m.inbox # None
               /\ waits \/ \E n \in Range(s) : Says(n, "pending")) => Telling(Append(s, m), waits)
<1> DEFINE u == Append(s, m)
<1>1. /\ Len(s) \in Nat /\ Len(u) = Len(s) + 1
      /\ \A i \in 1..Len(s) : u[i] = s[i]
      /\ u[Len(s) + 1] = m
      /\ Range(u) = Range(s) \cup {m}
  BY Appended
<1>2. \A n \in Range(s) : \E i \in 1..Len(s) : n = s[i]
  BY LenProperties DEF Range
<1> HIDE DEF u
<1>3. ASSUME Telling(s, waits) PROVE Telling(u, waits)
  <2>1. CASE \E n \in Range(s) : Says(n, "approved") \/ (Says(n, "pending") /\ n.inbox # None)
    BY <1>1, <2>1 DEF Telling
  <2>2. CASE \E i \in 1..Len(s) :
               /\ s[i].type = "join-requests" /\ s[i].inbox # None
               /\ waits \/ \E j \in 1..Len(s) : j < i /\ Says(s[j], "pending")
    <3>1. PICK i \in 1..Len(s) :
               /\ s[i].type = "join-requests" /\ s[i].inbox # None
               /\ waits \/ \E j \in 1..Len(s) : j < i /\ Says(s[j], "pending")
      BY <2>2
    <3>2. i \in 1..Len(u) /\ u[i] = s[i] /\ \A j \in 1..Len(s) : j \in 1..Len(u) /\ u[j] = s[j]
      BY <1>1
    <3>3. waits \/ \E j \in 1..Len(u) : j < i /\ Says(u[j], "pending")
      BY <3>1, <3>2
    <3> QED
      BY <3>1, <3>2, <3>3 DEF Telling
  <2> QED
    BY <1>3, <2>1, <2>2 DEF Telling
<1>4. Says(m, "approved") => Telling(u, waits)
  BY <1>1 DEF Telling
<1>5. ASSUME m.type = "join-requests" /\ m.inbox # None,
             waits \/ \E n \in Range(s) : Says(n, "pending")
      PROVE  Telling(u, waits)
  <2>1. Len(s) + 1 \in 1..Len(u) /\ \A j \in 1..Len(s) : j \in 1..Len(u) /\ j < Len(s) + 1
    BY <1>1
  <2>2. waits \/ \E j \in 1..Len(u) : j < Len(s) + 1 /\ Says(u[j], "pending")
    BY <1>1, <1>2, <1>5, <2>1
  <2> QED
    BY <1>1, <1>5, <2>1, <2>2 DEF Telling
<1> QED
  BY <1>3, <1>4, <1>5 DEF u

LEMMA TellingTaken ==
    ASSUME NEW s \in Seq(Down), s # <<>>, NEW waits \in BOOLEAN, Telling(s, waits),
           ~Says(Head(s), "approved"),
           Says(Head(s), "pending") => Head(s).inbox = None,
           Head(s).type = "join-requests" /\ waits => Head(s).inbox = None
    PROVE  Telling(Tail(s), waits \/ Says(Head(s), "pending"))
<1> DEFINE u == Tail(s)
           n == Len(s)
           h == Head(s)
<1>1. /\ n \in Nat \ {0} /\ Len(u) = n - 1
      /\ \A i \in 1..(n - 1) : u[i] = s[i + 1]
      /\ h = s[1] /\ Range(s) = {h} \cup Range(u)
  BY Taken
<1>2. /\ ~Says(h, "approved") /\ (Says(h, "pending") => h.inbox = None)
      /\ h.type = "join-requests" /\ waits => h.inbox = None
  OBVIOUS
<1>3. \/ \E m \in Range(s) : Says(m, "approved") \/ (Says(m, "pending") /\ m.inbox # None)
      \/ \E i \in 1..n :
           /\ s[i].type = "join-requests" /\ s[i].inbox # None
           /\ waits \/ \E j \in 1..n : j < i /\ Says(s[j], "pending")
  BY DEF Telling
<1>4. SUFFICES Telling(u, waits \/ Says(h, "pending"))
  OBVIOUS
<1> HIDE DEF u, n, h
<1>5. CASE \E m \in Range(s) : Says(m, "approved") \/ (Says(m, "pending") /\ m.inbox # None)
  BY <1>1, <1>2, <1>5 DEF Telling
<1>6. ASSUME NEW i \in 1..n, s[i].type = "join-requests" /\ s[i].inbox # None,
             waits \/ \E j \in 1..n : j < i /\ Says(s[j], "pending")
      PROVE  Telling(u, waits \/ Says(h, "pending"))
  <2>1. i # 1
    BY <1>1, <1>2, <1>6
  <2>2. i - 1 \in 1..Len(u) /\ u[i - 1] = s[i]
    BY <1>1, <2>1
  <2>3. \/ waits \/ Says(h, "pending")
        \/ \E j \in 1..Len(u) : j < i - 1 /\ Says(u[j], "pending")
    <3>1. ASSUME NEW j \in 1..n, j < i, Says(s[j], "pending"), ~Says(h, "pending")
          PROVE  j - 1 \in 1..Len(u) /\ j - 1 < i - 1 /\ Says(u[j - 1], "pending")
      <4>1. j # 1
        BY <1>1, <3>1
      <4>2. j - 1 \in 1..(n - 1) /\ j - 1 < i - 1 /\ (j - 1) + 1 = j
        BY <1>1, <3>1, <4>1
      <4> QED
        BY <1>1, <3>1, <4>2
    <3> QED
      BY <1>6, <3>1
  <2> QED
    BY <1>6, <2>2, <2>3 DEF Telling
<1> QED
  BY <1>3, <1>5, <1>6

-----------------------------------------------------------------------------
(* An inbox key stays once it is there, and so does what was said of it.    *)

Stays ==
    /\ Registered => Registered'
    /\ InboxPub # None => InboxPub' = InboxPub
    /\ InboxPub \in Tabs \cup {None} /\ InboxPub' \in Tabs \cup {None}

LEMMA StillFull ==
    ASSUME Stays
    PROVE  \A p : Full(p) => Full(p)'
<1>1. \A k \in Tabs : k # None /\ k # OldKey
  BY NamesAssumption
<1> QED
  BY <1>1 DEF Stays, Full, Whole

LEMMA StillKnown ==
    ASSUME Stays
    PROVE  /\ \A i : Known(i) => Known(i)'
           /\ \A p : FullWrap(p) => FullWrap(p)'
           /\ \A x : TaskFacts(x) => TaskFacts(x)'
           /\ \A m : DownFacts(m) => DownFacts(m)'
<1>1. \A i : Known(i) => Known(i)'
  BY DEF Known, Stays
<1>2. \A p : FullWrap(p) => FullWrap(p)'
  BY StillFull DEF FullWrap
<1>3. InboxPub # None => InboxPub' # None
  BY DEF Stays
<1>4. Registered => Registered'
  BY DEF Stays
<1>5. \A x : TaskFacts(x) => TaskFacts(x)'
  BY <1>1, <1>2, <1>3, <1>4 DEF TaskFacts
<1>6. \A m : DownFacts(m) => DownFacts(m)'
  BY <1>1, <1>2, <1>4 DEF DownFacts
<1> QED
  BY <1>1, <1>2, <1>5, <1>6

LEMMA StayingPage ==
    ASSUME Stays, NEW t \in Tabs, PageFacts(t), keys'[t] = keys[t], page'[t] = page[t]
    PROVE  PageFacts(t)'
BY StillFull, StillKnown DEF PageFacts, Stays

LEMMA StayingStored ==
    ASSUME Stays, StoredFull, stored' = stored
    PROVE  StoredFull'
BY StillFull DEF StoredFull

LEMMA StayingQueue ==
    ASSUME Stays, NEW t \in Tabs, QueueFacts(t), down[t] \in Seq(Down),
           page'[t].roomInbox = page[t].roomInbox,
           \/ down'[t] = down[t]
           \/ \E m \in Down :
                /\ down'[t] = Append(down[t], m) /\ DownFacts(m)'
                /\ Accepts(m) /\ m.inbox = None => InboxPub = None,
           Known(page[t].roomInbox)
    PROVE  QueueFacts(t)'
<1>1. CASE down'[t] = down[t]
  BY <1>1, StillKnown DEF QueueFacts, AllNamed
<1>2. ASSUME NEW m \in Down, down'[t] = Append(down[t], m), DownFacts(m)',
             Accepts(m) /\ m.inbox = None => InboxPub = None
      PROVE  QueueFacts(t)'
  <2>1. Range(down'[t]) = Range(down[t]) \cup {m}
    BY <1>2, Appended
  <2>2. (\A n \in Range(down[t]) : DownFacts(n))'
    BY <1>2, <2>1, StillKnown DEF QueueFacts
  <2>3. (page[t].roomInbox # None => AllNamed(down[t]))'
    BY <1>2, <2>1 DEF QueueFacts, AllNamed, Known
  <2>4. Accepts(m) /\ m.inbox = None => \A n \in Range(down[t]) : ~Names(n)
    BY <1>2 DEF QueueFacts, DownFacts, Names, Known
  <2>5. NamedInOrder(down[t])'
    BY <1>2, <2>4, NamesAdded DEF QueueFacts
  <2> QED
    BY <2>2, <2>3, <2>5 DEF QueueFacts
<1> QED
  BY <1>1, <1>2

LEMMA StillBusy ==
    ASSUME NEW t \in Tabs, \A x \in Tabs \ {t} : task'[x] = task[x],
           WillTell(task[t]) => WillTell(task'[t]), Busy
    PROVE  Busy'
BY DEF Busy, WillTell

LEMMA StillLearns ==
    ASSUME NEW x \in Tabs, LearnsAt(x), InboxPub' = InboxPub, down[x] \in Seq(Down),
           page[x] \in PageType,
           keys'[x] = keys[x], page'[x] = page[x], x \in online' => x \in online,
           Busy => Busy', Asks(x) => Asks(x)',
           \/ down'[x] = down[x]
           \/ \E m \in Down : down'[x] = Append(down[x], m) /\ ~Says(m, "pending")
    PROVE  LearnsAt(x)'
<1>1. page[x].waits \in BOOLEAN
  BY DEF PageType
<1>2. Telling(down[x], page[x].waits) => Telling(down'[x], page[x].waits)
  BY <1>1, TellingAdded
<1>3. \A m \in Range(down'[x]) : Says(m, "pending") => m \in Range(down[x])
  <2>1. ASSUME NEW n \in Down, down'[x] = Append(down[x], n), ~Says(n, "pending")
        PROVE  \A m \in Range(down'[x]) : Says(m, "pending") => m \in Range(down[x])
    <3>1. Range(down'[x]) = Range(down[x]) \cup {n}
      BY <2>1, Appended
    <3> QED
      BY <2>1, <3>1
  <2> QED
    BY <2>1
<1>4. Waiting(x)' => Waiting(x)
  BY <1>3 DEF Waiting, Says
<1>5. Telling(down'[x], page[x].waits) <=> Telling(down[x], page[x].waits)'
  BY DEF Telling, Says
<1> QED
  BY <1>2, <1>4, <1>5 DEF LearnsAt

LEMMA OldKeyHeld ==
    ASSUME \A x \in Tabs : keys'[x].key = OldKey => HeldKey(OldKey),
           \A b \in Browsers : stored'[b].key = OldKey => HeldKey(OldKey),
           Wrapping(OldKey)' => HeldKey(OldKey)
    PROVE  HeldKey(OldKey)' => HeldKey(OldKey)
BY DEF HeldKey

(* Where the old key is held there is nothing but it.                       *)
LEMMA InOldRoom ==
    ASSUME Inv, HeldKey(OldKey)
    PROVE  Sound("old")
<1>1. PICK w \in Worlds : Sound(w)
  BY DEF Inv
<1>2. SUFFICES ASSUME w = "new" PROVE FALSE
  BY <1>1 DEF Worlds
<1>3. \A p : PairIn(w, p) => p.key # OldKey
  BY <1>2 DEF PairIn
<1>4. \A status, wrap : WrapIn(w, status, wrap) => ~WrapOf(OldKey, wrap)
  BY <1>3 DEF WrapIn, WrapOf
<1>5. \A x \in Tabs : LocalAt(w, x) /\ keys[x].key # OldKey
  BY <1>1, <1>3 DEF Sound, LocalAt
<1>6. \A b \in Browsers : stored[b].key # OldKey
  BY <1>1, <1>3 DEF Sound, StoredIn
<1>7. ~InStore(OldKey)
  BY <1>1, <1>4 DEF InStore, Sound, StoreAt
<1>8. ~InTasks(OldKey)
  BY <1>4, <1>5 DEF InTasks, LocalAt, TaskIn
<1>9. ~InQueues(OldKey)
  BY <1>4, <1>5 DEF InQueues, LocalAt, AnswerIn
<1> QED
  BY <1>5, <1>6, <1>7, <1>8, <1>9 DEF HeldKey, Wrapping

-----------------------------------------------------------------------------
(* The steps of the server.                                                 *)

ServerFrame(t) ==
    /\ UNCHANGED <<browserOf, online, greeted, early, keys, stored, page>>
    /\ \A x \in Tabs \ {t} : task'[x] = task[x] /\ up'[x] = up[x]

(* A message of the server says what is right.                              *)
RightMessage(m) ==
    /\ m \in Down /\ m.type # "welcome" /\ DownFacts(m)'
    /\ Accepts(m) /\ m.inbox = None => InboxPub = None
    /\ m.type = "join-status" /\ WrapOf(OldKey, m.wrap) => HeldKey(OldKey)

Told(x) == down'[x] = down[x] \/ \E m \in Down : down'[x] = Append(down[x], m) /\ RightMessage(m)

LEMMA ServerStep ==
    ASSUME Inv, InboxInv, NEW t \in Tabs, ServerFrame(t), Stays, RequestFacts',
           TaskFacts(task[t])',
           InStore(OldKey)' => HeldKey(OldKey),
           Asked(task'[t]) /\ WrapOf(OldKey, task'[t].wrap) => HeldKey(OldKey),
           \A x \in Tabs : Told(x),
           \A x \in Tabs : LearnsAt(x)'
    PROVE  InboxInv'
<1>1. \A x \in Tabs : down[x] \in Seq(Down)
  BY DEF Inv, Types
<1>2. UNCHANGED <<greeted, early, keys, stored, page>>
  BY DEF ServerFrame
<1>3. StoredFull'
  BY <1>2, StayingStored DEF InboxInv
<1>4. ASSUME NEW x \in Tabs PROVE PageFacts(x)' /\ TaskFacts(task[x])' /\ QueueFacts(x)'
  <2>1. PageFacts(x) /\ TaskFacts(task[x]) /\ QueueFacts(x) /\ Known(page[x].roomInbox)
    BY DEF InboxInv, PageFacts
  <2>2. PageFacts(x)'
    BY <1>2, <2>1, StayingPage
  <2>3. TaskFacts(task[x])'
    <3>1. CASE x = t
      BY <3>1
    <3>2. CASE x # t
      <4>1. task'[x] = task[x]
        BY <3>2 DEF ServerFrame
      <4>2. PICK a : a = task[x]
        OBVIOUS
      <4>3. TaskFacts(a)'
        BY <2>1, <4>2, StillKnown
      <4>4. task'[x] = a
        BY <4>1, <4>2
      <4> QED
        BY <4>3, <4>4 DEF TaskFacts, Asked, Known, FullWrap, Full, Whole
    <3> QED
      BY <3>1, <3>2
  <2>5. \/ down'[x] = down[x]
        \/ \E m \in Down :
             /\ down'[x] = Append(down[x], m) /\ DownFacts(m)'
             /\ Accepts(m) /\ m.inbox = None => InboxPub = None
    BY DEF Told, RightMessage
  <2>6. QueueFacts(x)'
    BY <1>1, <1>2, <2>1, <2>5, StayingQueue
  <2> QED
    BY <2>2, <2>3, <2>6
<1>5. GreetedHave'
  <2>1. HeldKey(OldKey)' => HeldKey(OldKey)
    <3>1. OldKey # None
      BY NamesAssumption
    <3>2. \A x \in Tabs : keys'[x].key = OldKey => HeldKey(OldKey)
      BY <1>2, <3>1 DEF HeldKey
    <3>3. \A b \in Browsers : stored'[b].key = OldKey => HeldKey(OldKey)
      BY <1>2, <3>1 DEF HeldKey
    <3>4. InTasks(OldKey)' => HeldKey(OldKey)
      BY <3>1 DEF InTasks, ServerFrame, HeldKey, Wrapping, Asked, WrapOf
    <3>5. InQueues(OldKey)' => HeldKey(OldKey)
      <4> SUFFICES ASSUME InQueues(OldKey)' PROVE HeldKey(OldKey)
        OBVIOUS
      <4>1. PICK x \in Tabs : \E m \in Range(down'[x]) : m.type = "join-status" /\ WrapOf(OldKey, m.wrap)
        BY DEF InQueues, WrapOf
      <4>2. PICK m \in Range(down'[x]) : m.type = "join-status" /\ WrapOf(OldKey, m.wrap)
        BY <4>1
      <4>3. CASE m \in Range(down[x])
        BY <3>1, <4>2, <4>3 DEF HeldKey, Wrapping, InQueues
      <4>4. CASE m \notin Range(down[x])
        <5>1. PICK n \in Down : down'[x] = Append(down[x], n) /\ RightMessage(n)
          BY <4>2, <4>4 DEF Told
        <5>2. Range(down'[x]) = Range(down[x]) \cup {n}
          BY <1>1, <5>1, Appended
        <5>3. m = n
          BY <4>2, <4>4, <5>2
        <5> QED
          BY <4>2, <5>1, <5>3 DEF RightMessage
      <4> QED
        BY <4>3, <4>4
    <3> QED
      BY <3>2, <3>3, <3>4, <3>5, OldKeyHeld DEF Wrapping
  <2>2. SUFFICES ASSUME HeldKey(OldKey), NEW x \in Tabs, NEW y \in Tabs, <<x, y>> \in greeted \ early
                 PROVE  Has(y)'
    BY <1>2, <2>1 DEF GreetedHave
  <2>3. Has(y) /\ QueueFacts(y)'
    BY <1>4, <2>2 DEF InboxInv, GreetedHave
  <2>4. (keys[y].key # None)' /\ InboxOK(y)'
    BY <1>2, <2>3 DEF Has, InboxOK
  <2>5. page'[y].roomInbox # None
    BY <2>4 DEF InboxOK
  <2>6. AllNamed(down[y])'
    BY <2>3, <2>5 DEF QueueFacts
  <2> QED
    BY <2>4, <2>6 DEF Has
<1> QED
  BY <1>3, <1>4, <1>5 DEF InboxInv

LEMMA SameStore ==
    ASSUME Inv, UNCHANGED storeVars
    PROVE  /\ Stays /\ InboxPub' = InboxPub /\ (Registered' <=> Registered)
           /\ RequestFacts => RequestFacts'
           /\ \A k : InStore(k)' <=> InStore(k)
<1>1. PICK w \in Worlds : StoreAt(w)
  BY DEF Inv, Sound
<1>2. /\ InboxPub' = InboxPub /\ (Registered' <=> Registered)
      /\ \A k : InStore(k)' <=> InStore(k)
  BY <1>1, UnchangedStore
<1>3. Stays
  BY <1>1, <1>2, InboxTyped DEF Stays
<1>4. \A b \in Browsers : Req(b)' = Req(b)
  BY DEF storeVars, Req
<1>5. RequestFacts => RequestFacts'
  <2> SUFFICES ASSUME RequestFacts, Registered', NEW b \in Browsers, Req(b)' # None
               PROVE  (Req(b).status # "rejected" /\ FullWrap(Req(b).wrap))'
    BY DEF RequestFacts
  <2>1. Req(b).status # "rejected" /\ FullWrap(Req(b).wrap)
    BY <1>2, <1>4 DEF RequestFacts
  <2>2. PICK q : q = Req(b)
    OBVIOUS
  <2>3. Req(b)' = q /\ FullWrap(q.wrap)'
    BY <1>3, <1>4, <2>1, <2>2, StillKnown
  <2> QED
    BY <1>2, <1>4, <2>1, <2>2, <2>3 DEF FullWrap, Full, Whole
<1> QED
  BY <1>2, <1>3, <1>5

(* One request changes, to one that lets nobody in or holds a full pair.    *)
LEMMA RequestMoved ==
    ASSUME RequestFacts, Stays, Registered, InboxPub' = InboxPub,
           NEW b \in Browsers, \A o \in Browsers \ {b} : Req(o)' = Req(o),
           Req(b)' # None => Req(b)'.status # "rejected" /\ FullWrap(Req(b)'.wrap),
           InboxPub' = InboxPub
    PROVE  RequestFacts'
<1> SUFFICES ASSUME NEW o \in Browsers, Req(o)' # None
             PROVE  (Req(o).status # "rejected" /\ FullWrap(Req(o).wrap))'
  BY DEF RequestFacts
<1>1. CASE o = b
  <2>1. PICK q : q = Req(b)'
    OBVIOUS
  <2>2. q.status # "rejected" /\ FullWrap(q.wrap)
    BY <1>1, <2>1
  <2>3. FullWrap(q.wrap)'
    BY <2>2, StillKnown
  <2> QED
    BY <1>1, <2>1, <2>2, <2>3 DEF FullWrap, Full, Whole
<1>2. CASE o # b
  <2>1. PICK q : q = Req(o)
    OBVIOUS
  <2>2. Req(o)' = q /\ q.status # "rejected" /\ FullWrap(q.wrap)
    BY <1>2, <2>1 DEF RequestFacts
  <2>3. FullWrap(q.wrap)'
    BY <2>2, StillKnown
  <2> QED
    BY <2>2, <2>3 DEF FullWrap, Full, Whole
<1> QED
  BY <1>1, <1>2

-----------------------------------------------------------------------------
(* The steps of a page and of its connection.                               *)

OwnFrame(t) ==
    /\ UNCHANGED storeVars /\ task' = task
    /\ \A x \in Tabs \ {t} :
         /\ keys'[x] = keys[x] /\ page'[x] = page[x] /\ up'[x] = up[x] /\ down'[x] = down[x]
         /\ x \in online' <=> x \in online
    /\ \A m \in Range(down'[t]) : m.type = "join-status" => m \in Range(down[t])

LEMMA OwnStep ==
    ASSUME Inv, InboxInv, NEW t \in Tabs, OwnFrame(t),
           PageFacts(t)', QueueFacts(t)', LearnsAt(t)', StoredFull',
           keys'[t].key = OldKey => HeldKey(OldKey),
           \A b \in Browsers : stored'[b].key = OldKey => HeldKey(OldKey),
           \A s, y \in Tabs :
             y # t /\ <<s, y>> \in greeted' \ early' => <<s, y>> \in greeted \ early,
           HeldKey(OldKey) => \A s \in Tabs : <<s, t>> \in greeted' \ early' => Has(t)'
    PROVE  InboxInv'
<1>1. /\ Stays /\ InboxPub' = InboxPub /\ (Registered' <=> Registered) /\ RequestFacts'
      /\ \A k : InStore(k)' <=> InStore(k)
  BY SameStore DEF OwnFrame, InboxInv
<1>2. \A x \in Tabs : down[x] \in Seq(Down) /\ page[x] \in PageType
  BY DEF Inv, Types
<1>3. Busy => Busy'
  BY DEF OwnFrame, Busy, WillTell
<1>4. ASSUME NEW x \in Tabs PROVE TaskFacts(task[x])'
  <2>1. PICK a : a = task[x]
    OBVIOUS
  <2>2. task'[x] = a /\ TaskFacts(a)
    BY <2>1 DEF OwnFrame, InboxInv
  <2>3. TaskFacts(a)'
    BY <1>1, <2>2, StillKnown
  <2> QED
    BY <2>2, <2>3 DEF TaskFacts, Asked, Known, FullWrap, Full, Whole
<1>5. ASSUME NEW x \in Tabs, x # t PROVE PageFacts(x)' /\ QueueFacts(x)' /\ LearnsAt(x)'
  <2>1. /\ keys'[x] = keys[x] /\ page'[x] = page[x] /\ up'[x] = up[x] /\ down'[x] = down[x]
        /\ x \in online' <=> x \in online
        /\ task'[x] = task[x]
    BY <1>5 DEF OwnFrame
  <2>2. PageFacts(x) /\ QueueFacts(x) /\ LearnsAt(x) /\ Known(page[x].roomInbox)
    BY DEF InboxInv, PageFacts
  <2>3. Asks(x) => Asks(x)'
    BY <2>1 DEF Asks, Asked
  <2>4. PageFacts(x)' /\ QueueFacts(x)'
    BY <1>1, <1>2, <2>1, <2>2, StayingPage, StayingQueue
  <2>5. LearnsAt(x)'
    BY <1>1, <1>2, <1>3, <2>1, <2>2, <2>3, StillLearns
  <2> QED
    BY <2>4, <2>5
<1>6. HeldKey(OldKey)' => HeldKey(OldKey)
  <2>1. OldKey # None
    BY NamesAssumption
  <2>2. \A x \in Tabs : keys'[x].key = OldKey => HeldKey(OldKey)
    BY <2>1 DEF OwnFrame, HeldKey
  <2>3. InTasks(OldKey)' => HeldKey(OldKey)
    BY <2>1 DEF InTasks, OwnFrame, HeldKey, Wrapping, WrapOf
  <2>4. InQueues(OldKey)' => InQueues(OldKey)
    <3>1. \A x \in Tabs : \A y \in Range(down'[x]) : y \in Range(down[x]) \/ y.type # "join-status"
      BY DEF OwnFrame
    <3> QED
      BY <3>1, QueuesQuiet
  <2>5. Wrapping(OldKey)' => HeldKey(OldKey)
    BY <1>1, <2>1, <2>3, <2>4 DEF Wrapping, HeldKey
  <2> QED
    BY <2>2, <2>5, OldKeyHeld
<1>7. GreetedHave'
  <2> SUFFICES ASSUME HeldKey(OldKey), NEW s \in Tabs, NEW y \in Tabs, <<s, y>> \in greeted' \ early'
               PROVE  Has(y)'
    BY <1>6 DEF GreetedHave
  <2>1. CASE y = t
    BY <2>1
  <2>2. CASE y # t
    <3>1. Has(y)
      BY <2>2 DEF InboxInv, GreetedHave
    <3> QED
      BY <2>2, <3>1 DEF Has, InboxOK, OwnFrame, AllNamed
  <2> QED
    BY <2>1, <2>2
<1>8. \A x \in Tabs : PageFacts(x)' /\ QueueFacts(x)' /\ LearnsAt(x)'
  BY <1>5
<1> QED
  BY <1>1, <1>4, <1>7, <1>8 DEF InboxInv

-----------------------------------------------------------------------------
(* Every action of the server keeps the fourth and fifth part.              *)

LEMMA ServerLearns ==
    ASSUME Inv, InboxInv, NEW t \in Tabs, ServerFrame(t), InboxPub' = InboxPub, Busy => Busy',
           NEW x \in Tabs, x # t \/ (Asks(t) => Asks(t)'),
           \/ down'[x] = down[x]
           \/ \E m \in Down : down'[x] = Append(down[x], m) /\ ~Says(m, "pending")
    PROVE  LearnsAt(x)'
<1>1. down[x] \in Seq(Down) /\ page[x] \in PageType /\ LearnsAt(x)
  BY DEF Inv, Types, InboxInv
<1>2. keys'[x] = keys[x] /\ page'[x] = page[x] /\ (x \in online' <=> x \in online)
  BY DEF ServerFrame
<1>3. Asks(x) => Asks(x)'
  <2>1. CASE x = t
    BY <2>1
  <2>2. CASE x # t
    <3>1. task'[x] = task[x] /\ up'[x] = up[x]
      BY <2>2 DEF ServerFrame
    <3>2. \A m \in Range(down[x]) : m \in Range(down'[x])
      <4>1. \A n \in Down : Range(Append(down[x], n)) = Range(down[x]) \cup {n}
        BY <1>1, Appended
      <4> QED
        BY <4>1
    <3> QED
      BY <3>1, <3>2 DEF Asks, Asked
  <2> QED
    BY <2>1, <2>2
<1> QED
  BY <1>1, <1>2, <1>3, StillLearns

LEMMA HandleClaimInbox ==
    ASSUME Inv, InboxInv, NEW t \in Tabs, HandleClaim(t)
    PROVE  InboxInv'
<1>1. Begins(t, "claim") /\ UNCHANGED <<linkVars, storeVars, browserVars, reqID, down>> /\ Types
  BY DEF HandleClaim, Inv
<1>2. /\ task[t] = Idle /\ Head(up[t]) \in Up /\ Head(up[t]).type = "claim"
      /\ Range(up[t]) = {Head(up[t])} \cup Range(up'[t])
      /\ \A x \in Tabs \ {t} : up'[x] = up[x]
  BY <1>1, Begun
<1>3. PICK h \in Up : h = Head(up[t])
  BY <1>2
<1>4. h.create \in BOOLEAN /\ h.inbox \in Tabs \cup {None}
  BY <1>2, <1>3, UpTypes
<1>5. PICK had \in BOOLEAN : had <=> InboxPub # None
  OBVIOUS
<1>6. PICK a : a = [step |-> "claim", create |-> h.create, inbox |-> h.inbox, had |-> had]
  OBVIOUS
<1>7. a \in TaskType /\ a.step = "claim" /\ a.had = had
  BY <1>4, <1>6, NewTasks
<1>8. GoTo(t, a)
  <2>1. had = (InboxPub # None)
    BY <1>5
  <2> QED
    BY <1>3, <1>6, <2>1 DEF HandleClaim
<1>9. task'[t] = a /\ \A x \in Tabs \ {t} : task'[x] = task[x]
  BY <1>1, <1>7, <1>8, Went
<1>10. /\ Stays /\ InboxPub' = InboxPub /\ RequestFacts'
       /\ \A k : InStore(k)' <=> InStore(k)
  BY <1>1, SameStore DEF InboxInv
<1>11. ServerFrame(t) /\ down' = down
  BY <1>1, <1>2, <1>9 DEF ServerFrame, linkVars, browserVars
<1>12. TaskFacts(task[t])'
  BY <1>5, <1>7, <1>9, <1>10 DEF TaskFacts, Asked
<1>13. Busy => Busy'
  BY <1>2, <1>9, NewTasks, StillBusy DEF WillTell
<1>14. Asks(t) => Asks(t)'
  BY <1>2, <1>11, NewTasks DEF Asks, Asked
<1>15. \A x \in Tabs : LearnsAt(x)' /\ Told(x)
  BY <1>10, <1>11, <1>13, <1>14, ServerLearns DEF Told
<1>16. InStore(OldKey)' => HeldKey(OldKey)
  BY <1>10, NamesAssumption DEF HeldKey, Wrapping
<1>17. ~Asked(task'[t])
  BY <1>7, <1>9 DEF Asked
<1> QED
  BY <1>10, <1>11, <1>12, <1>15, <1>16, <1>17, ServerStep

LEMMA HandleRequestInbox ==
    ASSUME Inv, InboxInv, NEW t \in Tabs, HandleRequest(t)
    PROVE  InboxInv'
<1>0. PICK w \in Worlds : StoreAt(w)
  BY DEF Inv, Sound
<1>1. PICK b : b = browserOf[t]
  OBVIOUS
<1>2. /\ Begins(t, "join-request") /\ Store!Submit(Room, b) /\ Types /\ b \in Browsers
      /\ UNCHANGED <<linkVars, browserVars, down>>
  BY <1>1 DEF HandleRequest, Inv, Types
<1>3. /\ Registered /\ Registered' /\ InboxPub' = InboxPub
      /\ Req(b)' \in Store!Request
      /\ Req(b)'.wrap # None => Req(b) # None /\ Req(b)'.wrap = Req(b).wrap
      /\ Req(b)'.status # "pending" => Req(b) # None /\ Req(b)'.status = Req(b).status
      /\ \A o \in Browsers \ {b} : Req(o)' = Req(o)
  BY <1>0, <1>2, Submitted
<1>4. Stays
  BY <1>0, <1>3, InboxTyped DEF Stays
<1>5. PICK q : q = Req(b)'
  OBVIOUS
<1>6. q.status \in Store!Status /\ q.wrap \in KeyPair \cup {None}
  BY <1>3, <1>5, RequestFields
<1>7. q.status # "rejected" /\ FullWrap(q.wrap)
  <2>1. Req(b) # None => Req(b).status # "rejected" /\ FullWrap(Req(b).wrap)
    BY <1>2, <1>3 DEF InboxInv, RequestFacts
  <2>2. q.status # "rejected"
    BY <1>3, <1>5, <2>1
  <2>3. FullWrap(q.wrap)
    <3>1. CASE q.wrap = None
      BY <3>1 DEF FullWrap
    <3>2. CASE q.wrap # None
      BY <1>3, <1>5, <2>1, <3>2
    <3> QED
      BY <3>1, <3>2
  <2> QED
    BY <2>2, <2>3
<1>8. RequestFacts'
  BY <1>2, <1>3, <1>4, <1>5, <1>7, RequestMoved DEF InboxInv
<1>9. PICK a : a = [step |-> "requested", status |-> q.status, wrap |-> q.wrap, inbox |-> None]
  OBVIOUS
<1>10. /\ a \in TaskType /\ a.step = "requested" /\ a.status = q.status /\ a.wrap = q.wrap
       /\ a.inbox = None
  BY <1>6, <1>9, NewTasks
<1>11. GoTo(t, a)
  BY <1>1, <1>5, <1>9 DEF HandleRequest, Req
<1>12. task'[t] = a /\ \A x \in Tabs \ {t} : task'[x] = task[x]
  BY <1>2, <1>10, <1>11, Went
<1>13. task[t] = Idle /\ \A x \in Tabs \ {t} : up'[x] = up[x]
  BY <1>2, Begun
<1>14. ServerFrame(t) /\ down' = down
  BY <1>2, <1>12, <1>13 DEF ServerFrame, linkVars, browserVars
<1>15. TaskFacts(task[t])'
  <2>1. TaskFacts(a)
    BY <1>3, <1>7, <1>10 DEF TaskFacts, Known
  <2>2. TaskFacts(a)'
    BY <1>4, <2>1, StillKnown
  <2> QED
    BY <1>12, <2>2 DEF TaskFacts, Asked, Known, FullWrap, Full, Whole
<1>16. Busy => Busy'
  BY <1>12, <1>13, NewTasks, StillBusy DEF WillTell
<1>17. Asks(t)'
  BY <1>10, <1>12 DEF Asks, Asked
<1>18. \A x \in Tabs : LearnsAt(x)' /\ Told(x)
  BY <1>3, <1>14, <1>16, <1>17, ServerLearns DEF Told
<1>19. \A k : InStore(k)' => InStore(k)
  BY <1>2, <1>3 DEF InStore, WrapOf
<1>20. \A k : WrapOf(k, q.wrap) => InStore(k)
  BY <1>2, <1>3, <1>5 DEF InStore, WrapOf
<1>21. /\ InStore(OldKey)' => HeldKey(OldKey)
       /\ WrapOf(OldKey, task'[t].wrap) => HeldKey(OldKey)
  <2>1. InStore(OldKey) => HeldKey(OldKey)
    BY NamesAssumption DEF HeldKey, Wrapping
  <2> QED
    BY <1>10, <1>12, <1>19, <1>20, <2>1
<1> QED
  BY <1>4, <1>8, <1>14, <1>15, <1>18, <1>21, ServerStep

LEMMA ReadInboxInbox ==
    ASSUME Inv, InboxInv, NEW t \in Tabs, ReadInbox(t)
    PROVE  InboxInv'
<1>1. /\ task[t].step = "requested" /\ UNCHANGED storeVars /\ Types
      /\ UNCHANGED <<linkVars, browserVars, reqID, up, down>>
  BY DEF ReadInbox, Inv
<1>2. PICK a \in TaskType : a = task[t]
  BY <1>1 DEF Types
<1>3. PICK i : i = InboxPub
  OBVIOUS
<1>4. /\ Stays /\ InboxPub' = InboxPub /\ RequestFacts'
      /\ \A k : InStore(k)' <=> InStore(k)
  BY <1>1, SameStore DEF InboxInv
<1>5. i \in Tabs \cup {None}
  BY <1>3, <1>4 DEF Stays
<1>6. PICK n : n = [a EXCEPT !.step = "reply", !.inbox = i]
  OBVIOUS
<1>7. /\ n \in TaskType /\ n.step = "reply" /\ n.status = a.status /\ n.wrap = a.wrap
      /\ n.inbox = i
  <2> DEFINE S == [step : {"requested", "reply"}, status : Store!Status,
                   wrap : KeyPair \cup {None}, inbox : Tabs \cup {None}]
  <2>1. a \in S
    BY <1>1, <1>2 DEF TaskType, Idle
  <2>2. n \in S /\ n.step = "reply" /\ n.status = a.status /\ n.wrap = a.wrap /\ n.inbox = i
    BY <1>5, <1>6, <2>1
  <2> QED
    BY <2>2 DEF TaskType
<1>8. GoTo(t, n)
  BY <1>2, <1>3, <1>6 DEF ReadInbox
<1>9. task'[t] = n /\ \A x \in Tabs \ {t} : task'[x] = task[x]
  BY <1>1, <1>7, <1>8, Went
<1>10. ServerFrame(t) /\ down' = down
  BY <1>1, <1>9 DEF ServerFrame, linkVars, browserVars
<1>11. TaskFacts(task[t])'
  <2>1. TaskFacts(a)
    BY <1>2 DEF InboxInv
  <2>2. TaskFacts(n)
    BY <1>1, <1>2, <1>3, <1>7, <2>1 DEF TaskFacts, Asked, Known
  <2>3. TaskFacts(n)'
    BY <1>4, <2>2, StillKnown
  <2> QED
    BY <1>9, <2>3 DEF TaskFacts, Asked, Known, FullWrap, Full, Whole
<1>12. Busy => Busy'
  BY <1>1, <1>9, StillBusy DEF WillTell
<1>13. Asks(t)'
  BY <1>7, <1>9 DEF Asks, Asked
<1>14. \A x \in Tabs : LearnsAt(x)' /\ Told(x)
  BY <1>4, <1>10, <1>12, <1>13, ServerLearns DEF Told
<1>15. /\ InStore(OldKey)' => HeldKey(OldKey)
       /\ WrapOf(OldKey, task'[t].wrap) => HeldKey(OldKey)
  <2>1. WrapOf(OldKey, a.wrap) => InTasks(OldKey)
    BY <1>1, <1>2 DEF InTasks
  <2> QED
    BY <1>4, <1>7, <1>9, <2>1, NamesAssumption DEF HeldKey, Wrapping
<1> QED
  BY <1>4, <1>10, <1>11, <1>14, <1>15, ServerStep

LEMMA ReplyInbox ==
    ASSUME Inv, InboxInv, NEW t \in Tabs, Reply(t)
    PROVE  InboxInv'
<1>1. /\ task[t].step = "reply" /\ UNCHANGED storeVars /\ Types
      /\ UNCHANGED <<linkVars, browserVars, reqID, up>>
  BY DEF Reply, Inv
<1>2. PICK a \in TaskType : a = task[t]
  BY <1>1 DEF Types
<1>3. /\ a.status \in Store!Status /\ a.wrap \in KeyPair \cup {None}
      /\ a.inbox \in Tabs \cup {None}
  BY <1>1, <1>2, TaskTypes
<1>4. /\ Registered /\ a.status # "rejected" /\ Known(a.inbox) /\ FullWrap(a.wrap)
      /\ ~WillTell(a)
  BY <1>1, <1>2 DEF InboxInv, TaskFacts, Asked, WillTell
<1>5. PICK m : m = [type |-> "join-status", status |-> a.status, wrap |-> a.wrap,
                    inbox |-> a.inbox]
  OBVIOUS
<1>6. /\ m \in Down /\ m.type = "join-status" /\ m.status = a.status /\ m.wrap = a.wrap
      /\ m.inbox = a.inbox
  BY <1>3, <1>5, NewDowns
<1>7. PICK n : n = AfterReply(a.status)
  OBVIOUS
<1>8. /\ n \in TaskType /\ n.step \in {"idle", "broadcast"}
      /\ a.status = "pending" => n.step = "broadcast"
  BY <1>7, NewTasks DEF AfterReply
<1>9. SendTo({t}, m) /\ GoTo(t, n)
  BY <1>2, <1>5, <1>7 DEF Reply
<1>10. task'[t] = n /\ \A x \in Tabs \ {t} : task'[x] = task[x]
  BY <1>1, <1>8, <1>9, Went
<1>11. /\ down'[t] = Append(down[t], m)
       /\ \A x \in Tabs \ {t} : down'[x] = down[x]
  BY <1>1, <1>6, <1>9, SentOne
<1>12. /\ Stays /\ InboxPub' = InboxPub /\ RequestFacts'
       /\ \A k : InStore(k)' <=> InStore(k)
  BY <1>1, SameStore DEF InboxInv
<1>13. ServerFrame(t)
  BY <1>1, <1>10 DEF ServerFrame, linkVars, browserVars
<1>14. ~Asked(task'[t])
  BY <1>8, <1>10 DEF Asked
<1>15. TaskFacts(task[t])'
  BY <1>8, <1>10 DEF TaskFacts, Asked
<1>16. RightMessage(m)
  <2>1. DownFacts(m)
    BY <1>4, <1>6 DEF DownFacts
  <2>2. DownFacts(m)'
    BY <1>12, <2>1, StillKnown
  <2>3. WrapOf(OldKey, m.wrap) => InTasks(OldKey)
    BY <1>1, <1>2, <1>6 DEF InTasks
  <2>4. WrapOf(OldKey, m.wrap) => HeldKey(OldKey)
    BY <2>3, NamesAssumption DEF HeldKey, Wrapping
  <2>5. ~Accepts(m)
    BY <1>6 DEF Accepts
  <2> QED
    BY <1>6, <2>2, <2>4, <2>5 DEF RightMessage
<1>17. \A x \in Tabs : Told(x)
  BY <1>6, <1>11, <1>16 DEF Told
<1>18. Busy => Busy'
  BY <1>2, <1>4, <1>10, StillBusy
<1>19. ASSUME NEW x \in Tabs PROVE LearnsAt(x)'
  <2>1. CASE x # t
    BY <1>11, <1>12, <1>13, <1>18, <2>1, ServerLearns
  <2>2. CASE x = t
    <3>1. CASE a.status = "pending"
      <4>1. Busy'
        BY <1>8, <1>10, <3>1 DEF Busy, WillTell
      <4> QED
        BY <4>1 DEF LearnsAt
    <3>2. CASE a.status = "approved"
      <4>1. down[t] \in Seq(Down) /\ page[t].waits \in BOOLEAN /\ page' = page
        BY <1>1, <1>13 DEF Types, PageType, ServerFrame
      <4>2. Says(m, "approved")
        BY <1>6, <3>2 DEF Says
      <4>3. Telling(down'[t], page[t].waits)
        BY <1>6, <1>11, <4>1, <4>2, TellingAdded
      <4>4. Telling(down[t], page[t].waits)'
        BY <4>1, <4>3 DEF Telling, Says
      <4> QED
        BY <2>2, <4>4 DEF LearnsAt
    <3> QED
      BY <1>3, <1>4, <3>1, <3>2 DEF Store!Status
  <2> QED
    BY <2>1, <2>2
<1>20. InStore(OldKey)' => HeldKey(OldKey)
  BY <1>12, NamesAssumption DEF HeldKey, Wrapping
<1> QED
  BY <1>12, <1>13, <1>14, <1>15, <1>17, <1>19, <1>20, ServerStep

LEMMA BroadcastInbox ==
    ASSUME Inv, InboxInv, NEW t \in Tabs, Broadcast(t)
    PROVE  InboxInv'
<1>1. /\ GoTo(t, Idle) /\ UNCHANGED storeVars /\ Types
      /\ UNCHANGED <<linkVars, browserVars, reqID, up>>
  BY DEF Broadcast, Inv
<1>2. /\ Stays /\ InboxPub' = InboxPub /\ RequestFacts'
      /\ \A k : InStore(k)' <=> InStore(k)
  BY <1>1, SameStore DEF InboxInv
<1>3. PICK m : m = [type |-> "join-requests", inbox |-> InboxPub]
  OBVIOUS
<1>4. m \in Down /\ m.type = "join-requests" /\ m.inbox = InboxPub
  BY <1>2, <1>3, NewDowns DEF Stays
<1>5. PICK ts : ts = online
  OBVIOUS
<1>6. SendTo(ts, m)
  BY <1>3, <1>5 DEF Broadcast
<1>7. task'[t] = Idle /\ \A x \in Tabs \ {t} : task'[x] = task[x]
  BY <1>1, NewTasks, Went
<1>8. /\ \A x \in Tabs : x \in ts => down'[x] = Append(down[x], m)
      /\ \A x \in Tabs : x \notin ts => down'[x] = down[x]
  BY <1>1, <1>4, <1>6, Sent
<1>9. ServerFrame(t)
  BY <1>1, <1>7 DEF ServerFrame, linkVars, browserVars
<1>10. TaskFacts(task[t])' /\ ~Asked(task'[t])
  BY <1>7, NewTasks DEF TaskFacts, Asked
<1>11. RightMessage(m)
  <2>1. DownFacts(m)'
    BY <1>2, <1>4 DEF DownFacts, Known
  <2> QED
    BY <1>4, <2>1 DEF RightMessage, Accepts
<1>12. \A x \in Tabs : Told(x)
  BY <1>4, <1>8, <1>11 DEF Told
<1>13. ASSUME NEW x \in Tabs PROVE LearnsAt(x)'
  <2> SUFFICES ASSUME InboxPub # None, x \in online, Waiting(x)'
               PROVE  Telling(down[x], page[x].waits)'
    BY <1>2, <1>9 DEF LearnsAt, ServerFrame
  <2>1. down[x] \in Seq(Down) /\ page[x].waits \in BOOLEAN /\ page' = page
    BY <1>1, <1>9 DEF Types, PageType, ServerFrame
  <2>2. down'[x] = Append(down[x], m) /\ Range(down'[x]) = Range(down[x]) \cup {m}
    <3>1. down'[x] = Append(down[x], m)
      BY <1>5, <1>8
    <3>2. Range(Append(down[x], m)) = Range(down[x]) \cup {m}
      BY <1>4, <2>1, Appended
    <3> QED
      BY <3>1, <3>2
  <2>3. page[x].waits \/ \E n \in Range(down[x]) : Says(n, "pending")
    BY <1>4, <2>1, <2>2 DEF Waiting, Says
  <2>4. Telling(down'[x], page[x].waits)
    BY <1>4, <2>1, <2>2, <2>3, TellingAdded
  <2> QED
    BY <2>1, <2>4 DEF Telling, Says
<1>14. InStore(OldKey)' => HeldKey(OldKey)
  BY <1>2, NamesAssumption DEF HeldKey, Wrapping
<1> QED
  BY <1>2, <1>9, <1>10, <1>12, <1>13, <1>14, ServerStep

(* What a member seals for an applicant is the full pair, for it has both   *)
(* halves of the registered one.                                            *)
LEMMA WrappedFull ==
    ASSUME Inv, InboxInv, NEW t \in Tabs, Registered, page[t].claimed
    PROVE  /\ Wrapped(t) \in KeyPair /\ Wrapped(t).key = keys[t].key
           /\ Full(Wrapped(t))
<1>1. keys[t] \in KeyPair
  BY DEF Inv, Types
<1>2. keys[t].key \in Keys \cup {None} /\ keys[t].inbox \in Tabs \cup {None}
  BY <1>1, PairTypes
<1>3. /\ Wrapped(t) \in KeyPair /\ Wrapped(t).key = keys[t].key
      /\ Wrapped(t).inbox = IF InboxOK(t) THEN keys[t].inbox ELSE None
  BY <1>2 DEF Wrapped, KeyPair
<1>4. PICK w \in Worlds : StoreAt(w) /\ LocalAt(w, t)
  BY DEF Inv, Sound
<1>5. PageFacts(t)
  BY DEF InboxInv
<1>6. CASE InboxPub = None
  <2>1. w = "old"
    BY <1>4, <1>6 DEF Worlds, StoreAt
  <2>2. keys[t].key \in {None, OldKey}
    BY <1>4, <2>1 DEF LocalAt, PairIn
  <2> QED
    BY <1>3, <1>6, <2>2 DEF Full, Whole
<1>7. CASE InboxPub # None
  <2>1. SUFFICES ASSUME keys[t].key = InboxPub PROVE Wrapped(t).inbox = InboxPub
    BY <1>3, <1>7 DEF Full
  <2>2. keys[t].inbox = InboxPub
    BY <1>5, <1>7, <2>1 DEF PageFacts, Full
  <2>3. InboxPub \in Tabs
    BY <1>2, <1>7, <2>2
  <2>4. page[t].roomInbox = InboxPub
    BY <1>5, <2>1, <2>3, NamesAssumption DEF PageFacts, Known
  <2> QED
    BY <1>3, <1>7, <2>2, <2>4 DEF InboxOK
<1> QED
  BY <1>3, <1>6, <1>7

LEMMA ApproveInbox ==
    ASSUME Inv, InboxInv, NEW t \in Tabs, NEW b \in Browsers, Approve(t, b)
    PROVE  InboxInv'
<1>0. PICK w \in Worlds : Sound(w)
  BY DEF Inv
<1>1. PICK p : p = Wrapped(t)
  OBVIOUS
<1>2. /\ t \in online /\ page[t].claimed /\ keys[t].key # None /\ Types
      /\ b \in Store!Pending(Room)
      /\ Store!Approve(Room, b, p)
      /\ GoTo(t, [step |-> "broadcast"])
      /\ UNCHANGED <<linkVars, browserVars, reqID, up>>
  BY <1>1 DEF Approve, Inv
<1>3. Registered
  BY <1>2 DEF Store!Approve, Store!DecideOK, Store!IsPending, Store!HasRequest, Registered
<1>4. p \in KeyPair /\ p.key = keys[t].key /\ Full(p) /\ p.inbox \in {None, keys[t].inbox}
  <2>1. keys[t].key \in Keys \cup {None} /\ keys[t].inbox \in Tabs \cup {None}
    BY <1>2, PairTypes DEF Types
  <2> QED
    BY <1>1, <1>2, <1>3, <2>1, WrappedFull DEF Wrapped, KeyPair
<1>5. StoreAt(w) /\ WrapIn(w, "approved", p)
  <2>1. StoreAt(w) /\ PairIn(w, keys[t])
    BY <1>0 DEF Sound, LocalAt
  <2>2. PairIn(w, p)
    BY <1>3, <1>4, <2>1 DEF PairIn
  <2> QED
    BY <1>2, <1>4, <2>1, <2>2, NoneAssumption DEF WrapIn
<1>6. /\ Registered' /\ InboxPub' = InboxPub
      /\ Req(b)' # None /\ Req(b)'.status = "approved" /\ Req(b)'.wrap = p
      /\ \A o \in Browsers \ {b} : Req(o)' = Req(o)
  BY <1>2, <1>4, <1>5, ApprovedInStore
<1>7. Stays
  BY <1>5, <1>6, InboxTyped DEF Stays
<1>8. RequestFacts'
  <2>1. FullWrap(p)
    BY <1>4 DEF FullWrap
  <2> QED
    BY <1>3, <1>6, <1>7, <2>1, RequestMoved DEF InboxInv
<1>9. PICK m : m = [type |-> "join-status", status |-> "approved", wrap |-> p, inbox |-> None]
  OBVIOUS
<1>10. /\ m \in Down /\ m.type = "join-status" /\ m.status = "approved" /\ m.wrap = p
       /\ m.inbox = None
  BY <1>4, <1>9, NewDowns DEF Store!Status
<1>11. PICK ts : ts = {x \in online : reqID[x] = b}
  OBVIOUS
<1>12. SendTo(ts, m)
  BY <1>1, <1>9, <1>11 DEF Approve
<1>13. PICK a : a = [step |-> "broadcast"]
  OBVIOUS
<1>14. a \in TaskType /\ a.step = "broadcast"
  BY <1>13, NewTasks
<1>15. task'[t] = a /\ \A x \in Tabs \ {t} : task'[x] = task[x]
  BY <1>2, <1>13, <1>14, Went
<1>16. \A x \in Tabs : down'[x] = down[x] \/ down'[x] = Append(down[x], m)
  BY <1>2, <1>10, <1>12, Sent
<1>17. ServerFrame(t)
  BY <1>2, <1>15 DEF ServerFrame, linkVars, browserVars
<1>18. TaskFacts(task[t])' /\ ~Asked(task'[t])
  BY <1>14, <1>15 DEF TaskFacts, Asked
<1>19. WrapOf(OldKey, p) => HeldKey(OldKey)
  BY <1>4, NamesAssumption DEF WrapOf, HeldKey
<1>20. RightMessage(m)
  <2>1. DownFacts(m)
    BY <1>3, <1>4, <1>10 DEF DownFacts, Known, FullWrap
  <2>2. DownFacts(m)'
    BY <1>7, <2>1, StillKnown
  <2> QED
    BY <1>10, <1>19, <2>2 DEF RightMessage, Accepts
<1>21. \A x \in Tabs : Told(x)
  BY <1>10, <1>16, <1>20 DEF Told
<1>22. \A x \in Tabs : LearnsAt(x)'
  <2>1. Busy'
    BY <1>14, <1>15 DEF Busy, WillTell
  <2> QED
    BY <2>1 DEF LearnsAt
<1>23. InStore(OldKey)' => HeldKey(OldKey)
  <2>1. InStore(OldKey)' => InStore(OldKey) \/ WrapOf(OldKey, p)
    BY <1>3, <1>6 DEF InStore, WrapOf
  <2> QED
    BY <1>19, <2>1, NamesAssumption DEF HeldKey, Wrapping
<1> QED
  BY <1>7, <1>8, <1>17, <1>18, <1>21, <1>22, <1>23, ServerStep

LEMMA HandleDoneInbox ==
    ASSUME Inv, InboxInv, NEW t \in Tabs, HandleDone(t)
    PROVE  InboxInv'
<1>0. PICK w \in Worlds : StoreAt(w)
  BY DEF Inv, Sound
<1>1. PICK b : b = browserOf[t]
  OBVIOUS
<1>2. /\ Begins(t, "join-done") /\ Types /\ b \in Browsers
      /\ Store!Done(Room, b) \/ UNCHANGED storeVars
      /\ UNCHANGED <<linkVars, browserVars, task, down>>
  BY <1>1 DEF HandleDone, Inv, Types
<1>3. /\ Stays /\ InboxPub' = InboxPub /\ RequestFacts'
      /\ InStore(OldKey)' => InStore(OldKey)
  <2>1. CASE UNCHANGED storeVars
    BY <2>1, SameStore DEF InboxInv
  <2>2. CASE Store!Done(Room, b)
    <3>1. /\ Registered /\ Registered' /\ InboxPub' = InboxPub /\ Req(b)' = None
          /\ \A o \in Browsers \ {b} : Req(o)' = Req(o)
      BY <1>0, <1>2, <2>2, DoneInStore
    <3>2. Stays
      BY <1>0, <3>1, InboxTyped DEF Stays
    <3>3. RequestFacts'
      BY <1>2, <3>1, <3>2, RequestMoved DEF InboxInv
    <3>4. InStore(OldKey)' => InStore(OldKey)
      BY <3>1 DEF InStore, WrapOf
    <3> QED
      BY <3>1, <3>2, <3>3, <3>4
  <2> QED
    BY <1>2, <2>1, <2>2
<1>4. /\ task[t] = Idle /\ Head(up[t]).type = "join-done"
      /\ Range(up[t]) = {Head(up[t])} \cup Range(up'[t])
      /\ \A x \in Tabs \ {t} : up'[x] = up[x]
  BY <1>2, Begun
<1>5. ServerFrame(t) /\ down' = down /\ task' = task
  BY <1>2, <1>4 DEF ServerFrame, linkVars, browserVars
<1>6. TaskFacts(task[t])' /\ ~Asked(task'[t])
  BY <1>4, <1>5, NewTasks DEF TaskFacts, Asked
<1>7. Busy => Busy'
  BY <1>5 DEF Busy, WillTell
<1>8. Asks(t) => Asks(t)'
  BY <1>4, <1>5 DEF Asks, Asked
<1>9. \A x \in Tabs : LearnsAt(x)' /\ Told(x)
  BY <1>3, <1>5, <1>7, <1>8, ServerLearns DEF Told
<1>10. InStore(OldKey)' => HeldKey(OldKey)
  BY <1>3, NamesAssumption DEF HeldKey, Wrapping
<1> QED
  BY <1>3, <1>5, <1>6, <1>9, <1>10, ServerStep

LEMMA FinishClaimInbox ==
    ASSUME Inv, InboxInv, NEW t \in Tabs, FinishClaim(t)
    PROVE  InboxInv'
<1>0. PICK w \in Worlds : StoreAt(w) /\ LocalAt(w, t)
  BY DEF Inv, Sound
<1>1. task[t].step = "claim" /\ UNCHANGED <<linkVars, browserVars, reqID, up>> /\ Types
  BY DEF FinishClaim, Inv
<1>2. PICK a \in TaskType : a = task[t]
  BY <1>1 DEF Types
<1>3. /\ a.step = "claim" /\ a.create \in BOOLEAN /\ a.inbox \in Tabs \cup {None}
      /\ ClaimIn(w, a.create, a.inbox)
      /\ a.had => InboxPub # None
  BY <1>0, <1>1, <1>2, TaskTypes DEF LocalAt, TaskIn, InboxInv, TaskFacts
(* What both outcomes have in common.                                       *)
<1>4. ASSUME NEW m \in Down, m.type = "claim-result", SendTo({t}, m),
             NEW b \in TaskType, b.step \in {"idle", "broadcast"}, GoTo(t, b),
             Stays, RequestFacts', InStore(OldKey)' => InStore(OldKey),
             DownFacts(m)', Accepts(m) /\ m.inbox = None => InboxPub = None,
             InboxPub' = InboxPub /\ WillTell(a) => InboxPub = None \/ WillTell(b),
             InboxPub' # InboxPub => (a.create /\ ~Registered) \/ WillTell(b)
      PROVE  InboxInv'
  <2>1. /\ down'[t] = Append(down[t], m)
        /\ \A x \in Tabs \ {t} : down'[x] = down[x]
    BY <1>1, <1>4, SentOne
  <2>2. task'[t] = b /\ \A x \in Tabs \ {t} : task'[x] = task[x]
    BY <1>1, <1>4, Went
  <2>3. ServerFrame(t)
    BY <1>1, <2>2 DEF ServerFrame, linkVars, browserVars
  <2>4. TaskFacts(task[t])' /\ ~Asked(task'[t])
    BY <1>4, <2>2 DEF TaskFacts, Asked
  <2>5. \A x \in Tabs : Told(x)
    BY <1>4, <2>1 DEF Told, RightMessage
  <2>6. ASSUME NEW x \in Tabs PROVE LearnsAt(x)'
    <3>1. CASE InboxPub' = None
      BY <3>1 DEF LearnsAt
    <3>2. CASE InboxPub' # None /\ InboxPub' = InboxPub
      <4>1. Busy => Busy'
        BY <1>2, <1>4, <2>2, <3>2, StillBusy
      <4>2. Asks(t) => Asks(t)'
        <5>1. \A n \in Range(down[t]) : n \in Range(down'[t])
          <6>1. down[t] \in Seq(Down)
            BY <1>1 DEF Types
          <6>2. Range(Append(down[t], m)) = Range(down[t]) \cup {m}
            BY <1>4, <6>1, Appended
          <6> QED
            BY <2>1, <6>2
        <5> QED
          BY <1>1, <5>1 DEF Asks, Asked
      <4>3. ~Says(m, "pending")
        BY <1>4 DEF Says
      <4> QED
        BY <1>4, <2>1, <2>3, <3>2, <4>1, <4>2, <4>3, ServerLearns
    <3>3. CASE InboxPub' # InboxPub /\ WillTell(b)
      <4>1. Busy'
        BY <2>2, <3>3 DEF Busy, WillTell
      <4> QED
        BY <4>1 DEF LearnsAt
    <3>4. CASE InboxPub' # InboxPub /\ ~Registered
      <4>1. ~page[x].waits /\ \A n \in Range(down[x]) : n.type # "join-status"
        BY <3>4 DEF InboxInv, PageFacts, QueueFacts, DownFacts
      <4>2. \A n \in Range(down'[x]) : n \in Range(down[x]) \/ n = m
        <5>1. down[x] \in Seq(Down)
          BY <1>1 DEF Types
        <5>2. Range(Append(down[x], m)) = Range(down[x]) \cup {m}
          BY <1>4, <5>1, Appended
        <5>3. down'[x] = down[x] \/ down'[x] = Append(down[x], m)
          BY <2>1
        <5> QED
          BY <5>2, <5>3
      <4>3. ~Waiting(x)'
        BY <1>4, <2>3, <4>1, <4>2 DEF Waiting, Says, ServerFrame
      <4> QED
        BY <4>3 DEF LearnsAt
    <3> QED
      BY <1>4, <3>1, <3>2, <3>3, <3>4
  <2>7. InStore(OldKey)' => HeldKey(OldKey)
    BY <1>4, NamesAssumption DEF HeldKey, Wrapping
  <2> QED
    BY <1>4, <2>3, <2>4, <2>5, <2>6, <2>7, ServerStep
<1>5. CASE Store!ClaimOK(Room, a.create)
  <2>1. Store!Claim(Room, a.create, a.inbox)
    BY <1>2, <1>5 DEF FinishClaim
  <2>2. /\ Registered' /\ InboxPub' \in Tabs \cup {None}
        /\ InboxPub # None => InboxPub' = InboxPub
        /\ \A b \in Browsers : Req(b)' # None => Registered /\ Req(b)' = Req(b)
        /\ \A k : InStore(k)' => InStore(k)
        /\ a.create => ~Registered
    BY <1>0, <1>3, <2>1, ClaimedInStore
  <2>3. Stays
    BY <1>0, <2>2, InboxTyped DEF Stays
  <2>4. RequestFacts'
    <3> SUFFICES ASSUME NEW o \in Browsers, Req(o)' # None
                 PROVE  (Req(o).status # "rejected" /\ FullWrap(Req(o).wrap))'
      BY DEF RequestFacts
    <3>1. PICK q : q = Req(o)
      OBVIOUS
    <3>2. Req(o)' = q /\ q.status # "rejected" /\ FullWrap(q.wrap)
      BY <2>2, <3>1 DEF InboxInv, RequestFacts
    <3>3. FullWrap(q.wrap)'
      BY <2>3, <3>2, StillKnown
    <3> QED
      BY <3>2, <3>3 DEF FullWrap, Full, Whole
  <2>5. PICK m : m = [type |-> "claim-result", ok |-> TRUE, inbox |-> InboxPub']
    OBVIOUS
  <2>6. m \in Down /\ m.type = "claim-result" /\ m.inbox = InboxPub'
    BY <2>2, <2>5, NewDowns
  <2>7. PICK b : b = AfterClaim(t)
    OBVIOUS
  <2>8. /\ b \in TaskType /\ b.step \in {"idle", "broadcast"}
        /\ ~a.create /\ ~a.had /\ InboxPub' # None => b.step = "broadcast"
    BY <1>2, <2>7, NewTasks DEF AfterClaim
  <2>9. SendTo({t}, m) /\ GoTo(t, b)
    BY <1>2, <1>5, <2>5, <2>7 DEF FinishClaim
  <2>10. DownFacts(m)'
    BY <2>6 DEF DownFacts, Known
  <2>11. Accepts(m) /\ m.inbox = None => InboxPub = None
    BY <2>2, <2>6
  <2>12. InboxPub' = InboxPub /\ WillTell(a) => InboxPub = None \/ WillTell(b)
    BY <1>3, <2>8 DEF WillTell
  <2>13. InboxPub' # InboxPub => (a.create /\ ~Registered) \/ WillTell(b)
    BY <1>3, <2>2, <2>8 DEF WillTell
  <2> QED
    BY <1>4, <2>2, <2>3, <2>4, <2>6, <2>8, <2>9, <2>10, <2>11, <2>12, <2>13
<1>6. CASE ~Store!ClaimOK(Room, a.create)
  <2>1. a.create
    BY <1>3, <1>6 DEF Store!ClaimOK
  <2>2. PICK m : m = [type |-> "claim-result", ok |-> FALSE, inbox |-> None]
    OBVIOUS
  <2>3. m \in Down /\ m.type = "claim-result" /\ m.ok = FALSE /\ m.inbox = None
    BY <2>2, NewDowns
  <2>4. SendTo({t}, m) /\ GoTo(t, Idle) /\ UNCHANGED storeVars
    BY <1>2, <1>6, <2>2 DEF FinishClaim
  <2>5. /\ Stays /\ InboxPub' = InboxPub /\ RequestFacts'
        /\ \A k : InStore(k)' <=> InStore(k)
    BY <2>4, SameStore DEF InboxInv
  <2>6. DownFacts(m)' /\ ~Accepts(m)
    BY <2>3 DEF DownFacts, Known, Accepts
  <2>7. ~WillTell(a)
    BY <1>3, <2>1 DEF WillTell
  <2> QED
    BY <1>4, <2>3, <2>4, <2>5, <2>6, <2>7, NewTasks
<1> QED
  BY <1>5, <1>6

-----------------------------------------------------------------------------
(* Every action of a page and of its connection keeps them.                 *)

LEMMA StillPage ==
    ASSUME InboxInv, Stays, NEW t \in Tabs,
           page'[t].roomInbox \in {page[t].roomInbox, None},
           page'[t].chat \in {page[t].chat, None},
           page'[t].waits => page[t].waits,
           Full(keys[t])',
           page'[t].claimed =>
             /\ page[t].claimed /\ keys'[t].key = keys[t].key
             /\ page'[t].roomInbox = page[t].roomInbox
    PROVE  PageFacts(t)'
<1>1. PageFacts(t)
  BY DEF InboxInv
<1>2. Known(page[t].roomInbox)' /\ Known(page[t].chat)'
  BY <1>1 DEF PageFacts, Known, Stays
<1> QED
  BY <1>1, <1>2 DEF PageFacts, Stays

LEMMA OldKeyStays ==
    /\ \A x \in Tabs : keys[x].key = OldKey => HeldKey(OldKey)
    /\ \A b \in Browsers : stored[b].key = OldKey => HeldKey(OldKey)
BY NamesAssumption DEF HeldKey

LEMMA ConnectInbox ==
    ASSUME Inv, InboxInv, NEW t \in Tabs, Connect(t)
    PROVE  InboxInv'
<1>1. /\ t \notin online /\ UNCHANGED <<browserOf, serverVars, browserVars, greeted, early, up>>
      /\ online' = online \cup {t} /\ Types
  BY DEF Connect, Inv
<1>2. PICK m : m = [type |-> "welcome", exists |-> Store!Exists(Room)]
  OBVIOUS
<1>3. m.type = "welcome" /\ m \in Down
  BY <1>2, NewDowns DEF Store!Exists
<1>4. down'[t] = <<m>> /\ \A x \in Tabs \ {t} : down'[x] = down[x]
  BY <1>1, <1>2 DEF Connect, Types
<1>5. Range(down'[t]) = {m} /\ Len(down'[t]) = 1
  BY <1>3, <1>4, OnlyWelcome
<1>6. Stays
  BY <1>1, SameStore DEF serverVars, storeVars
<1>7. OwnFrame(t)
  BY <1>1, <1>3, <1>4, <1>5 DEF OwnFrame, serverVars, storeVars, browserVars
<1>8. PageFacts(t)'
  BY <1>1, <1>6, StayingPage DEF InboxInv, browserVars
<1>9. QueueFacts(t)'
  <2>1. NamedInOrder(down[t])'
    BY <1>5 DEF NamedInOrder
  <2> QED
    BY <1>3, <1>5, <2>1 DEF QueueFacts, DownFacts, AllNamed, Accepts
<1>10. LearnsAt(t)'
  BY <1>3, <1>5 DEF LearnsAt, Asks
<1>11. StoredFull'
  BY <1>1, <1>6, StayingStored DEF InboxInv, browserVars
<1>12. \A s \in Tabs : <<s, t>> \notin greeted' \ early'
  BY <1>1 DEF Types
<1>13. keys' = keys /\ stored' = stored
  BY <1>1 DEF browserVars
<1> QED
  BY <1>1, <1>7, <1>8, <1>9, <1>10, <1>11, <1>12, <1>13, OldKeyStays, OwnStep

LEMMA DropInbox ==
    ASSUME Inv, InboxInv, NEW t \in Tabs, Drop(t),
           keys' = keys \/ keys' = [keys EXCEPT ![t] = stored[browserOf[t]]],
           \A x \in Tabs \ {t} : page'[x] = page[x],
           page'[t].roomInbox \in {page[t].roomInbox, None},
           page'[t].chat \in {page[t].chat, None},
           page'[t].waits => page[t].waits,
           ~page'[t].claimed
    PROVE  InboxInv'
<1>1. /\ UNCHANGED <<storeVars, task, stored>> /\ online' = online \ {t} /\ Types
      /\ up' = [up EXCEPT ![t] = <<>>] /\ down' = [down EXCEPT ![t] = <<>>]
      /\ greeted' = OfOthers(greeted, t) /\ early' = OfOthers(early, t)
  BY DEF Drop, Inv
<1>2. /\ down'[t] = <<>> /\ t \notin online'
      /\ \A x \in Tabs \ {t} : down'[x] = down[x] /\ up'[x] = up[x]
  BY <1>1 DEF Types
<1>3. Stays
  BY <1>1, SameStore
<1>4. /\ keys'[t] \in {keys[t], stored[browserOf[t]]}
      /\ \A x \in Tabs \ {t} : keys'[x] = keys[x]
  BY <1>1 DEF Types
<1>5. browserOf[t] \in Browsers
  BY <1>1 DEF Types
<1>6. OwnFrame(t)
  BY <1>1, <1>2, <1>4, EmptyQueue DEF OwnFrame
<1>7. Full(keys[t])'
  <2>1. PICK p : p = keys'[t]
    OBVIOUS
  <2>2. Full(p)
    BY <1>4, <1>5, <2>1 DEF InboxInv, PageFacts, StoredFull
  <2>3. Full(p)'
    BY <1>3, <2>2, StillFull
  <2> QED
    BY <2>1, <2>3 DEF Full, Whole
<1>8. PageFacts(t)'
  BY <1>3, <1>7, StillPage
<1>9. QueueFacts(t)'
  <2>1. NamedInOrder(down[t])'
    BY <1>2, EmptyQueue DEF NamedInOrder
  <2> QED
    BY <1>2, <2>1, EmptyQueue DEF QueueFacts, AllNamed
<1>10. LearnsAt(t)'
  BY <1>2 DEF LearnsAt
<1>11. StoredFull'
  BY <1>1, <1>3, StayingStored DEF InboxInv
<1>12. \A s, y \in Tabs : <<s, y>> \in greeted' \ early' => y # t /\ <<s, y>> \in greeted \ early
  BY <1>1 DEF OfOthers
<1>13. /\ keys'[t].key = OldKey => HeldKey(OldKey)
       /\ \A b \in Browsers : stored'[b].key = OldKey => HeldKey(OldKey)
  BY <1>1, <1>4, <1>5, OldKeyStays
<1> QED
  BY <1>6, <1>8, <1>9, <1>10, <1>11, <1>12, <1>13, OwnStep

LEMMA DisconnectInbox ==
    ASSUME Inv, InboxInv, NEW t \in Tabs, Disconnect(t)
    PROVE  InboxInv'
<1>1. Drop(t) /\ keys' = keys /\ page' = [page EXCEPT ![t].claimed = FALSE]
  BY DEF Disconnect
<1>2. page \in [Tabs -> PageType]
  BY DEF Inv, Types
<1>3. /\ \A x \in Tabs \ {t} : page'[x] = page[x]
      /\ page'[t].roomInbox = page[t].roomInbox /\ page'[t].chat = page[t].chat
      /\ page'[t].waits = page[t].waits /\ ~page'[t].claimed
  BY <1>1, <1>2 DEF PageType
<1> QED
  BY <1>1, <1>3, DropInbox

LEMMA ReloadInbox ==
    ASSUME Inv, InboxInv, NEW t \in Tabs, Reload(t)
    PROVE  InboxInv'
<1>1. /\ Drop(t) /\ keys' = [keys EXCEPT ![t] = stored[browserOf[t]]]
      /\ page' = [page EXCEPT ![t] = NewPage]
  BY DEF Reload
<1>2. page \in [Tabs -> PageType]
  BY DEF Inv, Types
<1>3. /\ \A x \in Tabs \ {t} : page'[x] = page[x]
      /\ page'[t].roomInbox = None /\ page'[t].chat = None
      /\ ~page'[t].waits /\ ~page'[t].claimed
  BY <1>1, <1>2 DEF NewPage
<1> QED
  BY <1>1, <1>3, DropInbox

(* A page takes the head of its queue.                                      *)
LEMMA HandledInbox ==
    ASSUME Inv, InboxInv, NEW t \in Tabs, NEW type, Receives(t, type),
           UNCHANGED <<linkVars, serverVars>>,
           \A x \in Tabs \ {t} : keys'[x] = keys[x] /\ page'[x] = page[x] /\ up'[x] = up[x]
    PROVE  /\ OwnFrame(t) /\ Stays /\ InboxPub' = InboxPub
           /\ Head(down[t]) \in Down /\ Head(down[t]).type = type
           /\ Head(down[t]) \in Range(down[t]) /\ DownFacts(Head(down[t]))
           /\ down[t] \in Seq(Down) /\ down[t] # <<>> /\ down'[t] = Tail(down[t])
           /\ Range(down[t]) = {Head(down[t])} \cup Range(down'[t])
           /\ (\A m \in Range(down[t]) : DownFacts(m))' /\ NamedInOrder(down[t])'
           /\ Names(Head(down[t])) => AllNamed(down'[t])
           /\ AllNamed(down[t]) => AllNamed(down'[t])
           /\ Busy => Busy'
<1>1. PICK w \in Worlds : LocalAt(w, t)
  BY DEF Inv, Sound
<1>2. /\ Head(down[t]) \in Down /\ Head(down[t]).type = type
      /\ down[t] # <<>> /\ down'[t] = Tail(down[t])
      /\ Range(down[t]) = {Head(down[t])} \cup Range(down'[t])
      /\ \A x \in Tabs \ {t} : down'[x] = down[x]
  BY <1>1, Received DEF Inv, LocalAt
<1>3. OwnFrame(t)
  BY <1>2 DEF OwnFrame, linkVars, serverVars, storeVars
<1>4. Stays /\ InboxPub' = InboxPub
  BY <1>3, SameStore DEF OwnFrame
<1>5. down[t] \in Seq(Down)
  BY DEF Inv, Types
<1>6. QueueFacts(t)
  BY DEF InboxInv
<1>7. /\ NamedInOrder(Tail(down[t]))
      /\ Names(Head(down[t])) => AllNamed(Tail(down[t]))
  BY <1>2, <1>5, <1>6, NamesTaken DEF QueueFacts
<1>8. NamedInOrder(down[t])'
  BY <1>2, <1>7 DEF NamedInOrder
<1>9. (\A m \in Range(down[t]) : DownFacts(m))'
  BY <1>2, <1>4, <1>6, StillKnown DEF QueueFacts
<1>10. AllNamed(down[t]) => AllNamed(down'[t])
  BY <1>2 DEF AllNamed
<1>11. Busy => Busy'
  BY <1>3 DEF Busy, WillTell, OwnFrame
<1>12. Head(down[t]) \in Range(down[t]) /\ DownFacts(Head(down[t]))
  BY <1>2, <1>6 DEF QueueFacts
<1> QED
  BY <1>2, <1>3, <1>4, <1>5, <1>7, <1>8, <1>9, <1>10, <1>11, <1>12

(* What is left to show of the page that took it.                           *)
LEMMA MessageInbox ==
    ASSUME Inv, InboxInv, NEW t \in Tabs, NEW type, Receives(t, type),
           UNCHANGED <<linkVars, serverVars>>,
           \A x \in Tabs \ {t} : keys'[x] = keys[x] /\ page'[x] = page[x] /\ up'[x] = up[x],
           PageFacts(t)', StoredFull', LearnsAt(t)',
           page'[t].roomInbox # None => AllNamed(down'[t]),
           keys'[t].key = OldKey => HeldKey(OldKey),
           \A b \in Browsers : stored'[b].key = OldKey => HeldKey(OldKey),
           HeldKey(OldKey) /\ Has(t) => keys'[t].key # None /\ InboxOK(t)'
    PROVE  InboxInv'
<1>1. /\ OwnFrame(t)
      /\ (\A m \in Range(down[t]) : DownFacts(m))' /\ NamedInOrder(down[t])'
      /\ AllNamed(down[t]) => AllNamed(down'[t])
  BY HandledInbox
<1>2. QueueFacts(t)'
  BY <1>1 DEF QueueFacts, AllNamed
<1>3. greeted' = greeted /\ early' = early
  BY DEF linkVars
<1>4. HeldKey(OldKey) => \A s \in Tabs : <<s, t>> \in greeted' \ early' => Has(t)'
  BY <1>1, <1>3 DEF InboxInv, GreetedHave, Has, AllNamed
<1> QED
  BY <1>1, <1>2, <1>3, <1>4, OwnStep

LEMMA TookFull ==
    ASSUME Inv, InboxInv, Stays, NEW t \in Tabs, NEW new \in KeyPair, TakeKeys(t, new),
           Full(new), new.key = OldKey => HeldKey(OldKey)
    PROVE  /\ StoredFull' /\ Full(keys[t])' /\ keys'[t] = new
           /\ \A x \in Tabs \ {t} : keys'[x] = keys[x]
           /\ keys'[t].key = OldKey => HeldKey(OldKey)
           /\ \A b \in Browsers : stored'[b].key = OldKey => HeldKey(OldKey)
<1>1. /\ keys'[t] = new /\ \A x \in Tabs \ {t} : keys'[x] = keys[x]
      /\ stored'[browserOf[t]] = new
      /\ \A b \in Browsers \ {browserOf[t]} : stored'[b] = stored[b]
  BY TookKeys DEF Inv
<1>2. Full(new)'
  BY StillFull
<1>3. Full(keys[t])'
  BY <1>1, <1>2 DEF Full, Whole
<1>4. StoredFull'
  <2> SUFFICES ASSUME NEW b \in Browsers PROVE Full(stored[b])'
    BY DEF StoredFull
  <2>1. PICK p : p = stored'[b]
    OBVIOUS
  <2>2. Full(p)
    BY <1>1, <2>1 DEF InboxInv, StoredFull
  <2>3. Full(p)'
    BY <2>2, StillFull
  <2> QED
    BY <2>1, <2>3 DEF Full, Whole
<1> QED
  BY <1>1, <1>3, <1>4, OldKeyStays

(* The other half of a pair is filled in.                                   *)
LEMMA FullTaken ==
    ASSUME NEW p \in KeyPair, NEW i \in Tabs \cup {None}, Full(p),
           \/ p.inbox # None => i = p.inbox
           \/ i # None /\ i = InboxPub
    PROVE  /\ [p EXCEPT !.inbox = i] \in KeyPair /\ [p EXCEPT !.inbox = i].key = p.key
           /\ [p EXCEPT !.inbox = i].inbox = i /\ Full([p EXCEPT !.inbox = i])
<1>1. /\ [p EXCEPT !.inbox = i] \in KeyPair /\ [p EXCEPT !.inbox = i].key = p.key
      /\ [p EXCEPT !.inbox = i].inbox = i
  BY PairTypes
<1> QED
  BY <1>1 DEF Full, Whole

LEMMA OnWelcomeInbox ==
    ASSUME Inv, InboxInv, NEW t \in Tabs, OnWelcome(t)
    PROVE  InboxInv'
<1>1. /\ Receives(t, "welcome") /\ UNCHANGED <<linkVars, serverVars>> /\ Types
      /\ PageFacts(t) /\ Full(keys[t])
  BY DEF OnWelcome, Inv, InboxInv, PageFacts
<1>2. page \in [Tabs -> PageType] /\ page[t] \in PageType
  BY <1>1 DEF Types
<1>3. PICK w \in Worlds : LocalAt(w, t)
  BY DEF Inv, Sound
<1>4. ASSUME keys[t].key # None, page' = [page EXCEPT ![t].creating = FALSE],
             Answers(t, <<ClaimMessage(FALSE, keys[t].inbox)>>), KeepKeys
      PROVE  InboxInv'
  <2>1. /\ \A x \in Tabs \ {t} : page'[x] = page[x]
        /\ page'[t].roomInbox = page[t].roomInbox /\ page'[t].chat = page[t].chat
        /\ page'[t].waits = page[t].waits /\ page'[t].claimed = page[t].claimed
    BY <1>2, <1>4 DEF PageType
  <2>2. \A x \in Tabs \ {t} : up'[x] = up[x]
    BY <1>1, <1>4 DEF Answers, Types
  <2>3. keys' = keys /\ stored' = stored
    BY <1>4 DEF KeepKeys
  <2>4. Stays /\ (AllNamed(down[t]) => AllNamed(down'[t]))
    BY <1>1, <2>1, <2>2, <2>3, HandledInbox
  <2>5. PageFacts(t)' /\ StoredFull'
    <3>1. Full(keys[t])'
      BY <1>1, <2>3, <2>4, StillFull
    <3> QED
      BY <2>1, <2>3, <2>4, <3>1, StillPage, StayingStored DEF InboxInv
  <2>6. LearnsAt(t)'
    BY <1>4, <2>3 DEF LearnsAt
  <2>7. page'[t].roomInbox # None => AllNamed(down'[t])
    BY <2>1, <2>4 DEF InboxInv, QueueFacts
  <2>8. HeldKey(OldKey) /\ Has(t) => keys'[t].key # None /\ InboxOK(t)'
    BY <2>1, <2>3 DEF Has, InboxOK
  <2> QED
    BY <1>1, <2>1, <2>2, <2>3, <2>5, <2>6, <2>7, <2>8, OldKeyStays, MessageInbox
<1>5. ASSUME keys[t].key = None, TakeKeys(t, [key |-> t, inbox |-> t]),
             page' = [page EXCEPT ![t].creating = TRUE],
             Answers(t, <<ClaimMessage(TRUE, t)>>)
      PROVE  InboxInv'
  <2>1. /\ \A x \in Tabs \ {t} : page'[x] = page[x]
        /\ page'[t].roomInbox = page[t].roomInbox /\ page'[t].chat = page[t].chat
        /\ page'[t].waits = page[t].waits /\ page'[t].claimed = page[t].claimed
    BY <1>2, <1>5 DEF PageType
  <2>2. \A x \in Tabs \ {t} : up'[x] = up[x]
    BY <1>1, <1>5 DEF Answers, Types
  <2>3. PICK new : new = [key |-> t, inbox |-> t]
    OBVIOUS
  <2>4. /\ new \in KeyPair /\ new.key = t /\ t # None /\ t # OldKey
        /\ TakeKeys(t, new) /\ Full(new)
    BY <1>5, <2>3, PairTypes, NamesAssumption DEF Keys, Full, Whole
  <2>5. /\ keys'[t] = new /\ \A x \in Tabs \ {t} : keys'[x] = keys[x]
    BY <1>1, <2>4, TookKeys
  <2>6. Stays /\ (AllNamed(down[t]) => AllNamed(down'[t]))
    BY <1>1, <2>1, <2>2, <2>5, HandledInbox
  <2>7. /\ StoredFull' /\ Full(keys[t])'
        /\ keys'[t].key = OldKey => HeldKey(OldKey)
        /\ \A b \in Browsers : stored'[b].key = OldKey => HeldKey(OldKey)
    BY <2>4, <2>6, TookFull
  <2>8. ~page[t].claimed
    BY <1>3, <1>5 DEF LocalAt
  <2>9. PageFacts(t)'
    BY <2>1, <2>6, <2>7, <2>8, StillPage
  <2>10. LearnsAt(t)'
    BY <2>4, <2>5 DEF LearnsAt
  <2>11. page'[t].roomInbox # None => AllNamed(down'[t])
    BY <2>1, <2>6 DEF InboxInv, QueueFacts
  <2>12. ~Has(t)
    BY <1>5 DEF Has
  <2> QED
    BY <1>1, <2>1, <2>2, <2>5, <2>7, <2>9, <2>10, <2>11, <2>12, MessageInbox
<1>6. ASSUME keys[t].key = None, Answers(t, <<JoinRequest>>), KeepKeys, UNCHANGED page
      PROVE  InboxInv'
  <2>1. /\ Range(up'[t]) = Range(up[t]) \cup {JoinRequest}
        /\ \A x \in Tabs \ {t} : up'[x] = up[x]
    BY <1>1, <1>6, NewUps, Answered
  <2>2. keys' = keys /\ stored' = stored /\ page' = page
    BY <1>6 DEF KeepKeys
  <2>3. Stays /\ (AllNamed(down[t]) => AllNamed(down'[t]))
    BY <1>1, <2>1, <2>2, HandledInbox
  <2>4. PageFacts(t)' /\ StoredFull'
    BY <1>1, <2>2, <2>3, StayingPage, StayingStored DEF InboxInv
  <2>5. LearnsAt(t)'
    BY <2>1, NewUps DEF LearnsAt, Asks
  <2>6. page'[t].roomInbox # None => AllNamed(down'[t])
    BY <2>2, <2>3 DEF InboxInv, QueueFacts
  <2>7. ~Has(t)
    BY <1>6 DEF Has
  <2> QED
    BY <1>1, <2>1, <2>2, <2>4, <2>5, <2>6, <2>7, OldKeyStays, MessageInbox
<1> QED
  BY <1>4, <1>5, <1>6 DEF OnWelcome

LEMMA RefusedInbox ==
    ASSUME Inv, InboxInv, NEW t \in Tabs, Receives(t, "claim-result"), ~Head(down[t]).ok,
           OnRefusal(t), page' = [page EXCEPT ![t].creating = FALSE],
           UNCHANGED <<linkVars, serverVars>>
    PROVE  InboxInv'
<1>1. Types /\ page \in [Tabs -> PageType] /\ page[t] \in PageType
  BY DEF Inv, Types
<1>2. /\ \A x \in Tabs \ {t} : page'[x] = page[x]
      /\ page'[t].roomInbox = page[t].roomInbox /\ page'[t].chat = page[t].chat
      /\ page'[t].waits = page[t].waits /\ page'[t].claimed = page[t].claimed
  BY <1>1 DEF PageType
<1>3. /\ NoKeys \in KeyPair /\ TakeKeys(t, NoKeys) /\ NoKeys.key = None
      /\ Answers(t, <<JoinRequest>>)
  BY PairTypes DEF OnRefusal
<1>4. /\ Range(up'[t]) = Range(up[t]) \cup {JoinRequest}
      /\ \A x \in Tabs \ {t} : up'[x] = up[x]
  BY <1>1, <1>3, NewUps, Answered
<1>5. /\ keys'[t] = NoKeys /\ \A x \in Tabs \ {t} : keys'[x] = keys[x]
  BY <1>1, <1>3, TookKeys
<1>6. /\ Stays /\ (AllNamed(down[t]) => AllNamed(down'[t]))
      /\ Head(down[t]).type = "claim-result" /\ Head(down[t]) \in Range(down[t])
  BY <1>2, <1>4, <1>5, HandledInbox
<1>7. Full(NoKeys) /\ NoKeys.key # OldKey
  BY <1>3, NamesAssumption DEF Full, Whole
<1>8. /\ StoredFull' /\ Full(keys[t])'
      /\ keys'[t].key = OldKey => HeldKey(OldKey)
      /\ \A b \in Browsers : stored'[b].key = OldKey => HeldKey(OldKey)
  BY <1>3, <1>6, <1>7, TookFull
<1>9. ~page[t].claimed
  <2>1. PICK w \in Worlds : LocalAt(w, t)
    BY DEF Inv, Sound
  <2>2. Trying(t)
    BY <1>6 DEF Trying
  <2> QED
    BY <2>1, <2>2 DEF LocalAt, TriesAlone
<1>10. PageFacts(t)'
  BY <1>2, <1>6, <1>8, <1>9, StillPage
<1>11. LearnsAt(t)'
  BY <1>4, NewUps DEF LearnsAt, Asks
<1>12. page'[t].roomInbox # None => AllNamed(down'[t])
  BY <1>2, <1>6 DEF InboxInv, QueueFacts
<1>13. ~HeldKey(OldKey)
  <2> SUFFICES ASSUME HeldKey(OldKey) PROVE FALSE
    OBVIOUS
  <2>1. LocalAt("old", t)
    BY InOldRoom DEF Sound
  <2> QED
    BY <1>6, <2>1 DEF LocalAt, AnswerIn
<1> QED
  BY <1>2, <1>4, <1>5, <1>8, <1>10, <1>11, <1>12, <1>13, MessageInbox

LEMMA ConfirmedInbox ==
    ASSUME Inv, InboxInv, NEW t \in Tabs, Receives(t, "claim-result"),
           NEW m, m = Head(down[t]), m.ok, NEW register \in BOOLEAN,
           NEW i \in Tabs \cup {None}, i = m.inbox, register => i = None,
           NEW inbox \in Tabs, keys[t].inbox # None => inbox = keys[t].inbox,
           page' = [page EXCEPT ![t] = [@ EXCEPT
                      !.creating = FALSE, !.claimed = TRUE, !.roomInbox = i,
                      !.inboxClaimed = page[t].inboxClaimed \/ register]],
           IF register
           THEN /\ TakeKeys(t, [keys[t] EXCEPT !.inbox = inbox])
                /\ Answers(t, <<ClaimMessage(FALSE, inbox)>>)
           ELSE KeepKeys /\ UNCHANGED up,
           UNCHANGED <<linkVars, serverVars>>
    PROVE  InboxInv'
<1>1. /\ Types /\ page \in [Tabs -> PageType] /\ page[t] \in PageType
      /\ keys[t] \in KeyPair /\ PageFacts(t) /\ Full(keys[t])
  BY DEF Inv, Types, InboxInv, PageFacts
<1>2. /\ \A x \in Tabs \ {t} : page'[x] = page[x]
      /\ page'[t].roomInbox = i /\ page'[t].chat = page[t].chat
      /\ page'[t].waits = page[t].waits
  BY <1>1 DEF PageType
<1>3. \A x \in Tabs \ {t} : up'[x] = up[x]
  BY <1>1 DEF Answers, Types
<1>4. PICK new : new = [keys[t] EXCEPT !.inbox = inbox]
  OBVIOUS
<1>5. new \in KeyPair /\ new.key = keys[t].key /\ new.inbox = inbox /\ Full(new)
  BY <1>1, <1>4, FullTaken
<1>6. /\ keys'[t] = IF register THEN new ELSE keys[t]
      /\ \A x \in Tabs \ {t} : keys'[x] = keys[x]
  BY <1>1, <1>4, <1>5, TookKeys DEF KeepKeys
<1>7. /\ Stays /\ InboxPub' = InboxPub
      /\ m \in Down /\ m.type = "claim-result" /\ m \in Range(down[t]) /\ DownFacts(m)
      /\ Names(m) => AllNamed(down'[t])
  BY <1>2, <1>3, <1>6, HandledInbox
<1>8. /\ StoredFull' /\ Full(keys[t])'
      /\ keys'[t].key = OldKey => HeldKey(OldKey)
      /\ \A b \in Browsers : stored'[b].key = OldKey => HeldKey(OldKey)
  <2>1. CASE register
    BY <1>4, <1>5, <1>7, <2>1, OldKeyStays, TookFull
  <2>2. CASE ~register
    <3>1. keys' = keys /\ stored' = stored
      BY <2>2 DEF KeepKeys
    <3>2. Full(keys[t])'
      BY <1>1, <1>7, <3>1, StillFull
    <3> QED
      BY <1>7, <3>1, <3>2, OldKeyStays, StayingStored DEF InboxInv
  <2> QED
    BY <2>1, <2>2
<1>9. Known(i)
  BY <1>7 DEF DownFacts
<1>10. PICK w \in Worlds : LocalAt(w, t)
  BY DEF Inv, Sound
<1>11. keys[t].key # None
  BY <1>7, <1>10 DEF LocalAt, InFlight, NoResult
<1>12. keys'[t].key = keys[t].key
  BY <1>5, <1>6
<1>13. keys[t].key # OldKey => i # None
  <2>1. CASE w = "new"
    BY <1>7, <1>10, <2>1 DEF LocalAt, AnswerIn
  <2>2. CASE w = "old"
    BY <1>10, <1>11, <2>2 DEF LocalAt, PairIn
  <2> QED
    BY <2>1, <2>2 DEF Worlds
<1>14. PageFacts(t)'
  BY <1>1, <1>2, <1>7, <1>8, <1>9, <1>12, <1>13 DEF PageFacts, Known, Stays
<1>15. LearnsAt(t)'
  BY <1>11, <1>12 DEF LearnsAt
<1>16. page'[t].roomInbox # None => AllNamed(down'[t])
  BY <1>2, <1>7 DEF Names
<1>17. HeldKey(OldKey) /\ Has(t) => keys'[t].key # None /\ InboxOK(t)'
  <2> SUFFICES ASSUME Has(t) PROVE InboxOK(t)'
    BY <1>11, <1>12
  <2>1. i # None
    BY <1>7 DEF Has, AllNamed, Accepts
  <2>2. i = InboxPub /\ keys[t].inbox = InboxPub
    BY <1>1, <1>9, <2>1 DEF Has, InboxOK, PageFacts, Known
  <2> QED
    BY <1>2, <1>6, <2>1, <2>2 DEF InboxOK
<1> QED
  BY <1>2, <1>3, <1>6, <1>8, <1>14, <1>15, <1>16, <1>17, MessageInbox

LEMMA OnClaimResultInbox ==
    ASSUME Inv, InboxInv, NEW t \in Tabs, OnClaimResult(t)
    PROVE  InboxInv'
<1>1. PICK m : m = Head(down[t])
  OBVIOUS
<1>2. PICK w \in Worlds : LocalAt(w, t)
  BY DEF Inv, Sound
<1>3. Receives(t, "claim-result") /\ UNCHANGED <<linkVars, serverVars>>
  BY DEF OnClaimResult
<1>4. m \in Down /\ m.type = "claim-result"
  BY <1>1, <1>2, <1>3, Received DEF Inv, LocalAt
<1>5. m.inbox \in Tabs \cup {None}
  BY <1>4, DownTypes
<1>6. PICK register \in BOOLEAN : register <=> m.inbox = None /\ ~page[t].inboxClaimed
  OBVIOUS
<1>7. PICK inbox : inbox = IF keys[t].inbox = None THEN t ELSE keys[t].inbox
  OBVIOUS
<1>8. inbox \in Tabs /\ (keys[t].inbox # None => inbox = keys[t].inbox)
  BY <1>7, PairTypes DEF Inv, Types
<1>9. CASE ~m.ok
  <2>1. OnRefusal(t) /\ page' = [page EXCEPT ![t].creating = FALSE]
    BY <1>1, <1>9 DEF OnClaimResult
  <2> QED
    BY <1>1, <1>3, <1>9, <2>1, RefusedInbox
<1>10. CASE m.ok
  <2>1. register = (m.inbox = None /\ ~page[t].inboxClaimed)
    BY <1>6
  <2>2. /\ page' = [page EXCEPT ![t] = [@ EXCEPT
                      !.creating = FALSE, !.claimed = TRUE, !.roomInbox = m.inbox,
                      !.inboxClaimed = page[t].inboxClaimed \/ register]]
        /\ IF register
           THEN /\ TakeKeys(t, [keys[t] EXCEPT !.inbox = inbox])
                /\ Answers(t, <<ClaimMessage(FALSE, inbox)>>)
           ELSE KeepKeys /\ UNCHANGED up
    BY <1>1, <1>7, <1>10, <2>1 DEF OnClaimResult
  <2>3. PICK i \in Tabs \cup {None} : i = m.inbox
    BY <1>5
  <2>4. /\ page' = [page EXCEPT ![t] = [@ EXCEPT
                      !.creating = FALSE, !.claimed = TRUE, !.roomInbox = i,
                      !.inboxClaimed = page[t].inboxClaimed \/ register]]
    BY <2>2, <2>3
  <2> QED
    BY <1>1, <1>3, <1>6, <1>8, <1>10, <2>2, <2>3, <2>4, ConfirmedInbox
<1> QED
  BY <1>9, <1>10

LEMMA OnJoinRequestsInbox ==
    ASSUME Inv, InboxInv, NEW t \in Tabs, OnJoinRequests(t)
    PROVE  InboxInv'
<1>1. /\ Receives(t, "join-requests") /\ KeepKeys /\ up' = up
      /\ UNCHANGED <<linkVars, serverVars>>
  BY DEF OnJoinRequests
<1>2. /\ Types /\ page \in [Tabs -> PageType] /\ page[t] \in PageType
      /\ PageFacts(t) /\ QueueFacts(t) /\ LearnsAt(t) /\ Full(keys[t])
  BY DEF Inv, Types, InboxInv, PageFacts
<1>3. PICK w \in Worlds : LocalAt(w, t)
  BY DEF Inv, Sound
<1>4. PICK h : h = Head(down[t])
  OBVIOUS
<1>5. h \in Down /\ h.type = "join-requests"
  BY <1>1, <1>2, <1>3, <1>4, Received DEF LocalAt
<1>6. PICK i \in Tabs \cup {None} : i = h.inbox
  BY <1>5, DownTypes
<1>7. keys' = keys /\ stored' = stored
  BY <1>1 DEF KeepKeys
<1>8. \/ /\ keys[t].key # None
         /\ page' = [page EXCEPT ![t].roomInbox = IF i = None THEN @ ELSE i]
      \/ /\ keys[t].key = None
         /\ page' = [page EXCEPT ![t].chat = Chat(t, page[t].waits, i)]
  BY <1>4, <1>6 DEF OnJoinRequests
<1>9. \A x \in Tabs \ {t} : page'[x] = page[x]
  BY <1>2, <1>8
<1>10. /\ OwnFrame(t) /\ Stays /\ InboxPub' = InboxPub /\ DownFacts(h)
       /\ down[t] \in Seq(Down) /\ down[t] # <<>> /\ down'[t] = Tail(down[t])
       /\ Range(down[t]) = {h} \cup Range(down'[t])
       /\ Names(h) => AllNamed(down'[t])
       /\ AllNamed(down[t]) => AllNamed(down'[t])
       /\ Busy => Busy'
  BY <1>1, <1>4, <1>7, <1>9, HandledInbox
<1>11. Known(i)
  BY <1>5, <1>6, <1>10 DEF DownFacts
<1>12. Full(keys[t])' /\ StoredFull'
  BY <1>2, <1>7, <1>10, StillFull, StayingStored DEF InboxInv
<1>13. CASE /\ keys[t].key # None
            /\ page' = [page EXCEPT ![t].roomInbox = IF i = None THEN @ ELSE i]
  <2>1. /\ page'[t].roomInbox = IF i = None THEN page[t].roomInbox ELSE i
        /\ page'[t].chat = page[t].chat /\ page'[t].waits = page[t].waits
        /\ page'[t].claimed = page[t].claimed
    BY <1>2, <1>13 DEF PageType
  <2>2. PageFacts(t)'
    BY <1>2, <1>7, <1>10, <1>11, <1>12, <2>1 DEF PageFacts, Known, Stays
  <2>3. LearnsAt(t)'
    BY <1>7, <1>13 DEF LearnsAt
  <2>4. page'[t].roomInbox # None => AllNamed(down'[t])
    BY <1>2, <1>5, <1>6, <1>10, <2>1 DEF Names, QueueFacts
  <2>5. Has(t) => InboxOK(t)'
    BY <1>2, <1>7, <1>11, <2>1 DEF Has, InboxOK, PageFacts, Known
  <2> QED
    BY <1>1, <1>7, <1>9, <1>12, <1>13, <2>2, <2>3, <2>4, <2>5, OldKeyStays, MessageInbox
<1>14. CASE /\ keys[t].key = None
            /\ page' = [page EXCEPT ![t].chat = Chat(t, page[t].waits, i)]
  <2>1. /\ page'[t].roomInbox = page[t].roomInbox
        /\ page'[t].chat = Chat(t, page[t].waits, i) /\ page'[t].waits = page[t].waits
        /\ page'[t].claimed = page[t].claimed
    BY <1>2, <1>14 DEF PageType
  <2>2. PageFacts(t)'
    BY <1>2, <1>7, <1>10, <1>11, <1>12, <2>1 DEF PageFacts, Known, Stays, Chat
  <2>3. LearnsAt(t)'
    <3> SUFFICES ASSUME InboxPub # None, t \in online, page'[t].chat = None, Waiting(t)', ~Busy'
                 PROVE  Asks(t)' \/ Telling(down[t], page[t].waits)'
      BY <1>7, <1>10, <1>1 DEF LearnsAt, linkVars
    <3>1. page[t].chat = None /\ (page[t].waits => i = None)
      BY <1>14, <2>1 DEF Chat
    <3>2. Waiting(t)
      BY <1>10, <2>1 DEF Waiting, Says
    <3>3. Asks(t) => Asks(t)'
      BY <1>1, <1>5, <1>10 DEF Asks, Asked, OwnFrame
    <3>4. ASSUME Telling(down[t], page[t].waits) PROVE Telling(down[t], page[t].waits)'
      <4>1. page[t].waits \in BOOLEAN /\ ~Says(h, "approved") /\ ~Says(h, "pending")
        BY <1>2, <1>5 DEF PageType, Says
      <4>2. Telling(Tail(down[t]), page[t].waits \/ Says(h, "pending"))
        BY <1>4, <1>6, <1>10, <3>1, <3>4, <4>1, TellingTaken
      <4>3. (page[t].waits \/ Says(h, "pending")) = page'[t].waits
        BY <2>1, <4>1
      <4>4. Telling(down'[t], page'[t].waits)
        BY <1>10, <4>2, <4>3
      <4> QED
        BY <4>4 DEF Telling, Says
    <3> QED
      BY <1>2, <1>10, <1>14, <3>1, <3>2, <3>3, <3>4 DEF LearnsAt
  <2>4. page'[t].roomInbox # None => AllNamed(down'[t])
    BY <1>2, <1>10, <2>1 DEF QueueFacts
  <2>5. ~Has(t)
    BY <1>14 DEF Has
  <2> QED
    BY <1>1, <1>7, <1>9, <1>12, <2>2, <2>3, <2>4, <2>5, OldKeyStays, MessageInbox
<1> QED
  BY <1>8, <1>13, <1>14

LEMMA OnJoinStatusInbox ==
    ASSUME Inv, InboxInv, NEW t \in Tabs, OnJoinStatus(t)
    PROVE  InboxInv'
<1>1. Receives(t, "join-status") /\ UNCHANGED <<linkVars, serverVars>>
  BY DEF OnJoinStatus
<1>2. /\ Types /\ page \in [Tabs -> PageType] /\ page[t] \in PageType
      /\ PageFacts(t) /\ QueueFacts(t) /\ LearnsAt(t) /\ Full(keys[t])
  BY DEF Inv, Types, InboxInv, PageFacts
<1>3. PICK w \in Worlds : LocalAt(w, t)
  BY DEF Inv, Sound
<1>4. PICK m : m = Head(down[t])
  OBVIOUS
<1>5. m \in Down /\ m.type = "join-status" /\ m \in Range(down[t])
  BY <1>1, <1>2, <1>3, <1>4, Received DEF LocalAt
<1>6. m.inbox \in Tabs \cup {None} /\ WrapIn(w, m.status, m.wrap)
  BY <1>3, <1>5, DownTypes DEF LocalAt, AnswerIn
<1>7. DownFacts(m) /\ Known(m.inbox) /\ Registered /\ FullWrap(m.wrap)
  BY <1>2, <1>5 DEF QueueFacts, DownFacts
<1>8. CASE keys[t].key # None /\ KeepKeys /\ UNCHANGED <<page, up>>
  <2>1. keys' = keys /\ stored' = stored /\ page' = page /\ up' = up
    BY <1>8 DEF KeepKeys
  <2>2. Stays /\ (AllNamed(down[t]) => AllNamed(down'[t]))
    BY <1>1, <2>1, HandledInbox
  <2>3. PageFacts(t)' /\ StoredFull'
    BY <1>2, <2>1, <2>2, StayingPage, StayingStored DEF InboxInv
  <2>4. LearnsAt(t)'
    BY <1>8, <2>1 DEF LearnsAt
  <2>5. page'[t].roomInbox # None => AllNamed(down'[t])
    BY <1>2, <2>1, <2>2 DEF QueueFacts
  <2>6. HeldKey(OldKey) /\ Has(t) => keys'[t].key # None /\ InboxOK(t)'
    BY <2>1 DEF Has, InboxOK
  <2> QED
    BY <1>1, <2>1, <2>3, <2>4, <2>5, <2>6, OldKeyStays, MessageInbox
<1>9. CASE /\ keys[t].key = None /\ m.status = "pending"
           /\ page' = [page EXCEPT ![t].waits = TRUE, ![t].chat = Chat(t, TRUE, m.inbox)]
           /\ KeepKeys /\ UNCHANGED up
  <2>1. /\ \A x \in Tabs \ {t} : page'[x] = page[x]
        /\ page'[t].roomInbox = page[t].roomInbox /\ page'[t].waits = TRUE
        /\ page'[t].chat = Chat(t, TRUE, m.inbox)
        /\ page'[t].claimed = page[t].claimed
    BY <1>2, <1>9 DEF PageType
  <2>2. keys' = keys /\ stored' = stored /\ up' = up
    BY <1>9 DEF KeepKeys
  <2>3. /\ OwnFrame(t) /\ Stays /\ InboxPub' = InboxPub
        /\ down[t] \in Seq(Down) /\ down[t] # <<>> /\ down'[t] = Tail(down[t])
        /\ Range(down[t]) = {m} \cup Range(down'[t])
        /\ AllNamed(down[t]) => AllNamed(down'[t])
        /\ Busy => Busy'
    BY <1>1, <1>4, <2>1, <2>2, HandledInbox
  <2>4. Full(keys[t])' /\ StoredFull'
    BY <1>2, <2>2, <2>3, StillFull, StayingStored DEF InboxInv
  <2>5. PageFacts(t)'
    BY <1>2, <1>7, <2>1, <2>2, <2>3, <2>4 DEF PageFacts, Known, Stays, Chat
  <2>6. LearnsAt(t)'
    <3> SUFFICES ASSUME InboxPub # None, t \in online, page'[t].chat = None, ~Busy'
                 PROVE  Asks(t)' \/ Telling(down[t], page[t].waits)'
      BY <1>1, <2>2, <2>3 DEF LearnsAt, linkVars
    <3>1. page[t].chat = None /\ m.inbox = None
      BY <1>9, <2>1 DEF Chat
    <3>2. Waiting(t)
      BY <1>5, <1>9 DEF Waiting, Says
    <3>3. Asks(t) => Asks(t)'
      BY <1>5, <2>2, <2>3 DEF Asks, Asked, OwnFrame
    <3>4. ASSUME Telling(down[t], page[t].waits) PROVE Telling(down[t], page[t].waits)'
      <4>1. page[t].waits \in BOOLEAN /\ ~Says(m, "approved") /\ Says(m, "pending")
        BY <1>2, <1>5, <1>9 DEF PageType, Says
      <4>2. Telling(Tail(down[t]), page[t].waits \/ Says(m, "pending"))
        BY <1>4, <1>5, <2>3, <3>1, <3>4, <4>1, TellingTaken
      <4>3. (page[t].waits \/ Says(m, "pending")) = page'[t].waits
        BY <2>1, <4>1
      <4>4. Telling(down'[t], page'[t].waits)
        BY <2>3, <4>2, <4>3
      <4> QED
        BY <4>4 DEF Telling, Says
    <3> QED
      BY <1>2, <1>9, <2>3, <3>1, <3>2, <3>3, <3>4 DEF LearnsAt
  <2>7. page'[t].roomInbox # None => AllNamed(down'[t])
    BY <1>2, <2>1, <2>3 DEF QueueFacts
  <2>8. ~Has(t)
    BY <1>9 DEF Has
  <2> QED
    BY <1>1, <2>1, <2>2, <2>4, <2>5, <2>6, <2>7, <2>8, OldKeyStays, MessageInbox
<1>10. CASE /\ keys[t].key = None /\ m.status = "approved"
            /\ TakeKeys(t, m.wrap)
            /\ page' = [page EXCEPT ![t].chat = None, ![t].creating = FALSE]
            /\ Answers(t, <<[type |-> "join-done"], ClaimMessage(FALSE, m.wrap.inbox)>>)
  <2>1. PICK new : new = m.wrap
    OBVIOUS
  <2>2. /\ new # None /\ new \in KeyPair /\ new.key # None /\ Full(new)
        /\ TakeKeys(t, new)
    BY <1>6, <1>7, <1>10, <2>1 DEF WrapIn, FullWrap
  <2>3. PICK d : d = [type |-> "join-done"]
    OBVIOUS
  <2>4. PICK n : n = ClaimMessage(FALSE, new.inbox)
    OBVIOUS
  <2>5. d \in Up /\ n \in Up
    BY <2>2, <2>3, <2>4, NewUps, PairTypes
  <2>6. \A x \in Tabs \ {t} : up'[x] = up[x]
    BY <1>2, <1>10, <2>1, <2>3, <2>4, <2>5, AnsweredTwice
  <2>7. /\ \A x \in Tabs \ {t} : page'[x] = page[x]
        /\ page'[t].roomInbox = page[t].roomInbox /\ page'[t].waits = page[t].waits
        /\ page'[t].chat = None /\ page'[t].claimed = page[t].claimed
    BY <1>2, <1>10 DEF PageType
  <2>8. keys'[t] = new /\ \A x \in Tabs \ {t} : keys'[x] = keys[x]
    BY <1>2, <2>2, TookKeys
  <2>9. Stays /\ (AllNamed(down[t]) => AllNamed(down'[t]))
    BY <1>1, <2>6, <2>7, <2>8, HandledInbox
  <2>10. new.key = OldKey => HeldKey(OldKey)
    <3>1. InQueues(new.key)
      BY <1>5, <2>1, <2>2 DEF InQueues, WrapOf
    <3> QED
      BY <2>2, <3>1 DEF HeldKey, Wrapping
  <2>11. /\ StoredFull' /\ Full(keys[t])'
         /\ keys'[t].key = OldKey => HeldKey(OldKey)
         /\ \A b \in Browsers : stored'[b].key = OldKey => HeldKey(OldKey)
    BY <2>2, <2>9, <2>10, TookFull
  <2>12. ~page[t].claimed
    BY <1>3, <1>10 DEF LocalAt
  <2>13. PageFacts(t)'
    BY <2>7, <2>9, <2>11, <2>12, StillPage
  <2>14. LearnsAt(t)'
    BY <2>2, <2>8 DEF LearnsAt
  <2>15. page'[t].roomInbox # None => AllNamed(down'[t])
    BY <1>2, <2>7, <2>9 DEF QueueFacts
  <2>16. ~Has(t)
    BY <1>10 DEF Has
  <2> QED
    BY <1>1, <2>6, <2>7, <2>8, <2>11, <2>13, <2>14, <2>15, <2>16, MessageInbox
<1> QED
  BY <1>4, <1>8, <1>9, <1>10 DEF OnJoinStatus

LEMMA HelloInbox ==
    ASSUME Inv, InboxInv, NEW s \in Tabs, NEW t \in Tabs, Hello(s, t)
    PROVE  InboxInv'
<1>1. /\ s # t /\ keys[s].key # None /\ keys[s].key = keys[t].key
      /\ greeted' = greeted \cup {<<s, t>>}
      /\ early' = IF InboxOK(s) /\ page[t].roomInbox # None
                  THEN early ELSE early \cup {<<s, t>>}
      /\ UNCHANGED storeVars /\ UNCHANGED <<browserOf, online, task, down>>
  BY DEF Hello, serverVars, storeVars
<1>2. /\ Types /\ page \in [Tabs -> PageType] /\ page[t] \in PageType
      /\ PageFacts(t) /\ PageFacts(s) /\ QueueFacts(t) /\ Full(keys[t]) /\ keys[t] \in KeyPair
      /\ down[t] \in Seq(Down)
  BY DEF Inv, Types, InboxInv, PageFacts
<1>3. PICK inbox : inbox = InboxOf(s)
  OBVIOUS
<1>4. Stays
  BY <1>1, SameStore
<1>5. ASSUME \A x \in Tabs \ {t} : keys'[x] = keys[x] /\ page'[x] = page[x] /\ up'[x] = up[x],
             page'[t].roomInbox = page[t].roomInbox, page'[t].chat = page[t].chat,
             page'[t].waits = page[t].waits, page'[t].claimed = page[t].claimed,
             keys'[t].key = keys[t].key, Full(keys[t])', StoredFull',
             \A b \in Browsers : stored'[b].key = OldKey => HeldKey(OldKey),
             InboxOK(t) \/ (InboxOK(s) /\ page[t].roomInbox # None) => InboxOK(t)'
      PROVE  InboxInv'
  <2>1. OwnFrame(t)
    BY <1>1, <1>5 DEF OwnFrame
  <2>2. PageFacts(t)'
    BY <1>4, <1>5, StillPage
  <2>3. QueueFacts(t)'
    BY <1>1, <1>2, <1>4, <1>5, StayingQueue DEF PageFacts
  <2>4. LearnsAt(t)'
    BY <1>1, <1>5 DEF LearnsAt
  <2>5. keys'[t].key = OldKey => HeldKey(OldKey)
    BY <1>5, OldKeyStays
  <2>6. \A x, y \in Tabs :
          y # t /\ <<x, y>> \in greeted' \ early' => <<x, y>> \in greeted \ early
    BY <1>1
  <2>7. ASSUME HeldKey(OldKey), NEW x \in Tabs, <<x, t>> \in greeted' \ early' PROVE Has(t)'
    <3>1. InboxOK(t)'
      <4>1. CASE <<x, t>> \in greeted \ early
        BY <1>5, <2>7, <4>1 DEF InboxInv, GreetedHave, Has
      <4>2. CASE <<x, t>> \notin greeted \ early
        BY <1>1, <1>5, <2>7, <4>2
      <4> QED
        BY <4>1, <4>2
    <3>2. AllNamed(down[t])'
      BY <2>3, <3>1 DEF QueueFacts, InboxOK
    <3> QED
      BY <1>1, <1>5, <3>1, <3>2 DEF Has
  <2> QED
    BY <1>5, <2>1, <2>2, <2>3, <2>4, <2>5, <2>6, <2>7, OwnStep
<1>6. CASE inbox # None /\ inbox = page[t].roomInbox /\ ~InboxOK(t)
  <2>1. /\ TakeKeys(t, [keys[t] EXCEPT !.inbox = inbox])
        /\ Answers(t, <<ClaimMessage(FALSE, inbox)>>)
        /\ page' = [page EXCEPT ![t].creating = FALSE]
    BY <1>3, <1>6 DEF Hello
  <2>2. inbox = InboxPub /\ inbox \in Tabs \cup {None}
    BY <1>2, <1>6 DEF PageFacts, Known, PageType
  <2>3. PICK new : new = [keys[t] EXCEPT !.inbox = inbox]
    OBVIOUS
  <2>4. /\ new \in KeyPair /\ new.key = keys[t].key /\ new.inbox = inbox
        /\ TakeKeys(t, new) /\ Full(new)
    BY <1>2, <1>6, <2>1, <2>2, <2>3, FullTaken
  <2>5. new.key = OldKey => HeldKey(OldKey)
    BY <2>4, OldKeyStays
  <2>6. /\ StoredFull' /\ Full(keys[t])' /\ keys'[t] = new
        /\ \A x \in Tabs \ {t} : keys'[x] = keys[x]
        /\ \A b \in Browsers : stored'[b].key = OldKey => HeldKey(OldKey)
    BY <1>4, <2>4, <2>5, TookFull
  <2>7. /\ \A x \in Tabs \ {t} : page'[x] = page[x]
        /\ page'[t].roomInbox = page[t].roomInbox /\ page'[t].chat = page[t].chat
        /\ page'[t].waits = page[t].waits /\ page'[t].claimed = page[t].claimed
    BY <1>2, <2>1 DEF PageType
  <2>8. \A x \in Tabs \ {t} : up'[x] = up[x]
    BY <1>2, <2>1 DEF Answers, Types
  <2>9. InboxOK(t)'
    BY <1>6, <2>4, <2>6, <2>7 DEF InboxOK
  <2> QED
    BY <1>5, <2>4, <2>6, <2>7, <2>8, <2>9
<1>7. CASE ~(inbox # None /\ inbox = page[t].roomInbox /\ ~InboxOK(t))
  <2>1. KeepKeys /\ page' = page /\ up' = up
    BY <1>3, <1>7 DEF Hello
  <2>2. keys' = keys /\ stored' = stored
    BY <2>1 DEF KeepKeys
  <2>3. Full(keys[t])' /\ StoredFull'
    BY <1>2, <1>4, <2>2, StillFull, StayingStored DEF InboxInv
  <2>4. InboxOK(t)' <=> InboxOK(t)
    BY <2>1, <2>2 DEF InboxOK
  <2>5. InboxOK(s) /\ page[t].roomInbox # None => InboxOK(t)
    BY <1>2, <1>3, <1>7 DEF InboxOf, InboxOK, PageFacts, Known
  <2> QED
    BY <1>5, <2>1, <2>2, <2>3, <2>4, <2>5, OldKeyStays
<1> QED
  BY <1>6, <1>7

-----------------------------------------------------------------------------
(* The invariant, and what it says.                                         *)

LEMMA InitInboxInv ==
    ASSUME Init
    PROVE  InboxInv
<1>1. /\ browserOf \in [Tabs -> Browsers]
      /\ keys = [t \in Tabs |-> stored[browserOf[t]]]
      /\ page = [t \in Tabs |-> NewPage]
      /\ online = {} /\ task = [t \in Tabs |-> Idle]
      /\ down = [t \in Tabs |-> <<>>] /\ greeted = {}
  BY DEF Init
<1>2. \A t \in Tabs : /\ task[t].step = "idle" /\ Range(down[t]) = {} /\ Len(down[t]) = 0
                      /\ page[t] = NewPage
  BY <1>1, EmptyQueue, NewTasks
<1>3. NewPage.roomInbox = None /\ NewPage.chat = None /\ ~NewPage.waits /\ ~NewPage.claimed
  BY DEF NewPage
<1>4. ASSUME InboxPub = None, RequestFacts,
             \A b \in Browsers : stored[b].key \in {None, OldKey}
      PROVE  InboxInv
  <2>1. StoredFull
    BY <1>4 DEF StoredFull, Full, Whole
  <2>2. ASSUME NEW t \in Tabs PROVE PageFacts(t) /\ TaskFacts(task[t]) /\ QueueFacts(t) /\ LearnsAt(t)
    <3>1. PageFacts(t)
      BY <1>1, <1>2, <1>3, <1>4 DEF PageFacts, Known, Full, Whole
    <3>2. TaskFacts(task[t])
      BY <1>2 DEF TaskFacts, Asked
    <3>3. QueueFacts(t)
      BY <1>2 DEF QueueFacts, AllNamed, NamedInOrder
    <3>4. LearnsAt(t)
      BY <1>4 DEF LearnsAt
    <3> QED
      BY <3>1, <3>2, <3>3, <3>4
  <2>3. GreetedHave
    BY <1>1 DEF GreetedHave
  <2> QED
    BY <1>4, <2>1, <2>2, <2>3 DEF InboxInv
<1>5. CASE rooms = Store!NoRooms /\ stored = [b \in Browsers |-> NoKeys]
  <2>1. rooms = [r \in {Room} |-> None]
    BY <1>5 DEF Store!NoRooms
  <2>2. ~Registered
    BY <2>1 DEF Registered, Store!Exists
  <2>3. InboxPub = None
    BY <2>2 DEF Registered, InboxPub, Store!InboxPub
  <2>4. \A b \in Browsers : stored[b].key = None
    BY <1>5, PairTypes
  <2> QED
    BY <1>4, <2>2, <2>3, <2>4 DEF RequestFacts
<1>6. CASE /\ rooms = [r \in {Room} |-> Store!NewRoom(None)]
           /\ \E holders \in (SUBSET Browsers) \ {{}} :
                stored = [b \in Browsers |->
                           [NoKeys EXCEPT !.key = IF b \in holders THEN OldKey ELSE None]]
  <2>1. /\ Store!NewRoom(None).requests = [p \in Browsers |-> None]
        /\ Store!NewRoom(None).inbox = None
    BY DEF Store!NewRoom, Store!NoRequests
  <2>2. InboxPub = None
    BY <1>6, <2>1 DEF InboxPub, Store!InboxPub, Store!Exists
  <2>3. \A b \in Browsers : Req(b) = None
    BY <1>6, <2>1 DEF Req
  <2>4. PICK holders : stored = [b \in Browsers |->
                         [NoKeys EXCEPT !.key = IF b \in holders THEN OldKey ELSE None]]
    BY <1>6
  <2>5. \A k \in {None, OldKey} : [NoKeys EXCEPT !.key = k].key = k
    BY DEF NoKeys
  <2>6. \A b \in Browsers : stored[b].key \in {None, OldKey}
    BY <2>4, <2>5
  <2> QED
    BY <1>4, <2>2, <2>3, <2>6 DEF RequestFacts
<1> QED
  BY <1>5, <1>6 DEF Init

LEMMA StutterInboxInv ==
    ASSUME Inv, InboxInv, UNCHANGED vars
    PROVE  InboxInv'
<1>1. /\ UNCHANGED storeVars
      /\ UNCHANGED <<stored, keys, page, online, task, up, down, greeted, early>>
  BY DEF vars, storeVars
<1>2. Stays /\ RequestFacts' /\ InboxPub' = InboxPub /\ \A k : InStore(k)' <=> InStore(k)
  BY <1>1, SameStore DEF InboxInv
<1>3. \A x \in Tabs : down[x] \in Seq(Down) /\ page[x] \in PageType
  BY DEF Inv, Types
<1>4. StoredFull'
  BY <1>1, <1>2, StayingStored DEF InboxInv
<1>5. ASSUME NEW x \in Tabs PROVE PageFacts(x)' /\ TaskFacts(task[x])' /\ QueueFacts(x)' /\ LearnsAt(x)'
  <2>1. PageFacts(x) /\ TaskFacts(task[x]) /\ QueueFacts(x) /\ LearnsAt(x) /\ Known(page[x].roomInbox)
    BY DEF InboxInv, PageFacts
  <2>2. PICK a : a = task[x]
    OBVIOUS
  <2>3. TaskFacts(a)' /\ task'[x] = a
    BY <1>1, <1>2, <2>1, <2>2, StillKnown
  <2>4. TaskFacts(task[x])'
    BY <2>3 DEF TaskFacts, Asked, Known, FullWrap, Full, Whole
  <2>5. Busy => Busy'
    BY <1>1 DEF Busy, WillTell
  <2>6. Asks(x) => Asks(x)'
    BY <1>1 DEF Asks, Asked
  <2>7. PageFacts(x)' /\ QueueFacts(x)' /\ LearnsAt(x)'
    BY <1>1, <1>2, <1>3, <2>1, <2>5, <2>6, StayingPage, StayingQueue, StillLearns
  <2> QED
    BY <2>4, <2>7
<1>6. HeldKey(OldKey)' => HeldKey(OldKey)
  <2>1. InTasks(OldKey)' <=> InTasks(OldKey)
    BY <1>1 DEF InTasks, WrapOf
  <2>2. InQueues(OldKey)' <=> InQueues(OldKey)
    BY <1>1 DEF InQueues, WrapOf
  <2> QED
    BY <1>1, <1>2, <2>1, <2>2 DEF HeldKey, Wrapping
<1>7. GreetedHave'
  BY <1>1, <1>6 DEF InboxInv, GreetedHave, Has, InboxOK, AllNamed
<1> QED
  BY <1>2, <1>4, <1>5, <1>7 DEF InboxInv

LEMMA NextInboxInv ==
    ASSUME Inv, InboxInv, [Next]_vars
    PROVE  InboxInv'
<1>1. CASE UNCHANGED vars
  BY <1>1, StutterInboxInv
<1>2. CASE Next
  BY <1>2, ConnectInbox, DisconnectInbox, ReloadInbox, HandleClaimInbox, FinishClaimInbox,
     HandleRequestInbox, ReadInboxInbox, ReplyInbox, BroadcastInbox, ApproveInbox,
     HandleDoneInbox, OnWelcomeInbox, OnClaimResultInbox, OnJoinRequestsInbox,
     OnJoinStatusInbox, HelloInbox DEF Next
<1> QED
  BY <1>1, <1>2

(* What pages, handlers and messages say of the inbox key is right, every   *)
(* pair that holds the registered key's room key holds both halves, and an  *)
(* applicant that cannot write yet is about to hear of the key: whatever    *)
(* the pages, the server and the network do.                                *)
THEOREM InboxInvariance == Spec => [](Inv /\ InboxInv)
<1>1. Init => Inv /\ InboxInv
  BY InitInv, InitInboxInv
<1>2. Inv /\ InboxInv /\ [Next]_vars => (Inv /\ InboxInv)'
  BY NextInv, NextInboxInv
<1> QED
  BY <1>1, <1>2, PTL DEF Spec

(* When nothing is on its way any more, an applicant whose request is       *)
(* pending writes to the registered inbox key if there is one: its answer   *)
(* named the key, or the list that goes to the room after the claim that    *)
(* registered it did (broadcastRequests of join.go, enableApplicantChat of  *)
(* room.js).                                                                *)
THEOREM ApplicantCanWriteHolds == Spec => []ApplicantCanWrite
<1>1. Inv /\ InboxInv => ApplicantCanWrite
  <2> SUFFICES ASSUME Inv, InboxInv, Settled,
                      NEW t \in online, keys[t].key = None, page[t].waits
               PROVE  page[t].chat = InboxPub
    BY DEF ApplicantCanWrite
  <2>1. t \in Tabs
    BY DEF Inv, Types
  <2>2. \A x \in Tabs : /\ task[x].step = "idle"
                        /\ Range(up[x]) = {} /\ Range(down[x]) = {} /\ Len(down[x]) = 0
    BY EmptyQueue, NewTasks DEF Settled
  <2>3. ~Busy
    BY <2>2 DEF Busy, WillTell
  <2>4. ~Asks(t)
    BY <2>1, <2>2 DEF Asks, Asked
  <2>5. ~Telling(down[t], page[t].waits)
    <3>1. Range(down[t]) = {} /\ 1..Len(down[t]) = {}
      BY <2>1, <2>2
    <3> QED
      BY <3>1 DEF Telling
  <2>6. Known(page[t].chat) /\ LearnsAt(t)
    BY <2>1 DEF InboxInv, PageFacts
  <2> QED
    BY <2>3, <2>4, <2>5, <2>6 DEF LearnsAt, Waiting, Known
<1> QED
  BY <1>1, InboxInvariance, PTL

(* A member that was greeted by one that has the inbox key, both knowing    *)
(* which it is, has it too: the hello brought it, or in a new room the pair *)
(* it was let in with was whole (onKx and approveRequest of room.js).       *)
THEOREM InboxSpreadsHolds == Spec => []InboxSpreads
<1>1. Inv /\ InboxInv => InboxSpreads
  <2> SUFFICES ASSUME Inv, InboxInv, NEW s \in Members, NEW t \in Members,
                      keys[s].key = keys[t].key, InboxOK(s), <<s, t>> \in greeted \ early
               PROVE  InboxOK(t)
    BY DEF InboxSpreads
  <2>1. s \in Tabs /\ t \in Tabs /\ page[t].claimed
    BY DEF Inv, Types, Members
  <2>2. PICK w \in Worlds : LocalAt(w, s) /\ LocalAt(w, t)
    BY <2>1 DEF Inv, Sound
  <2>3. keys[t].key # None /\ OldKey # None
    BY <2>1, <2>2, NamesAssumption DEF LocalAt
  <2>4. CASE keys[t].key = OldKey
    <3>1. HeldKey(OldKey)
      BY <2>1, <2>3, <2>4 DEF HeldKey
    <3> QED
      BY <2>1, <3>1 DEF InboxInv, GreetedHave, Has
  <2>5. CASE keys[t].key # OldKey
    <3>1. keys[s].inbox = keys[s].key /\ keys[s].inbox = page[s].roomInbox /\ keys[s].inbox # None
      BY <2>2, <2>3, <2>5 DEF LocalAt, PairIn, InboxOK, Worlds
    <3>2. Known(page[s].roomInbox) /\ Known(page[t].roomInbox) /\ page[t].roomInbox # None /\ Full(keys[t])
      BY <2>1, <2>5 DEF InboxInv, PageFacts
    <3>3. InboxPub # None /\ keys[t].key = InboxPub /\ page[t].roomInbox = InboxPub
      BY <3>1, <3>2 DEF Known
    <3> QED
      BY <3>2, <3>3 DEF Full, InboxOK
  <2> QED
    BY <2>4, <2>5
<1> QED
  BY <1>1, InboxInvariance, PTL
=============================================================================
