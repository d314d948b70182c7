-------------------------- MODULE RoomHistoryProofs --------------------------
(***************************************************************************)
(* Theorems about RoomHistory for every set of browsers, messages and       *)
(* chunks and every number of lost connections.  Inv is what the types and  *)
(* the puts rest on; FullInv adds what is under way between two browsers,   *)
(* from which GapsFill and ReceiptsAgree follow.                            *)
(***************************************************************************)
EXTENDS RoomHistory, FiniteSetTheorems, TLAPS

Body ==
    [type : {"msg", "reads"}, id : Msgs, reads : SUBSET Browsers]
      \cup [type : {"file-meta"}, id : Files, reads : SUBSET Browsers]
      \cup [type : {"file-chunk"}, id : Files, i : Chunks]
      \cup [type : {"history-req"}, ids : SUBSET Msgs]
      \cup [type : {"history-end"}]

-----------------------------------------------------------------------------
(* The inductive invariant.                                                 *)

Types ==
    /\ from \in [Msgs -> Browsers \cup {None}]
    /\ db \in [Browsers -> [Msgs -> Record \cup {None}]]
    /\ incoming \in [Browsers -> [Files -> Incoming \cup {None}]]
    /\ task \in [Browsers -> Task \cup {None}]
    /\ unread \in [Browsers -> SUBSET Msgs]
    /\ marking \in [Browsers -> SUBSET [id : Msgs, rec : Record]]
    /\ receipts \in [Browsers -> SUBSET Msgs]
    /\ linked \subseteq Pairs /\ closed \subseteq linked
    /\ sync \in [Pairs -> {"none", "asked", "done"}]
    /\ net \subseteq [from : Browsers, to : Browsers, body : Body]
    /\ drops \in 0..MaxDrops

CountOK(inc) == inc # None => inc.got = Cardinality(inc.parts)

Counted == \A b \in Browsers, m \in Files : CountOK(incoming[b][m])

(* Whatever there is of a message, somebody has sent it.                    *)
Sent(m) == from[m] # None

Mentions(x, m) == x.type \in {"msg", "reads", "file-meta", "file-chunk"} /\ x.id = m

SentFirst ==
    /\ \A b \in Browsers, m \in Msgs : Has(b, m) => Sent(m)
    /\ \A b \in Browsers : task[b] # None => Sent(task[b].id)
    /\ \A b \in Browsers : \A r \in marking[b] : Sent(r.id)
    /\ \A b \in Browsers : \A m \in receipts[b] : Sent(m)
    /\ \A msg \in net, m \in Msgs : Mentions(msg.body, m) => Sent(m)

(* What a handler is about to put is no less than what is there, unless a   *)
(* markRead has come in between.                                            *)
Fresh ==
    \A b \in Browsers :
      (task[b] # None /\ ~task[b].stale) => ~Overwrites(b, task[b].id, task[b].rec)

Inv == Types /\ Counted /\ SentFirst /\ Fresh

LEMMA InvTypes == Inv => TypeOK
BY DEF Inv, Types, Counted, CountOK, TypeOK, Task

-----------------------------------------------------------------------------
(* Records.                                                                 *)

LEMMA PutLemma ==
    ASSUME Types, NEW b \in Browsers, NEW m \in Msgs, NEW rec \in Record, Put(b, m, rec)
    PROVE  /\ db' \in [Browsers -> [Msgs -> Record \cup {None}]]
           /\ db'[b][m] = rec
           /\ \A x \in Browsers, y \in Msgs : (x # b \/ y # m) => db'[x][y] = db[x][y]
BY DEF Put, Types

(* A step that puts at most one record, and leaves no task for an older     *)
(* state of it, keeps what the invariant says of tasks.                     *)
LEMMA FreshKept ==
    ASSUME Fresh, NEW x \in Browsers, task'[x] = task[x],
           task[x] # None => db'[x][task[x].id] = db[x][task[x].id]
    PROVE  (task[x] # None /\ ~task[x].stale)' =>
             ~Overwrites(x, task[x].id, task[x].rec)'
BY DEF Fresh, Overwrites, Has

LEMMA MessagesIn ==
    ASSUME NEW b \in Browsers, NEW to \in SUBSET Browsers, NEW body \in SUBSET Body,
           NEW x \in Messages(b, to, body)
    PROVE  x \in [from : Browsers, to : Browsers, body : Body] /\ x.body \in body
BY DEF Messages

LEMMA BodyIn ==
    ASSUME NEW m, NEW reads
    PROVE  /\ m \in Msgs /\ reads \in SUBSET Browsers =>
                RecordOf(m, reads) \in Body /\ ReadsOf(m, reads) \in Body
           /\ m \in Files /\ reads \in SUBSET Browsers => FileOf(m, reads) \subseteq Body
           /\ RecordOf(m, reads).id = m /\ ReadsOf(m, reads).id = m
           /\ \A x \in FileOf(m, reads) : x.id = m
BY DEF RecordOf, ReadsOf, FileOf, Body

LEMMA PeersIn ==
    ASSUME NEW b
    PROVE  Peers(b) \in SUBSET Browsers
BY DEF Peers

LEMMA Posted ==
    ASSUME Types, SentFirst, NEW b \in Browsers, NEW to \in SUBSET Browsers, NEW body,
           body \subseteq Body, \A x \in body, m \in Msgs : Mentions(x, m) => Sent(m)',
           \A m \in Msgs : Sent(m) => Sent(m)',
           net' \subseteq net \cup Messages(b, to, body)
    PROVE  /\ net' \subseteq [from : Browsers, to : Browsers, body : Body]
           /\ \A msg \in net', m \in Msgs : Mentions(msg.body, m) => Sent(m)'
<1>2. ASSUME NEW msg \in net'
      PROVE  /\ msg \in [from : Browsers, to : Browsers, body : Body]
             /\ \A m \in Msgs : Mentions(msg.body, m) => Sent(m)'
  <2>1. CASE msg \in net
    BY <2>1 DEF Types, SentFirst
  <2>2. CASE msg \in Messages(b, to, body)
    BY <2>2, MessagesIn
  <2> QED
    BY <1>2, <2>1, <2>2
<1> QED
  BY <1>2

-----------------------------------------------------------------------------
LEMMA InitInv == Init => Inv
<1> SUFFICES ASSUME Init PROVE Inv
  OBVIOUS
<1>1. Types
  BY BoundsAssumption DEF Init, Types, Pairs
<1>2. Counted /\ SentFirst /\ Fresh
  BY DEF Init, Counted, CountOK, SentFirst, Fresh, Has, Msgs
<1> QED
  BY <1>1, <1>2 DEF Inv

LEMMA SendInv ==
    ASSUME Inv, NEW b \in Browsers, NEW m \in Msgs, Send(b, m)
    PROVE  Inv'
<1> DEFINE rec == [reads |-> {}, blob |-> m \in Files]
           body == IF m \in Files THEN FileOf(m, {}) ELSE {RecordOf(m, {})}
<1>1. /\ from[m] = None /\ from' = [from EXCEPT ![m] = b] /\ Put(b, m, rec)
      /\ net' = net \cup Messages(b, Peers(b), body)
      /\ UNCHANGED <<incoming, task, unread, marking, receipts, linked, closed, sync,
                     drops>>
  BY DEF Send, pageVars, linkVars
<1>2. Types /\ Counted /\ SentFirst /\ Fresh
  BY DEF Inv
<1>3. rec \in Record
  BY DEF Record
<1> HIDE DEF rec
<1>4. /\ db' \in [Browsers -> [Msgs -> Record \cup {None}]]
      /\ \A x \in Browsers, y \in Msgs : (x # b \/ y # m) => db'[x][y] = db[x][y]
  BY <1>1, <1>2, <1>3, PutLemma
<1>5. /\ from' \in [Msgs -> Browsers \cup {None}]
      /\ Sent(m)' /\ \A y \in Msgs : Sent(y) => Sent(y)'
  BY <1>1, <1>2, NamesAssumption DEF Types, Sent
<1>6. body \subseteq Body /\ \A x \in body, y \in Msgs : Mentions(x, y) => Sent(y)'
  <2>1. body \subseteq Body /\ \A x \in body : x.id = m
    BY BodyIn
  <2> QED
    BY <1>5, <2>1 DEF Mentions
<1>7. /\ net' \subseteq [from : Browsers, to : Browsers, body : Body]
      /\ \A msg \in net', y \in Msgs : Mentions(msg.body, y) => Sent(y)'
  <2> HIDE DEF body
  <2> QED
    BY <1>1, <1>2, <1>5, <1>6, PeersIn, Posted
<1>8. Types' /\ Counted'
  BY <1>1, <1>2, <1>4, <1>5, <1>7 DEF Types, Counted
<1>9. SentFirst'
  <2>1. \A x \in Browsers, y \in Msgs : Has(x, y)' => Sent(y)'
    BY <1>2, <1>4, <1>5 DEF SentFirst, Has
  <2>2. /\ \A x \in Browsers : task[x]' # None => Sent(task[x].id)'
        /\ \A x \in Browsers : \A r \in marking[x]' : Sent(r.id)'
        /\ \A x \in Browsers : \A y \in receipts[x]' : Sent(y)'
    BY <1>1, <1>2, <1>5 DEF SentFirst, Types, Task, Sent
  <2> QED
    BY <1>7, <2>1, <2>2 DEF SentFirst
<1>10. Fresh'
  <2> SUFFICES ASSUME NEW x \in Browsers
               PROVE  (task[x] # None /\ ~task[x].stale)' =>
                        ~Overwrites(x, task[x].id, task[x].rec)'
    BY DEF Fresh
  <2>1. task'[x] = task[x]
    BY <1>1
  <2>2. task[x] # None => task[x].id \in Msgs /\ task[x].id # m
    BY <1>1, <1>2 DEF SentFirst, Sent, Types, Task
  <2> QED
    BY <1>2, <1>4, <2>1, <2>2, FreshKept
<1> QED
  BY <1>8, <1>9, <1>10 DEF Inv

(* A step that leaves the records alone.                                    *)
LEMMA SameRecords ==
    ASSUME Inv, UNCHANGED <<from, db>>, Types', Counted',
           \A x \in Browsers : \/ task'[x] \in {task[x], None}
                               \/ Sent(task'[x].id) /\ ~Overwrites(x, task'[x].id, task'[x].rec),
           \A x \in Browsers : \A r \in marking'[x] : Sent(r.id),
           \A x \in Browsers : \A y \in receipts'[x] : Sent(y),
           \A msg \in net', y \in Msgs : Mentions(msg.body, y) => Sent(y)
    PROVE  Inv'
<1>1. SentFirst'
  BY DEF Inv, SentFirst, Sent, Has, Mentions
<1>2. Fresh'
  BY DEF Inv, Fresh, Overwrites, Has
<1> QED
  BY <1>1, <1>2 DEF Inv

LEMMA BeginReadInv ==
    ASSUME Inv, NEW b \in Browsers, NEW m \in Msgs, BeginRead(b, m)
    PROVE  Inv'
<1>1. Types'
  BY DEF Inv, Types, BeginRead, linkVars, Has
<1>2. Counted'
  BY DEF Inv, Counted, BeginRead
<1>3. \A x \in Browsers : \A r \in marking'[x] : Sent(r.id)
  BY DEF Inv, SentFirst, BeginRead, Types
<1>4. UNCHANGED <<from, db, task, receipts, net>>
  BY DEF BeginRead
<1> QED
  BY <1>1, <1>2, <1>3, <1>4, SameRecords DEF Inv, SentFirst

LEMMA EndReadInv ==
    ASSUME Inv, NEW b \in Browsers, NEW r \in marking[b], EndRead(b, r)
    PROVE  Inv'
<1> DEFINE m == r.id
           rec == [r.rec EXCEPT !.reads = @ \cup {b}]
<1>1. /\ Put(b, m, rec) /\ marking' = [marking EXCEPT ![b] = @ \ {r}]
      /\ receipts' = [receipts EXCEPT ![b] = @ \cup {m}]
      /\ task' = [task EXCEPT ![b] = IF @ # None /\ @.id = r.id
                                     THEN [@ EXCEPT !.stale = TRUE] ELSE @]
      /\ UNCHANGED <<from, incoming, unread, linked, closed, sync, drops, net>>
  BY DEF EndRead, linkVars
<1>2. Types /\ Counted /\ SentFirst /\ Fresh
  BY DEF Inv
<1>3. m \in Msgs /\ rec \in Record /\ Sent(m)
  <2>1. r \in [id : Msgs, rec : Record]
    BY <1>2 DEF Types
  <2>2. r.rec \in [reads : SUBSET Browsers, blob : BOOLEAN] /\ m \in Msgs
    BY <2>1 DEF Record
  <2>3. rec \in Record
    BY <2>2 DEF Record
  <2> QED
    BY <1>2, <2>2, <2>3 DEF SentFirst
<1> HIDE DEF rec, m
<1>4. /\ db' \in [Browsers -> [Msgs -> Record \cup {None}]]
      /\ \A x \in Browsers, y \in Msgs : (x # b \/ y # m) => db'[x][y] = db[x][y]
  BY <1>1, <1>2, <1>3, PutLemma
<1>5. /\ task' \in [Browsers -> Task \cup {None}]
      /\ \A x \in Browsers :
           \/ task'[x] = task[x] /\ (x = b /\ task[x] # None => task[x].id # m)
           \/ task[x] # None /\ task'[x] = [task[x] EXCEPT !.stale = TRUE]
  <2>1. task'[b] = IF task[b] # None /\ task[b].id = m
                   THEN [task[b] EXCEPT !.stale = TRUE] ELSE task[b]
    BY <1>1, <1>2 DEF Types, m
  <2>2. \A x \in Browsers \ {b} : task'[x] = task[x]
    BY <1>1, <1>2 DEF Types
  <2>3. \A t \in Task : [t EXCEPT !.stale = TRUE] \in Task
    BY DEF Task
  <2>4. task \in [Browsers -> Task \cup {None}] /\ DOMAIN task' = Browsers
        /\ task' = [x \in Browsers |-> task'[x]]
    BY <1>1, <1>2 DEF Types
  <2>5. task[b] # None => task[b] \in Task
    BY <2>4
  <2>6. \A x \in Browsers : task'[x] \in Task \cup {None}
    BY <2>1, <2>2, <2>3, <2>4, <2>5
  <2> QED
    BY <2>1, <2>2, <2>4, <2>6
<1>6. Types'
  BY <1>1, <1>2, <1>3, <1>4, <1>5 DEF Types
<1>7. Counted'
  BY <1>1, <1>2 DEF Counted
<1>8. SentFirst'
  <2>1. \A y : Sent(y)' <=> Sent(y)
    BY <1>1 DEF Sent
  <2>2. \A x \in Browsers, y \in Msgs : Has(x, y)' => Sent(y)
    BY <1>2, <1>3, <1>4 DEF SentFirst, Has
  <2>3. \A x \in Browsers : task[x]' # None => Sent(task'[x].id)
    BY <1>2, <1>5 DEF SentFirst, Types, Task
  <2>4. \A x \in Browsers : \A y \in receipts[x]' : Sent(y)
    BY <1>1, <1>2, <1>3 DEF SentFirst, Types
  <2>5. \A x \in Browsers : \A s \in marking[x]' : Sent(s.id)
    BY <1>1, <1>2 DEF SentFirst, Types
  <2>6. net' = net
    BY <1>1
  <2> QED
    BY <1>2, <2>1, <2>2, <2>3, <2>4, <2>5, <2>6 DEF SentFirst
<1>9. Fresh'
  <2> SUFFICES ASSUME NEW x \in Browsers
               PROVE  (task[x] # None /\ ~task[x].stale)' =>
                        ~Overwrites(x, task[x].id, task[x].rec)'
    BY DEF Fresh
  <2>1. CASE task'[x] = task[x] /\ (x = b /\ task[x] # None => task[x].id # m)
    <3>1. task[x] # None => task[x].id \in Msgs
      BY <1>2 DEF Types, Task
    <3> QED
      BY <1>2, <1>4, <2>1, <3>1, FreshKept
  <2>2. CASE task[x] # None /\ task'[x] = [task[x] EXCEPT !.stale = TRUE]
    <3>1. task'[x].stale = TRUE
      BY <1>2, <2>2 DEF Types, Task
    <3> QED
      BY <3>1
  <2> QED
    BY <1>5, <2>1, <2>2
<1> QED
  BY <1>6, <1>7, <1>8, <1>9 DEF Inv

LEMMA FlushReadsInv ==
    ASSUME Inv, NEW b \in Browsers, FlushReads(b)
    PROVE  Inv'
<1> DEFINE body == {ReadsOf(m, {b}) : m \in receipts[b]}
<1>1. /\ receipts' = [receipts EXCEPT ![b] = {}]
      /\ net' = net \cup Messages(b, Peers(b), body)
      /\ UNCHANGED <<from, db, incoming, task, unread, marking, linked, closed, sync,
                     drops>>
  BY DEF FlushReads, linkVars
<1>2. body \subseteq Body /\ \A x \in body, y \in Msgs : Mentions(x, y) => Sent(y)'
  <2>1. \A m \in receipts[b] : m \in Msgs /\ Sent(m)'
    BY <1>1 DEF Inv, Types, SentFirst, Sent
  <2>2. \A m \in receipts[b] : ReadsOf(m, {b}) \in Body /\ ReadsOf(m, {b}).id = m
    BY <2>1, BodyIn
  <2>3. \A x \in body : x \in Body /\ Sent(x.id)'
    BY <2>1, <2>2
  <2> QED
    BY <2>3 DEF Mentions
<1> HIDE DEF body
<1>3. /\ net' \subseteq [from : Browsers, to : Browsers, body : Body]
      /\ \A msg \in net', y \in Msgs : Mentions(msg.body, y) => Sent(y)'
  <2>1. \A y \in Msgs : Sent(y) => Sent(y)'
    BY <1>1 DEF Sent
  <2> QED
    BY <1>1, <1>2, <2>1, PeersIn, Posted DEF Inv
<1>4. \A y : Sent(y)' <=> Sent(y)
  BY <1>1 DEF Sent
<1>5. Types'
  BY <1>1, <1>3 DEF Inv, Types
<1>6. Counted'
  BY <1>1 DEF Inv, Counted
<1>7. /\ \A x \in Browsers : \A r \in marking'[x] : Sent(r.id)
      /\ \A x \in Browsers : \A y \in receipts'[x] : Sent(y)
  BY <1>1 DEF Inv, Types, SentFirst
<1> QED
  BY <1>1, <1>3, <1>4, <1>5, <1>6, <1>7, SameRecords

-----------------------------------------------------------------------------
(* Handlers.                                                                *)

LEMMA BodyFields ==
    ASSUME NEW x \in Body
    PROVE  /\ x.type \in {"msg", "reads"} =>
                x.id \in Msgs /\ x.reads \in SUBSET Browsers
           /\ x.type = "file-meta" => x.id \in Files /\ x.reads \in SUBSET Browsers
           /\ x.type = "file-chunk" => x.id \in Files /\ x.i \in Chunks
           /\ x.type = "history-req" => x.ids \in SUBSET Msgs
BY DEF Body

LEMMA ReceivedLemma ==
    ASSUME Inv, NEW b \in Browsers, NEW msg, NEW type, Receives(b, msg, type)
    PROVE  /\ msg.body \in Body /\ msg.from \in Browsers /\ msg.body.type = type
           /\ net' \subseteq net /\ task[b] = None
           /\ type \in {"msg", "reads", "file-meta", "file-chunk"} => Sent(msg.body.id)
<1>1. msg \in net /\ msg.body.type = type /\ net' = net \ {msg} /\ task[b] = None
  BY DEF Receives
<1>2. msg \in [from : Browsers, to : Browsers, body : Body]
  BY <1>1 DEF Inv, Types
<1>3. ASSUME type \in {"msg", "reads", "file-meta", "file-chunk"} PROVE Sent(msg.body.id)
  <2>1. msg.body.id \in Msgs
    BY <1>1, <1>2, <1>3, BodyFields DEF Msgs
  <2>2. Mentions(msg.body, msg.body.id)
    BY <1>1, <1>3 DEF Mentions
  <2> QED
    BY <1>1, <2>1, <2>2 DEF Inv, SentFirst
<1> QED
  BY <1>1, <1>2, <1>3

(* A handler of b that takes a message, has records and receipts left, and  *)
(* perhaps a record to put.                                                 *)
LEMMA HandlerInv ==
    ASSUME Inv, NEW b \in Browsers, NEW m \in Msgs, Sent(m), net' \subseteq net,
           UNCHANGED <<from, db, marking, receipts, linked, closed, drops>>,
           sync' \in [Pairs -> {"none", "asked", "done"}],
           unread' \in [Browsers -> SUBSET Msgs],
           incoming' \in [Browsers -> [Files -> Incoming \cup {None}]], Counted',
           \/ task' = task
           \/ task' = [task EXCEPT ![b] = None]
           \/ \E rec \in Record, finish \in BOOLEAN :
                WillPut(b, m, rec, finish) /\ ~Overwrites(b, m, rec)
    PROVE  Inv'
<1>1. Types
  BY DEF Inv
<1>2. ASSUME NEW rec \in Record, NEW finish \in BOOLEAN,
             WillPut(b, m, rec, finish), ~Overwrites(b, m, rec)
      PROVE  /\ task' \in [Browsers -> Task \cup {None}]
             /\ \A x \in Browsers : \/ task'[x] = task[x]
                                    \/ Sent(task'[x].id)
                                       /\ ~Overwrites(x, task'[x].id, task'[x].rec)
  <2>1. PICK t : t = [id |-> m, rec |-> rec, finish |-> finish, stale |-> FALSE]
    OBVIOUS
  <2>2. t \in Task /\ t.id = m /\ t.rec = rec
    BY <2>1 DEF Task
  <2>3. task' = [task EXCEPT ![b] = t]
    BY <1>2, <2>1 DEF WillPut
  <2>4. task'[b] = t /\ \A x \in Browsers \ {b} : task'[x] = task[x]
    BY <1>1, <2>3 DEF Types
  <2>5. task' \in [Browsers -> Task \cup {None}]
    BY <1>1, <2>2, <2>3 DEF Types
  <2> QED
    BY <1>2, <2>2, <2>4, <2>5
<1>3. /\ task' \in [Browsers -> Task \cup {None}]
      /\ \A x \in Browsers : \/ task'[x] \in {task[x], None}
                             \/ Sent(task'[x].id)
                                /\ ~Overwrites(x, task'[x].id, task'[x].rec)
  <2>1. CASE task' = task
    BY <1>1, <2>1 DEF Types
  <2>2. CASE task' = [task EXCEPT ![b] = None]
    BY <1>1, <2>2 DEF Types
  <2> QED
    BY <1>2, <2>1, <2>2
<1>4. Types'
  BY <1>1, <1>3 DEF Types
<1>5. /\ \A x \in Browsers : \A r \in marking'[x] : Sent(r.id)
      /\ \A x \in Browsers : \A y \in receipts'[x] : Sent(y)
      /\ \A msg \in net', y \in Msgs : Mentions(msg.body, y) => Sent(y)
  BY DEF Inv, SentFirst
<1> QED
  BY <1>3, <1>4, <1>5, SameRecords

LEMMA MergeReadsLemma ==
    ASSUME Types, NEW b \in Browsers, NEW m \in Msgs, NEW reads \in SUBSET Browsers,
           MergeReads(b, m, reads)
    PROVE  \/ task' = task
           \/ \E rec \in Record, finish \in BOOLEAN :
                WillPut(b, m, rec, finish) /\ ~Overwrites(b, m, rec)
<1> DEFINE merged == db[b][m].reads \cup (reads \ {from[m]})
           rec == [db[b][m] EXCEPT !.reads = merged]
<1>1. task' = task \/ (Has(b, m) /\ WillPut(b, m, rec, FALSE))
  BY DEF MergeReads
<1>2. ASSUME Has(b, m) PROVE rec \in Record /\ ~Overwrites(b, m, rec)
  <2>1. db[b][m] \in Record
    BY <1>2 DEF Types, Has
  <2> QED
    BY <2>1 DEF Record, Overwrites
<1> HIDE DEF rec
<1> QED
  BY <1>1, <1>2

LEMMA OnMessageInv ==
    ASSUME Inv, NEW b \in Browsers, NEW msg, OnMessage(b, msg)
    PROVE  Inv'
<1>1. /\ Receives(b, msg, "msg")
      /\ UNCHANGED <<from, db, incoming, unread, marking, receipts, linked, closed,
                     sync, drops>>
  BY DEF OnMessage, linkVars
<1>2. PICK m : m = msg.body.id
  OBVIOUS
<1>3. m \in Msgs /\ Sent(m) /\ net' \subseteq net /\ msg.body.reads \in SUBSET Browsers
  <2>1. msg.body \in Body /\ msg.body.type = "msg" /\ Sent(msg.body.id) /\ net' \subseteq net
    BY <1>1, ReceivedLemma
  <2> QED
    BY <1>2, <2>1, BodyFields
<1>4. \/ task' = task
      \/ \E rec \in Record, finish \in BOOLEAN :
           WillPut(b, m, rec, finish) /\ ~Overwrites(b, m, rec)
  <2>1. CASE Has(b, m)
    BY <1>2, <1>3, <2>1, MergeReadsLemma DEF OnMessage, Inv
  <2>2. CASE ~Has(b, m)
    <3>1. WillPut(b, m, [reads |-> msg.body.reads, blob |-> FALSE], FALSE)
      BY <1>2, <2>2 DEF OnMessage
    <3>2. [reads |-> msg.body.reads, blob |-> FALSE] \in Record
      BY <1>3 DEF Record
    <3> QED
      BY <2>2, <3>1, <3>2 DEF Overwrites
  <2> QED
    BY <2>1, <2>2
<1>5. Counted' /\ Types
  BY <1>1 DEF Inv, Counted
<1> QED
  BY <1>1, <1>3, <1>4, <1>5, HandlerInv DEF Types

LEMMA OnReadsInv ==
    ASSUME Inv, NEW b \in Browsers, NEW msg, OnReads(b, msg)
    PROVE  Inv'
<1>1. /\ Receives(b, msg, "reads") /\ MergeReads(b, msg.body.id, msg.body.reads)
      /\ UNCHANGED <<from, db, incoming, unread, marking, receipts, linked, closed,
                     sync, drops>>
  BY DEF OnReads, linkVars
<1>2. PICK m : m = msg.body.id
  OBVIOUS
<1>3. m \in Msgs /\ Sent(m) /\ net' \subseteq net /\ msg.body.reads \in SUBSET Browsers
  <2>1. msg.body \in Body /\ msg.body.type = "reads" /\ Sent(msg.body.id) /\ net' \subseteq net
    BY <1>1, ReceivedLemma
  <2> QED
    BY <1>2, <2>1, BodyFields
<1>4. \/ task' = task
      \/ \E rec \in Record, finish \in BOOLEAN :
           WillPut(b, m, rec, finish) /\ ~Overwrites(b, m, rec)
  BY <1>1, <1>2, <1>3, MergeReadsLemma DEF Inv
<1>5. Counted' /\ Types
  BY <1>1 DEF Inv, Counted
<1> QED
  BY <1>1, <1>3, <1>4, <1>5, HandlerInv DEF Types

-----------------------------------------------------------------------------
(* Files that are being received.                                           *)

Entries == {inc \in Incoming : inc.got = Cardinality(inc.parts)}

LEMMA IncomingTypes ==
    ASSUME NEW M, NEW P, NEW inc \in [meta : M, parts : P, got : Nat],
           NEW reads \in M, NEW parts \in P, NEW got \in Nat
    PROVE  /\ [inc EXCEPT !.meta = reads] \in [meta : M, parts : P, got : Nat]
           /\ [inc EXCEPT !.meta = reads].meta = reads
           /\ [inc EXCEPT !.meta = reads].parts = inc.parts
           /\ [inc EXCEPT !.meta = reads].got = inc.got
           /\ [inc EXCEPT !.parts = parts, !.got = got] \in [meta : M, parts : P, got : Nat]
           /\ [inc EXCEPT !.parts = parts, !.got = got].parts = parts
           /\ [inc EXCEPT !.parts = parts, !.got = got].got = got
OBVIOUS

LEMMA EntryTypes ==
    ASSUME NEW inc \in Entries, NEW reads \in SUBSET Browsers, NEW i \in Chunks
    PROVE  /\ [inc EXCEPT !.meta = reads] \in Entries
           /\ [inc EXCEPT !.meta = reads].meta = reads
           /\ NewPart(inc, i) =>
                [inc EXCEPT !.parts = @ \cup {i}, !.got = @ + 1] \in Entries
<1> DEFINE M == {None} \cup SUBSET Browsers
           P == SUBSET Chunks
<1>1. /\ inc \in [meta : M, parts : P, got : Nat] /\ inc.parts \in P /\ inc.got \in Nat
      /\ inc.got = Cardinality(inc.parts) /\ reads \in M
      /\ inc.parts \cup {i} \in P
  BY DEF Entries, Incoming
<1>2. Entries = {x \in [meta : M, parts : P, got : Nat] : x.got = Cardinality(x.parts)}
  BY DEF Entries, Incoming
<1>3. IsFiniteSet(inc.parts)
  BY <1>1, BoundsAssumption, FS_Subset
<1> HIDE DEF M, P
<1>4. [inc EXCEPT !.meta = reads] \in Entries /\ [inc EXCEPT !.meta = reads].meta = reads
  BY <1>1, <1>2, IncomingTypes
<1>5. ASSUME NewPart(inc, i)
      PROVE  [inc EXCEPT !.parts = @ \cup {i}, !.got = @ + 1] \in Entries
  <2>1. PICK parts \in P : parts = inc.parts \cup {i}
    BY <1>1
  <2>2. PICK got \in Nat : got = inc.got + 1
    BY <1>1
  <2>3. Cardinality(parts) = got
    BY <1>1, <1>3, <1>5, <2>1, <2>2, FS_AddElement DEF NewPart
  <2>4. [inc EXCEPT !.parts = parts, !.got = got] \in Entries
    BY <1>1, <1>2, <2>3, IncomingTypes
  <2> QED
    BY <2>1, <2>2, <2>4
<1> QED
  BY <1>4, <1>5

LEMMA EntryStored ==
    ASSUME Types, Counted, NEW b \in Browsers, NEW m \in Files, NEW e \in Entries \cup {None},
           incoming' = [incoming EXCEPT ![b][m] = e]
    PROVE  /\ incoming' \in [Browsers -> [Files -> Incoming \cup {None}]]
           /\ Counted'
<1>1. incoming \in [Browsers -> [Files -> Incoming \cup {None}]] /\ e \in Incoming \cup {None}
  BY DEF Types, Entries
<1>2. incoming' \in [Browsers -> [Files -> Incoming \cup {None}]]
  BY <1>1
<1>3. \A x \in Browsers, y \in Files :
        incoming'[x][y] = IF x = b /\ y = m THEN e ELSE incoming[x][y]
  BY <1>1
<1>4. CountOK(e)
  BY DEF Entries, CountOK
<1>5. Counted'
  BY <1>3, <1>4 DEF Counted, CountOK
<1> QED
  BY <1>2, <1>5

(* The file's entry, or a new one.                                          *)
LEMMA CurrentEntry ==
    ASSUME Types, Counted, NEW b \in Browsers, NEW m \in Files
    PROVE  (IF incoming[b][m] = None THEN NoParts ELSE incoming[b][m]) \in Entries
<1>1. NoParts \in Entries
  BY FS_EmptySet DEF NoParts, Entries, Incoming
<1>2. incoming[b][m] # None => incoming[b][m] \in Entries
  BY DEF Types, Counted, CountOK, Entries
<1> QED
  BY <1>1, <1>2

LEMMA MaybeFinishLemma ==
    ASSUME Types, Counted, NEW b \in Browsers, NEW m \in Files, NEW inc \in Entries,
           MaybeFinish(b, m, inc)
    PROVE  /\ incoming' \in [Browsers -> [Files -> Incoming \cup {None}]]
           /\ Counted'
           /\ \/ task' = [task EXCEPT ![b] = None]
              \/ \E rec \in Record, finish \in BOOLEAN :
                   WillPut(b, m, rec, finish) /\ ~Overwrites(b, m, rec)
<1>1. CASE Complete(inc)
  <2>1. incoming' = [incoming EXCEPT ![b][m] = None]
        /\ WillPut(b, m, WholeRecord(b, m, inc), FALSE)
    BY <1>1 DEF MaybeFinish
  <2>2. inc.meta \in SUBSET Browsers
    BY <1>1 DEF Complete, Entries, Incoming
  <2>3. Has(b, m) => db[b][m].reads \in SUBSET Browsers /\ db[b][m].blob \in BOOLEAN
    BY DEF Types, Has, Record, Msgs
  <2>4. WholeRecord(b, m, inc) \in Record
    BY <2>2, <2>3 DEF WholeRecord, Record
  <2>5. ~Overwrites(b, m, WholeRecord(b, m, inc))
    BY <2>3 DEF WholeRecord, Overwrites
  <2> QED
    BY <2>1, <2>4, <2>5, EntryStored
<1>2. CASE ~Complete(inc)
  <2>1. incoming' = [incoming EXCEPT ![b][m] = inc] /\ task' = [task EXCEPT ![b] = None]
    BY <1>2 DEF MaybeFinish
  <2> QED
    BY <2>1, EntryStored
<1> QED
  BY <1>1, <1>2

LEMMA Rendered ==
    ASSUME Types, NEW b \in Browsers, NEW m \in Msgs, NEW reads, Render(b, m, reads)
    PROVE  unread' \in [Browsers -> SUBSET Msgs]
BY DEF Types, Render

LEMMA OnFileMetaInv ==
    ASSUME Inv, NEW b \in Browsers, NEW msg, OnFileMeta(b, msg)
    PROVE  Inv'
<1>1. /\ Receives(b, msg, "file-meta")
      /\ UNCHANGED <<from, db, marking, receipts, linked, closed, sync, drops>>
  BY DEF OnFileMeta, linkVars
<1>2. PICK m : m = msg.body.id
  OBVIOUS
<1>3. PICK reads : reads = msg.body.reads
  OBVIOUS
<1>4. m \in Files /\ Sent(m) /\ net' \subseteq net /\ reads \in SUBSET Browsers
  <2>1. /\ msg.body \in Body /\ msg.body.type = "file-meta"
        /\ Sent(msg.body.id) /\ net' \subseteq net
    BY <1>1, ReceivedLemma
  <2> QED
    BY <1>2, <1>3, <2>1, BodyFields
<1>5. m \in Msgs /\ Types /\ Counted
  BY <1>4 DEF Msgs, Inv
<1>6. PICK old \in Entries : old = IF incoming[b][m] = None THEN NoParts ELSE incoming[b][m]
  BY <1>4, <1>5, CurrentEntry
<1>7. PICK inc : inc = [old EXCEPT !.meta = IF Has(b, m) THEN db[b][m].reads ELSE reads]
  OBVIOUS
<1>8. inc \in Entries
  <2>1. (IF Has(b, m) THEN db[b][m].reads ELSE reads) \in SUBSET Browsers
    BY <1>4, <1>5 DEF Types, Has, Record
  <2>2. \A x \in SUBSET Browsers : [old EXCEPT !.meta = x] \in Entries
    <3> TAKE x \in SUBSET Browsers
    <3>1. PICK i : i \in Chunks
      BY BoundsAssumption
    <3> QED
      BY <3>1, EntryTypes
  <2> QED
    BY <1>7, <2>1, <2>2
<1>9. \/ /\ HasBlob(b, m)
         /\ UNCHANGED <<incoming, task, unread>>
      \/ /\ Has(b, m) /\ ~HasBlob(b, m)
         /\ Render(b, m, inc.meta)
         /\ MaybeFinish(b, m, inc)
      \/ /\ ~Has(b, m)
         /\ incoming' = [incoming EXCEPT ![b][m] = inc]
         /\ WillPut(b, m, [reads |-> reads, blob |-> FALSE], TRUE)
         /\ UNCHANGED unread
  BY <1>2, <1>3, <1>6, <1>7 DEF OnFileMeta
<1>10. /\ incoming' \in [Browsers -> [Files -> Incoming \cup {None}]] /\ Counted'
       /\ unread' \in [Browsers -> SUBSET Msgs]
       /\ \/ task' = task
          \/ task' = [task EXCEPT ![b] = None]
          \/ \E rec \in Record, finish \in BOOLEAN :
               WillPut(b, m, rec, finish) /\ ~Overwrites(b, m, rec)
  <2>1. CASE HasBlob(b, m) /\ UNCHANGED <<incoming, task, unread>>
    BY <1>5, <2>1 DEF Types, Counted
  <2>2. CASE Render(b, m, inc.meta) /\ MaybeFinish(b, m, inc)
    BY <1>4, <1>5, <1>8, <2>2, Rendered, MaybeFinishLemma
  <2>3. CASE /\ ~Has(b, m)
             /\ incoming' = [incoming EXCEPT ![b][m] = inc]
             /\ WillPut(b, m, [reads |-> reads, blob |-> FALSE], TRUE)
             /\ UNCHANGED unread
    <3>1. [reads |-> reads, blob |-> FALSE] \in Record
      BY <1>4 DEF Record
    <3>2. ~Overwrites(b, m, [reads |-> reads, blob |-> FALSE])
      BY <2>3 DEF Overwrites
    <3>3. incoming' \in [Browsers -> [Files -> Incoming \cup {None}]] /\ Counted'
      BY <1>4, <1>5, <1>8, <2>3, EntryStored
    <3> QED
      BY <1>5, <2>3, <3>1, <3>2, <3>3 DEF Types
  <2> QED
    BY <1>9, <2>1, <2>2, <2>3
<1> QED
  BY <1>1, <1>4, <1>5, <1>10, HandlerInv DEF Types

LEMMA OnFileChunkInv ==
    ASSUME Inv, NEW b \in Browsers, NEW msg, OnFileChunk(b, msg)
    PROVE  Inv'
<1>1. /\ Receives(b, msg, "file-chunk")
      /\ UNCHANGED <<from, db, unread, marking, receipts, linked, closed, sync, drops>>
  BY DEF OnFileChunk, linkVars
<1>2. PICK m : m = msg.body.id
  OBVIOUS
<1>3. PICK i : i = msg.body.i
  OBVIOUS
<1>4. m \in Files /\ Sent(m) /\ net' \subseteq net /\ i \in Chunks
  <2>1. /\ msg.body \in Body /\ msg.body.type = "file-chunk"
        /\ Sent(msg.body.id) /\ net' \subseteq net
    BY <1>1, ReceivedLemma
  <2> QED
    BY <1>2, <1>3, <2>1, BodyFields
<1>5. m \in Msgs /\ Types /\ Counted
  BY <1>4 DEF Msgs, Inv
<1>6. PICK inc \in Entries : inc = IF incoming[b][m] = None THEN NoParts ELSE incoming[b][m]
  BY <1>4, <1>5, CurrentEntry
<1>7. \/ UNCHANGED <<incoming, task>>
      \/ NewPart(inc, i) /\ MaybeFinish(b, m, [inc EXCEPT !.parts = @ \cup {i}, !.got = @ + 1])
  BY <1>2, <1>3, <1>6 DEF OnFileChunk
<1>8. /\ incoming' \in [Browsers -> [Files -> Incoming \cup {None}]] /\ Counted'
      /\ \/ task' = task
         \/ task' = [task EXCEPT ![b] = None]
         \/ \E rec \in Record, finish \in BOOLEAN :
              WillPut(b, m, rec, finish) /\ ~Overwrites(b, m, rec)
  <2>1. CASE UNCHANGED <<incoming, task>>
    BY <1>5, <2>1 DEF Types, Counted
  <2>2. CASE /\ NewPart(inc, i)
             /\ MaybeFinish(b, m, [inc EXCEPT !.parts = @ \cup {i}, !.got = @ + 1])
    <3>1. PICK new : new = [inc EXCEPT !.parts = @ \cup {i}, !.got = @ + 1]
      OBVIOUS
    <3>2. new \in Entries
      <4>1. {} \in SUBSET Browsers
        OBVIOUS
      <4> QED
        BY <1>4, <2>2, <3>1, <4>1, EntryTypes
    <3>3. MaybeFinish(b, m, new)
      BY <2>2, <3>1
    <3> QED
      BY <1>4, <1>5, <3>2, <3>3, MaybeFinishLemma
  <2> QED
    BY <1>7, <2>1, <2>2
<1> QED
  BY <1>1, <1>4, <1>5, <1>8, HandlerInv DEF Types

-----------------------------------------------------------------------------
(* The end of a handler, and the connections.                               *)

LEMMA EndTaskInv ==
    ASSUME Inv, NEW b \in Browsers, EndTask(b)
    PROVE  Inv'
<1>1. PICK t : t = task[b]
  OBVIOUS
<1>2. PICK m : m = t.id
  OBVIOUS
<1>3. PICK rec : rec = t.rec
  OBVIOUS
<1>4. Types /\ Counted /\ SentFirst /\ Fresh
  BY DEF Inv
<1>5. /\ t # None /\ Put(b, m, rec) /\ Render(b, m, rec.reads)
      /\ \/ /\ incoming' = [incoming EXCEPT ![b][m] = None]
            /\ WillPut(b, m, [rec EXCEPT !.blob = TRUE], FALSE)
         \/ task' = [task EXCEPT ![b] = None] /\ incoming' = incoming
      /\ UNCHANGED <<from, marking, receipts, linked, closed, sync, drops, net>>
  BY <1>1, <1>2, <1>3 DEF EndTask, linkVars
<1>6. m \in Msgs /\ rec \in Record /\ Sent(m)
  <2>1. t \in Task
    BY <1>1, <1>4, <1>5 DEF Types
  <2> QED
    BY <1>1, <1>2, <1>3, <1>4, <1>5, <2>1 DEF Task, SentFirst
<1>7. /\ db' \in [Browsers -> [Msgs -> Record \cup {None}]] /\ db'[b][m] = rec
      /\ \A x \in Browsers, y \in Msgs : (x # b \/ y # m) => db'[x][y] = db[x][y]
  BY <1>4, <1>5, <1>6, PutLemma
<1>8. /\ incoming' \in [Browsers -> [Files -> Incoming \cup {None}]]
      /\ Counted'
  <2>1. CASE incoming' = incoming
    BY <1>4, <2>1 DEF Types, Counted
  <2>2. CASE incoming' = [incoming EXCEPT ![b][m] = None]
    <3>1. CASE m \in Files
      BY <1>4, <2>2, <3>1, EntryStored
    <3>2. CASE m \notin Files
      <4>1. incoming' \in [Browsers -> [Files -> Incoming \cup {None}]]
            /\ \A x \in Browsers, y \in Files : incoming'[x][y] = incoming[x][y]
        BY <1>4, <2>2, <3>2 DEF Types
      <4> QED
        BY <1>4, <4>1 DEF Counted
    <3> QED
      BY <3>1, <3>2
  <2> QED
    BY <1>5, <2>1, <2>2
<1>9. /\ task' \in [Browsers -> Task \cup {None}]
      /\ \A x \in Browsers \ {b} : task'[x] = task[x]
      /\ \/ task'[b] = None
         \/ task'[b].id = m /\ task'[b].rec = [rec EXCEPT !.blob = TRUE]
  <2>1. CASE task' = [task EXCEPT ![b] = None]
    BY <1>4, <2>1 DEF Types
  <2>2. CASE WillPut(b, m, [rec EXCEPT !.blob = TRUE], FALSE)
    <3>1. PICK u : u = [id |-> m, rec |-> [rec EXCEPT !.blob = TRUE],
                        finish |-> FALSE, stale |-> FALSE]
      OBVIOUS
    <3>2. [rec EXCEPT !.blob = TRUE] \in Record
      BY <1>6 DEF Record
    <3>3. u \in Task /\ u.id = m /\ u.rec = [rec EXCEPT !.blob = TRUE]
      BY <1>6, <3>1, <3>2 DEF Task
    <3>4. task' = [task EXCEPT ![b] = u]
      BY <2>2, <3>1 DEF WillPut
    <3> QED
      BY <1>4, <3>3, <3>4 DEF Types
  <2> QED
    BY <1>5, <2>1, <2>2
<1>10. Types'
  <2>1. unread' \in [Browsers -> SUBSET Msgs]
    BY <1>4, <1>5, <1>6, Rendered
  <2> QED
    BY <1>4, <1>5, <1>7, <1>8, <1>9, <2>1 DEF Types
<1>11. SentFirst'
  <2>1. \A y : Sent(y)' <=> Sent(y)
    BY <1>5 DEF Sent
  <2>2. \A x \in Browsers, y \in Msgs : Has(x, y)' => Sent(y)
    BY <1>4, <1>6, <1>7 DEF SentFirst, Has
  <2>3. \A x \in Browsers : task'[x] # None => Sent(task'[x].id)
    BY <1>4, <1>6, <1>9 DEF SentFirst
  <2>4. marking' = marking /\ receipts' = receipts /\ net' = net
    BY <1>5
  <2> QED
    BY <1>4, <2>1, <2>2, <2>3, <2>4 DEF SentFirst
<1>12. Fresh'
  <2> SUFFICES ASSUME NEW x \in Browsers, task'[x] # None, ~task'[x].stale
               PROVE  ~Overwrites(x, task[x].id, task[x].rec)'
    BY DEF Fresh
  <2>1. CASE x = b
    <3>1. task'[b].id = m /\ task'[b].rec = [rec EXCEPT !.blob = TRUE]
      BY <1>9, <2>1
    <3>2. rec.reads \subseteq [rec EXCEPT !.blob = TRUE].reads /\ [rec EXCEPT !.blob = TRUE].blob
      BY <1>6 DEF Record
    <3> QED
      BY <1>7, <2>1, <3>1, <3>2 DEF Overwrites
  <2>2. CASE x # b
    <3>1. task'[x] = task[x]
      BY <1>9, <2>2
    <3>2. task[x] # None => task[x].id \in Msgs
      BY <1>4 DEF Types, Task
    <3>3. task[x] # None => db'[x][task[x].id] = db[x][task[x].id]
      BY <1>7, <2>2, <3>2
    <3> QED
      BY <1>4, <3>1, <3>3, FreshKept
  <2> QED
    BY <2>1, <2>2
<1> QED
  BY <1>8, <1>10, <1>11, <1>12 DEF Inv

(* A step that only moves messages and connections.                         *)
LEMMA NetInv ==
    ASSUME Inv, UNCHANGED <<from, db, incoming, task, unread, marking, receipts>>,
           linked' \subseteq Pairs, closed' \subseteq linked',
           sync' \in [Pairs -> {"none", "asked", "done"}],
           drops' \in 0..MaxDrops,
           net' \subseteq [from : Browsers, to : Browsers, body : Body],
           \A msg \in net', y \in Msgs : Mentions(msg.body, y) => Sent(y)
    PROVE  Inv'
<1>1. Types'
  BY DEF Inv, Types
<1>2. Counted'
  BY DEF Inv, Counted
<1>3. /\ \A x \in Browsers : \A r \in marking'[x] : Sent(r.id)
      /\ \A x \in Browsers : \A y \in receipts'[x] : Sent(y)
  BY DEF Inv, SentFirst
<1> QED
  BY <1>1, <1>2, <1>3, SameRecords

LEMMA AskInv ==
    ASSUME Inv, NEW a \in Browsers, NEW b \in Browsers, Ask(a, b)
    PROVE  Inv'
<1>1. PICK x : x = [type |-> "history-req", ids |-> {m \in Msgs : Has(a, m)}]
  OBVIOUS
<1>2. x \in Body /\ x.type = "history-req"
  BY <1>1 DEF Body
<1>3. /\ sync' = [sync EXCEPT ![<<a, b>>] = "asked"]
      /\ net' = net \cup Messages(a, {b}, {x})
      /\ UNCHANGED <<from, db, incoming, task, unread, marking, receipts, linked,
                     closed, drops>>
  BY <1>1 DEF Ask, pageVars
<1>4. PICK to \in SUBSET Browsers : to = {b}
  OBVIOUS
<1>7. PICK body : body = {x}
  OBVIOUS
<1>8. \A m \in Msgs : Sent(m) => Sent(m)'
  BY <1>3 DEF Sent
<1>9. /\ body \subseteq Body
      /\ \A y \in body, m \in Msgs : Mentions(y, m) => Sent(m)'
  BY <1>2, <1>7 DEF Mentions
<1>5. /\ net' \subseteq [from : Browsers, to : Browsers, body : Body]
      /\ \A msg \in net', m \in Msgs : Mentions(msg.body, m) => Sent(m)'
  <2>1. net' \subseteq net \cup Messages(a, to, body)
    BY <1>3, <1>4, <1>7
  <2> QED
    BY <1>8, <1>9, <2>1, Posted DEF Inv
<1>6. \A m : Sent(m)' <=> Sent(m)
  BY <1>3 DEF Sent
<1> QED
  BY <1>3, <1>5, <1>6, NetInv DEF Inv, Types

LEMMA AnswerInv ==
    ASSUME Inv, NEW b \in Browsers, NEW req, Answer(b, req)
    PROVE  Inv'
<1> DEFINE ids == req.body.ids
           records == {RecordOf(m, db[b][m].reads) : m \in Missing(b, ids)}
           known == {ReadsOf(m, db[b][m].reads) : m \in KnownReads(b, ids)}
           files == UNION {FileOf(m, db[b][m].reads) : m \in FilesToSend(b, ids)}
           body == records \cup known \cup files \cup {[type |-> "history-end"]}
<1>1. /\ req \in net /\ req.body.type = "history-req"
      /\ net' = (net \ {req}) \cup Messages(b, {req.from}, body)
      /\ UNCHANGED <<from, db, incoming, task, unread, marking, receipts, linked,
                     closed, sync, drops>>
  <2>1. req \in net /\ req.body.type = "history-req"
    BY DEF Answer
  <2>2. net' = (net \ {req}) \cup Messages(b, {req.from}, body)
    BY DEF Answer, Reply
  <2>3. UNCHANGED <<from, db, incoming, task, unread, marking, receipts, linked,
                    closed, sync, drops>>
    BY DEF Answer, pageVars, linkVars
  <2> QED
    BY <2>1, <2>2, <2>3
<1>2. req.from \in Browsers /\ ids \in SUBSET Msgs
  BY <1>1, BodyFields DEF Inv, Types
<1> HIDE DEF ids
<1>3. ASSUME NEW m \in Msgs, Has(b, m)
      PROVE  db[b][m].reads \in SUBSET Browsers /\ Sent(m)
  BY <1>3 DEF Inv, Types, SentFirst, Has, Record
<1>4. ASSUME NEW x \in body PROVE x \in Body /\ \A y \in Msgs : Mentions(x, y) => Sent(y)
  <2>1. CASE x \in records
    <3>1. PICK m \in Missing(b, ids) : x = RecordOf(m, db[b][m].reads)
      BY <2>1
    <3>2. m \in Msgs /\ Has(b, m)
      BY DEF Missing
    <3>3. x \in Body /\ x.id = m /\ Sent(m)
      BY <1>3, <3>1, <3>2, BodyIn
    <3> QED
      BY <3>3 DEF Mentions
  <2>2. CASE x \in known
    <3>1. PICK m \in KnownReads(b, ids) : x = ReadsOf(m, db[b][m].reads)
      BY <2>2
    <3>2. m \in Msgs /\ Has(b, m)
      BY <1>2 DEF KnownReads
    <3>3. x \in Body /\ x.id = m /\ Sent(m)
      BY <1>3, <3>1, <3>2, BodyIn
    <3> QED
      BY <3>3 DEF Mentions
  <2>3. CASE x \in files
    <3>1. PICK m \in FilesToSend(b, ids) : x \in FileOf(m, db[b][m].reads)
      BY <2>3
    <3>2. m \in Files /\ m \in Msgs /\ Has(b, m)
      BY DEF FilesToSend, Missing
    <3>3. x \in Body /\ x.id = m /\ Sent(m)
      BY <1>3, <3>1, <3>2, BodyIn
    <3> QED
      BY <3>3 DEF Mentions
  <2>4. CASE x = [type |-> "history-end"]
    BY <2>4 DEF Body, Mentions
  <2> HIDE DEF records, known, files
  <2> QED
    BY <1>4, <2>1, <2>2, <2>3, <2>4
<1> HIDE DEF body
<1>5. \A m \in Msgs : Sent(m)' <=> Sent(m)
  BY <1>1 DEF Sent
<1>6. /\ net' \subseteq [from : Browsers, to : Browsers, body : Body]
      /\ \A msg \in net', m \in Msgs : Mentions(msg.body, m) => Sent(m)'
  <2>1. /\ body \subseteq Body /\ \A x \in body, y \in Msgs : Mentions(x, y) => Sent(y)'
        /\ {req.from} \in SUBSET Browsers
        /\ net' \subseteq net \cup Messages(b, {req.from}, body)
    BY <1>1, <1>2, <1>4, <1>5
  <2> QED
    BY <1>5, <2>1, Posted DEF Inv
<1> QED
  BY <1>1, <1>5, <1>6, NetInv DEF Inv, Types

LEMMA OnHistoryEndInv ==
    ASSUME Inv, NEW a \in Browsers, NEW msg, OnHistoryEnd(a, msg)
    PROVE  Inv'
<1>1. /\ Receives(a, msg, "history-end")
      /\ sync' = [sync EXCEPT ![<<a, msg.from>>] = "done"]
      /\ UNCHANGED <<from, db, incoming, task, unread, marking, receipts, linked,
                     closed, drops>>
  BY DEF OnHistoryEnd, pageVars
<1>2. net' \subseteq net
  BY <1>1, ReceivedLemma
<1> QED
  BY <1>1, <1>2, NetInv DEF Inv, Types, SentFirst

LEMMA LinkInv ==
    ASSUME Inv, NEW a \in Browsers, NEW b \in Browsers, Link(a, b)
    PROVE  Inv'
<1>1. /\ a # b /\ linked' = linked \cup {<<a, b>>, <<b, a>>}
      /\ UNCHANGED <<from, db, incoming, task, unread, marking, receipts, closed, sync,
                     net, drops>>
  BY DEF Link, pageVars
<1>2. linked' \subseteq Pairs /\ closed' \subseteq linked'
  BY <1>1 DEF Inv, Types, Pairs
<1> QED
  BY <1>1, <1>2, NetInv DEF Inv, Types, SentFirst

LEMMA PairsLost ==
    ASSUME Inv, NEW pairs, LosePairs(pairs), from' = from
    PROVE  /\ linked' \subseteq Pairs /\ closed' \subseteq linked'
           /\ sync' \in [Pairs -> {"none", "asked", "done"}]
           /\ drops' \in 0..MaxDrops
           /\ net' \subseteq [from : Browsers, to : Browsers, body : Body]
           /\ \A msg \in net', y \in Msgs : Mentions(msg.body, y) => Sent(y)
<1>1. /\ drops < MaxDrops /\ drops' = drops + 1
      /\ linked' = linked \ pairs /\ closed' = closed \ pairs
      /\ sync' = [p \in Pairs |-> IF p \in pairs THEN "none" ELSE sync[p]]
      /\ net' \subseteq net
  BY DEF LosePairs
<1>2. drops' \in 0..MaxDrops
  BY <1>1, BoundsAssumption DEF Inv, Types
<1> QED
  BY <1>1, <1>2 DEF Inv, Types, SentFirst

LEMMA UnlinkInv ==
    ASSUME Inv, NEW a \in Browsers, NEW b \in Browsers, Unlink(a, b)
    PROVE  Inv'
<1>1. /\ LosePairs({<<a, b>>, <<b, a>>})
      /\ UNCHANGED <<from, db, incoming, task, unread, marking, receipts>>
  BY DEF Unlink, pageVars
<1> QED
  BY <1>1, PairsLost, NetInv

LEMMA ChannelClosesInv ==
    ASSUME Inv, NEW a \in Browsers, NEW b \in Browsers, ChannelCloses(a, b)
    PROVE  Inv'
<1>1. /\ <<a, b>> \in linked /\ closed' = closed \cup {<<a, b>>} /\ net' \subseteq net
      /\ UNCHANGED <<from, db, incoming, task, unread, marking, receipts, linked, sync,
                     drops>>
  BY DEF ChannelCloses, pageVars
<1> QED
  BY <1>1, NetInv DEF Inv, Types, SentFirst

LEMMA ReloadInv ==
    ASSUME Inv, NEW b \in Browsers, Reload(b)
    PROVE  Inv'
<1>1. /\ LosePairs({p \in Pairs : b \in {p[1], p[2]}})
      /\ incoming' = [incoming EXCEPT ![b] = [m \in Files |-> None]]
      /\ task' = [task EXCEPT ![b] = None]
      /\ marking' = [marking EXCEPT ![b] = {}]
      /\ receipts' = [receipts EXCEPT ![b] = {}]
      /\ unread' = [unread EXCEPT ![b] =
            {m \in Msgs : Has(b, m) /\ from[m] # b /\ b \notin db[b][m].reads}]
      /\ UNCHANGED <<from, db>>
  BY DEF Reload
<1>2. /\ linked' \subseteq Pairs /\ closed' \subseteq linked'
      /\ sync' \in [Pairs -> {"none", "asked", "done"}]
      /\ drops' \in 0..MaxDrops
      /\ net' \subseteq [from : Browsers, to : Browsers, body : Body]
      /\ \A msg \in net', y \in Msgs : Mentions(msg.body, y) => Sent(y)
  BY <1>1, PairsLost
<1>3. /\ incoming' \in [Browsers -> [Files -> Incoming \cup {None}]]
      /\ Counted'
  <2>1. incoming \in [Browsers -> [Files -> Incoming \cup {None}]]
    BY DEF Inv, Types
  <2>2. incoming' \in [Browsers -> [Files -> Incoming \cup {None}]]
    BY <1>1, <2>1
  <2>3. \A x \in Browsers, y \in Files : incoming'[x][y] \in {incoming[x][y], None}
    BY <1>1, <2>1
  <2> QED
    BY <2>2, <2>3 DEF Inv, Counted, CountOK
<1>4. task' \in [Browsers -> Task \cup {None}]
      /\ \A x \in Browsers : task'[x] \in {task[x], None}
  BY <1>1 DEF Inv, Types
<1>5. /\ marking' \in [Browsers -> SUBSET [id : Msgs, rec : Record]]
      /\ receipts' \in [Browsers -> SUBSET Msgs] /\ unread' \in [Browsers -> SUBSET Msgs]
      /\ \A x \in Browsers : marking'[x] \subseteq marking[x] /\ receipts'[x] \subseteq receipts[x]
  BY <1>1 DEF Inv, Types
<1>6. Types'
  BY <1>1, <1>2, <1>3, <1>4, <1>5 DEF Inv, Types
<1>7. /\ \A x \in Browsers : \A r \in marking'[x] : Sent(r.id)
      /\ \A x \in Browsers : \A y \in receipts'[x] : Sent(y)
  BY <1>5 DEF Inv, SentFirst
<1> QED
  BY <1>1, <1>2, <1>3, <1>4, <1>6, <1>7, SameRecords

-----------------------------------------------------------------------------
LEMMA StutterInv ==
    ASSUME Inv, UNCHANGED vars
    PROVE  Inv'
<1>1. UNCHANGED <<from, db, incoming, task, unread, marking, receipts, linked, closed,
                  sync, net, drops>>
  BY DEF vars
<1> QED
  BY <1>1, NetInv DEF Inv, Types, SentFirst

LEMMA NextInv ==
    ASSUME Inv, [Next]_vars
    PROVE  Inv'
BY SendInv, BeginReadInv, EndReadInv, FlushReadsInv, OnMessageInv, OnReadsInv, OnFileMetaInv,
   OnFileChunkInv, EndTaskInv, AskInv, AnswerInv, OnHistoryEndInv, LinkInv, UnlinkInv,
   ChannelClosesInv, ReloadInv, StutterInv DEF Next

THEOREM Invariance == Spec => []Inv
<1>1. Inv /\ [Next]_vars => Inv'
  BY NextInv
<1> QED
  BY <1>1, InitInv, PTL DEF Spec

(* Every variable holds a value of its kind, and the count of the parts of  *)
(* an incoming file is right.                                               *)
THEOREM TypeCorrect == Spec => []TypeOK
BY InvTypes, Invariance, PTL

-----------------------------------------------------------------------------
(* Lost updates.                                                            *)

LEMMA NothingLost ==
    ASSUME NEW b \in Browsers, NEW m \in Msgs, db'[b][m] = db[b][m]
    PROVE  ~Overwrites(b, m, db'[b][m])
BY DEF Overwrites

(* Only three steps put records.                                            *)
LEMMA WhoPuts ==
    ASSUME [Next]_vars
    PROVE  \/ db' = db
           \/ \E b \in Browsers, m \in Msgs : Send(b, m)
           \/ \E b \in Browsers : \E r \in marking[b] : EndRead(b, r)
           \/ \E b \in Browsers : EndTask(b)
BY DEF Next, vars, BeginRead, FlushReads, OnMessage, OnReads, OnFileMeta, OnFileChunk, Ask, Answer,
       OnHistoryEnd, Link, Unlink, ChannelCloses, Reload

LEMMA LossExplained ==
    ASSUME Inv, [Next]_vars, NEW b \in Browsers, NEW m \in Msgs,
           Has(b, m), Overwrites(b, m, db'[b][m])
    PROVE  \/ \E r \in marking[b] : r.id = m /\ r \notin marking'[b]
           \/ task[b] # None /\ task[b].id = m /\ task[b].stale
<1>1. Types /\ SentFirst /\ Fresh
  BY DEF Inv
<1>2. db'[b][m] # db[b][m]
  BY NothingLost
<1>3. CASE db' = db
  BY <1>2, <1>3
<1>4. ASSUME NEW x \in Browsers, NEW y \in Msgs, Send(x, y)
      PROVE  FALSE
  <2>1. Put(x, y, [reads |-> {}, blob |-> y \in Files]) /\ from[y] = None
    BY <1>4 DEF Send
  <2>2. [reads |-> {}, blob |-> y \in Files] \in Record
    BY DEF Record
  <2>3. x = b /\ y = m
    BY <1>1, <1>2, <2>1, <2>2, PutLemma
  <2> QED
    BY <1>1, <2>1, <2>3 DEF SentFirst, Sent
<1>5. ASSUME NEW x \in Browsers, NEW r \in marking[x], EndRead(x, r)
      PROVE  x = b /\ r.id = m /\ r \notin marking'[b]
  <2>1. PICK rec : rec = [r.rec EXCEPT !.reads = @ \cup {x}]
    OBVIOUS
  <2>2. Put(x, r.id, rec) /\ marking' = [marking EXCEPT ![x] = @ \ {r}]
    BY <1>5, <2>1 DEF EndRead
  <2>3. r \in [id : Msgs, rec : Record]
    BY <1>1 DEF Types
  <2>4. r.id \in Msgs /\ r.rec \in [reads : SUBSET Browsers, blob : BOOLEAN]
    BY <2>3 DEF Record
  <2>5. rec \in Record
    BY <2>1, <2>4 DEF Record
  <2>6. x = b /\ r.id = m
    BY <1>1, <1>2, <2>2, <2>4, <2>5, PutLemma
  <2> QED
    BY <1>1, <2>2, <2>6 DEF Types
<1>6. ASSUME NEW x \in Browsers, EndTask(x)
      PROVE  x = b /\ task[b] # None /\ task[b].id = m /\ task[b].stale
  <2>1. task[x] # None /\ Put(x, task[x].id, task[x].rec)
    BY <1>6 DEF EndTask
  <2>2. task[x].id \in Msgs /\ task[x].rec \in Record
    BY <1>1, <2>1 DEF Types, Task
  <2>3. x = b /\ task[x].id = m /\ db'[b][m] = task[x].rec
    BY <1>1, <1>2, <2>1, <2>2, PutLemma
  <2> QED
    BY <1>1, <2>1, <2>3 DEF Fresh
<1> QED
  BY <1>3, <1>4, <1>5, <1>6, WhoPuts

(* Handlers run one at a time, so that they do not undo each other's work:  *)
(* a record loses receipts or its file only in the put of a markRead, or in *)
(* that of a handler which a markRead of the same message came between.     *)
THEOREM LostOnlyToMarkReadHolds == Spec => LostOnlyToMarkRead
<1>1. Inv /\ [Next]_vars =>
        [\A b \in Browsers, m \in Msgs :
           (Has(b, m) /\ Overwrites(b, m, db'[b][m])) =>
             \/ \E r \in marking[b] : r.id = m /\ r \notin marking'[b]
             \/ task[b] # None /\ task[b].id = m /\ task[b].stale]_vars
  BY LossExplained
<1> QED
  BY <1>1, Invariance, PTL DEF Spec, LostOnlyToMarkRead
-----------------------------------------------------------------------------
(* What GapsFill and ReceiptsAgree rest on.  First, connections.            *)

LinkFacts ==
    /\ had \in [Pairs -> [Msgs -> Record \cup {None}]]
    /\ \A a, b \in Browsers : <<a, b>> \in linked => <<b, a>> \in linked
    /\ \A msg \in net : <<msg.from, msg.to>> \in linked
    /\ \A p \in Pairs : sync[p] # "none" => p \in linked
    /\ \A req \in net : req.body.type = "history-req" =>
         /\ sync[<<req.from, req.to>>] # "none"
         /\ \A m \in req.body.ids : Has(req.from, m)
    /\ \A msg \in net : msg.body.type = "history-end" => sync[<<msg.to, msg.from>>] # "none"

(* A receipt is real: the reader has put it, or lost it to another put; and *)
(* no author has one.                                                       *)
ReadBy(x, m) == (Has(x, m) /\ x \in db[x][m].reads) \/ <<x, m>> \in raced

TrueReads(m, reads) == Sent(m) /\ from[m] \notin reads /\ \A x \in reads : ReadBy(x, m)

TrueRecord(m, rec) == TrueReads(m, rec.reads) /\ (rec.blob => m \in Files)

NoLess(b, m, rec) == Has(b, m) /\ (rec.reads \subseteq db[b][m].reads \/ <<b, m>> \in raced)

AuthorHas(b, m) == Has(b, m) /\ (m \in Files => HasBlob(b, m) \/ <<b, m>> \in raced)

StoredTrue ==
    /\ \A m \in Msgs : Sent(m) => AuthorHas(from[m], m)
    /\ \A b \in Browsers, m \in Msgs : Has(b, m) => TrueRecord(m, db[b][m])

TasksTrue ==
    \A b \in Browsers : task[b] # None =>
      TrueRecord(task[b].id, task[b].rec) /\ (task[b].finish => task[b].id \in Files)

MarksTrue ==
    \A b \in Browsers :
      /\ \A r \in marking[b] : Has(b, r.id) /\ TrueRecord(r.id, r.rec) /\ from[r.id] # b
      /\ \A m \in unread[b] : from[m] \notin {b, None}
      /\ \A m \in receipts[b] : TrueReads(m, {b})

HadTrue ==
    \A p \in Pairs, m \in Msgs :
      had[p][m] # None => TrueRecord(m, had[p][m]) /\ NoLess(p[1], m, had[p][m])

MetaTrue ==
    \A b \in Browsers, m \in Files :
      (incoming[b][m] # None /\ incoming[b][m].meta # None) => TrueReads(m, incoming[b][m].meta)

Carries(x) == x.type \in {"msg", "reads", "file-meta"}

NetTrue == \A msg \in net : Carries(msg.body) => TrueReads(msg.body.id, msg.body.reads)

TrueFacts == StoredTrue /\ TasksTrue /\ MarksTrue /\ HadTrue /\ MetaTrue /\ NetTrue

-----------------------------------------------------------------------------
(* The contents of a file that a browser knows of are there, or on their    *)
(* way from one peer, or will not come.  What a closing channel took counts *)
(* as on its way: it does not come any more, and GapsFill and ReceiptsAgree *)
(* say so, but nothing else has become of it.                               *)

Way == net \cup lost

Doing(b, m) == task[b] # None /\ task[b].id = m

Brings(msg, a, b, m) ==
    msg.from = a /\ msg.to = b /\ msg.body.type \in {"msg", "file-meta"} /\ msg.body.id = m

IsPart(msg, a, b, m, i) ==
    msg.from = a /\ msg.to = b /\ msg.body.type = "file-chunk" /\ msg.body.id = m /\ msg.body.i = i

IsMeta(msg, a, b, m) ==
    msg.from = a /\ msg.to = b /\ msg.body.type = "file-meta" /\ msg.body.id = m

HasPart(b, m, i) == incoming[b][m] # None /\ i \in incoming[b][m].parts
HasMeta(b, m) == incoming[b][m] # None /\ incoming[b][m].meta # None

PartComes(c, b, m, i) == HasPart(b, m, i) \/ \E msg \in Way : IsPart(msg, c, b, m, i)
MetaComes(c, b, m) == HasMeta(b, m) \/ \E msg \in Way : IsMeta(msg, c, b, m)

Gathering(c, b, m) == MetaComes(c, b, m) /\ \A i \in Chunks : PartComes(c, b, m, i)

Excused(b, m) ==
    \/ HasBlob(b, m)
    \/ Doing(b, m) /\ task[b].rec.blob
    \/ <<b, m>> \in cut \cup raced

ContentsAt(b, m) ==
    /\ Has(b, m) \/ Doing(b, m) => Excused(b, m) \/ \E c \in Browsers : Gathering(c, b, m)
    /\ \A c \in Browsers : (\E msg \in net : Brings(msg, c, b, m)) =>
         Excused(b, m) \/ Gathering(c, b, m)

Contents == \A b \in Browsers, m \in Files : ContentsAt(b, m)

(* A file that is complete is about to be finished.                         *)
Finishing ==
    \A b \in Browsers, m \in Files :
      Complete(incoming[b][m]) => Doing(b, m) /\ task[b].finish

-----------------------------------------------------------------------------
(* What a browser has to tell another is told, or will be in the answer to  *)
(* its request.                                                             *)

Offers(a, b, m) == from[m] = a \/ had[<<a, b>>][m] # None

Requested(b, a) == \E req \in net : req.from = b /\ req.to = a /\ req.body.type = "history-req"

Coming(a, b, m) == Has(b, m) \/ Doing(b, m) \/ \E msg \in Way : Brings(msg, a, b, m)

(* A message of a by which b will know that x has read m.                   *)
Tells(msg, a, b, m, x) ==
    /\ msg.from = a /\ msg.to = b
    /\ msg.body.type = "msg" \/ (msg.body.type = "reads" /\ Has(b, m))
    /\ msg.body.id = m /\ x \in msg.body.reads

Carried(a, b, m, x) ==
    \/ Has(b, m) /\ x \in db[b][m].reads
    \/ Doing(b, m) /\ x \in task[b].rec.reads
    \/ <<b, m>> \in raced
    \/ \E msg \in Way : Tells(msg, a, b, m, x)

HadThen(a, b, m, x) == had[<<a, b>>][m] # None /\ x \in had[<<a, b>>][m].reads

Asked(b, a) == sync[<<b, a>>] # "none"

PresenceAt(a, b) ==
    Asked(b, a) => \A m \in Msgs : Offers(a, b, m) => Coming(a, b, m) \/ Requested(b, a)

OldReceiptsAt(a, b) ==
    Asked(b, a) =>
      \A m \in Msgs, x \in Browsers :
        (<<a, m>> \notin raced /\ HadThen(a, b, m, x)) => Carried(a, b, m, x) \/ Requested(b, a)

HasRead(a, m) == Has(a, m) /\ a \in db[a][m].reads

OwnReceiptsAt(a, b) ==
    <<a, b>> \in linked =>
      \A m \in Msgs :
        (<<a, m>> \notin raced /\ Offers(b, a, m) /\ HasRead(a, m)) =>
           m \in receipts[a] \/ Carried(a, b, m, a) \/ HadThen(a, b, m, a)

ToldAt(a, b) == PresenceAt(a, b) /\ OldReceiptsAt(a, b) /\ OwnReceiptsAt(a, b)

Told == \A a, b \in Browsers : a # b => ToldAt(a, b)

FullInv == Inv /\ LinkFacts /\ TrueFacts /\ Contents /\ Finishing /\ Told

-----------------------------------------------------------------------------
(* What every step keeps: a record loses receipts or its contents only to   *)
(* an overlapping put.                                                      *)

Kept ==
    /\ raced \subseteq raced' /\ cut \subseteq cut'
    /\ \A m \in Msgs : Sent(m) => from'[m] = from[m]
    /\ \A b \in Browsers, m \in Msgs : Has(b, m) =>
         /\ Has(b, m)'
         /\ HasBlob(b, m) => HasBlob(b, m)' \/ <<b, m>> \in raced'
         /\ db[b][m].reads \subseteq db'[b][m].reads \/ <<b, m>> \in raced'

LEMMA PutKeeps ==
    ASSUME Types, NEW b \in Browsers, NEW m \in Msgs, NEW rec \in Record, Put(b, m, rec),
           cut' = cut, \A y \in Msgs : Sent(y) => from'[y] = from[y]
    PROVE  Kept
<1>1. /\ db'[b][m] = rec /\ rec # None
      /\ \A x \in Browsers, y \in Msgs : (x # b \/ y # m) => db'[x][y] = db[x][y]
  BY PutLemma, NoneAssumption
<1>2. raced' = IF Overwrites(b, m, rec) THEN raced \cup {<<b, m>>} ELSE raced
  BY DEF Put
<1>3. Has(b, m) =>
        /\ Has(b, m)'
        /\ HasBlob(b, m) => HasBlob(b, m)' \/ <<b, m>> \in raced'
        /\ db[b][m].reads \subseteq db'[b][m].reads \/ <<b, m>> \in raced'
  BY <1>1, <1>2 DEF Has, HasBlob, Overwrites
<1>4. \A x \in Browsers, y \in Msgs : (x # b \/ y # m) =>
        (Has(x, y) =>
          /\ Has(x, y)'
          /\ HasBlob(x, y) => HasBlob(x, y)' \/ <<x, y>> \in raced'
          /\ db[x][y].reads \subseteq db'[x][y].reads \/ <<x, y>> \in raced')
  BY <1>1 DEF Has, HasBlob
<1> QED
  BY <1>2, <1>3, <1>4 DEF Kept

LEMMA SameKeeps ==
    ASSUME UNCHANGED <<from, db, raced>>, cut \subseteq cut'
    PROVE  Kept
BY DEF Kept, Has, HasBlob, Sent

LEMMA StillReadBy ==
    ASSUME Types, Kept, NEW x \in Browsers, NEW m \in Msgs, ReadBy(x, m)
    PROVE  ReadBy(x, m)'
BY DEF Kept, ReadBy, Has

LEMMA StillReads ==
    ASSUME Types, Kept, NEW m \in Msgs, NEW reads \in SUBSET Browsers, TrueReads(m, reads)
    PROVE  TrueReads(m, reads)'
<1>1. \A x \in reads : ReadBy(x, m)'
  BY StillReadBy DEF TrueReads
<1> QED
  BY <1>1 DEF Kept, TrueReads, Sent

LEMMA StillRecord ==
    ASSUME Types, Kept, NEW m \in Msgs, NEW rec \in Record, TrueRecord(m, rec)
    PROVE  TrueRecord(m, rec)'
<1>1. rec.reads \in SUBSET Browsers
  BY DEF Record
<1> QED
  BY <1>1, StillReads DEF TrueRecord

LEMMA StillNoLess ==
    ASSUME Types, Kept, NEW b \in Browsers, NEW m \in Msgs, NEW rec \in Record, NoLess(b, m, rec)
    PROVE  NoLess(b, m, rec)'
BY DEF Kept, NoLess

-----------------------------------------------------------------------------
(* The facts about receipts, kind by kind: what is new must be true.        *)

LEMMA StoredKept ==
    ASSUME Types, StoredTrue, Kept,
           \A m \in Msgs : Sent(m)' => Sent(m) \/ AuthorHas(from[m], m)',
           \A x \in Browsers, y \in Msgs : db'[x][y] = db[x][y] \/ TrueRecord(y, db[x][y])'
    PROVE  StoredTrue'
<1>1. ASSUME NEW m \in Msgs, Sent(m)' PROVE AuthorHas(from[m], m)'
  <2>1. CASE Sent(m)
    <3>1. from'[m] = from[m] /\ from[m] \in Browsers
      BY <2>1 DEF Kept, Types, Sent
    <3>2. PICK x \in Browsers : x = from[m]
      BY <3>1
    <3>3. Has(x, m) /\ (m \in Files => HasBlob(x, m) \/ <<x, m>> \in raced)
      BY <2>1, <3>2 DEF StoredTrue, AuthorHas
    <3>4. Has(x, m)' /\ (m \in Files => HasBlob(x, m)' \/ <<x, m>> \in raced')
      BY <3>3 DEF Kept
    <3> QED
      BY <3>1, <3>2, <3>4 DEF AuthorHas, Has, HasBlob
  <2> QED
    BY <1>1, <2>1
<1>2. ASSUME NEW x \in Browsers, NEW y \in Msgs, Has(x, y)' PROVE TrueRecord(y, db[x][y])'
  <2>1. CASE db'[x][y] = db[x][y]
    <3>1. PICK rec : rec = db[x][y]
      OBVIOUS
    <3>2. rec \in Record /\ TrueRecord(y, rec)
      BY <1>2, <2>1, <3>1 DEF Has, Types, StoredTrue
    <3>3. TrueRecord(y, rec)'
      BY <3>2, StillRecord
    <3> QED
      BY <2>1, <3>1, <3>3 DEF TrueRecord, TrueReads, ReadBy, Sent, Has
  <2> QED
    BY <2>1
<1> QED
  BY <1>1, <1>2 DEF StoredTrue

LEMMA TasksKept ==
    ASSUME Types, TasksTrue, Kept,
           \A x \in Browsers :
             \/ task'[x] = None
             \/ /\ task[x] # None /\ task'[x].id = task[x].id /\ task'[x].rec = task[x].rec
                /\ task'[x].finish = task[x].finish
             \/ TrueRecord(task[x].id, task[x].rec)' /\ (task'[x].finish => task'[x].id \in Files)
    PROVE  TasksTrue'
<1>1. ASSUME NEW x \in Browsers, task[x] # None, task'[x].id = task[x].id,
             task'[x].rec = task[x].rec
      PROVE  TrueRecord(task[x].id, task[x].rec)'
  <2>1. PICK m, rec : m = task[x].id /\ rec = task[x].rec
    OBVIOUS
  <2>2. m \in Msgs /\ rec \in Record /\ TrueRecord(m, rec)
    BY <1>1, <2>1 DEF Types, Task, TasksTrue
  <2>3. TrueRecord(m, rec)'
    BY <2>2, StillRecord
  <2> QED
    BY <1>1, <2>1, <2>3 DEF TrueRecord, TrueReads, ReadBy, Sent, Has
<1> QED
  BY <1>1 DEF TasksTrue

LEMMA MarksKept ==
    ASSUME Types, MarksTrue, Kept,
           \A x \in Browsers : \A r \in marking'[x] :
             r \in marking[x] \/ (Has(x, r.id)' /\ TrueRecord(r.id, r.rec)' /\ from'[r.id] # x),
           \A x \in Browsers : \A y \in unread'[x] :
             y \in unread[x] \/ from'[y] \notin {x, None},
           \A x \in Browsers : \A y \in receipts'[x] :
             y \in receipts[x] \/ TrueReads(y, {x})'
    PROVE  MarksTrue'
<1>1. ASSUME NEW x \in Browsers, NEW r \in marking[x]
      PROVE  Has(x, r.id)' /\ TrueRecord(r.id, r.rec)' /\ from'[r.id] # x
  <2>1. /\ r.id \in Msgs /\ r.rec \in Record
        /\ Has(x, r.id) /\ TrueRecord(r.id, r.rec) /\ from[r.id] # x
    <3>1. r \in [id : Msgs, rec : Record]
      BY <1>1 DEF Types
    <3> QED
      BY <1>1, <3>1 DEF MarksTrue
  <2>2. TrueRecord(r.id, r.rec)'
    BY <2>1, StillRecord
  <2> QED
    BY <2>1, <2>2 DEF Kept, TrueRecord, TrueReads
<1>2. ASSUME NEW x \in Browsers, NEW y \in unread[x] PROVE from'[y] \notin {x, None}
  BY <1>2 DEF Types, MarksTrue, Kept, Sent
<1>3. ASSUME NEW x \in Browsers, NEW y \in receipts[x] PROVE TrueReads(y, {x})'
  <2>1. y \in Msgs /\ {x} \in SUBSET Browsers /\ TrueReads(y, {x})
    BY <1>3 DEF Types, MarksTrue
  <2> QED
    BY <2>1, StillReads
<1> QED
  BY <1>1, <1>2, <1>3 DEF MarksTrue

LEMMA HadKept ==
    ASSUME Types, HadTrue, Kept, LinkFacts,
           \A p \in Pairs, m \in Msgs :
             \/ had'[p][m] \in {had[p][m], None}
             \/ TrueRecord(m, had[p][m])' /\ NoLess(p[1], m, had[p][m])'
    PROVE  HadTrue'
<1>1. ASSUME NEW p \in Pairs, NEW m \in Msgs, had'[p][m] = had[p][m], had[p][m] # None
      PROVE  TrueRecord(m, had[p][m])' /\ NoLess(p[1], m, had[p][m])'
  <2>1. PICK rec : rec = had[p][m]
    OBVIOUS
  <2>2. /\ rec \in Record /\ TrueRecord(m, rec) /\ NoLess(p[1], m, rec) /\ p[1] \in Browsers
    BY <1>1, <2>1 DEF LinkFacts, HadTrue, Pairs
  <2>3. TrueRecord(m, rec)' /\ NoLess(p[1], m, rec)'
    BY <2>2, StillRecord, StillNoLess
  <2> QED
    BY <1>1, <2>1, <2>3 DEF TrueRecord, TrueReads, ReadBy, Sent, Has, NoLess
<1> QED
  BY <1>1 DEF HadTrue

LEMMA MetaKept ==
    ASSUME Types, MetaTrue, Kept,
           \A x \in Browsers, m \in Files :
             \/ incoming'[x][m] = None \/ incoming'[x][m].meta = None
             \/ incoming[x][m] # None /\ incoming'[x][m].meta = incoming[x][m].meta
             \/ TrueReads(m, incoming[x][m].meta)'
    PROVE  MetaTrue'
<1>1. ASSUME NEW x \in Browsers, NEW m \in Files, incoming[x][m] # None,
             incoming'[x][m].meta = incoming[x][m].meta, incoming'[x][m].meta # None
      PROVE  TrueReads(m, incoming[x][m].meta)'
  <2>1. PICK reads : reads = incoming[x][m].meta
    OBVIOUS
  <2>2. m \in Msgs /\ reads \in SUBSET Browsers /\ TrueReads(m, reads)
    BY <1>1, <2>1 DEF Types, Incoming, MetaTrue, Msgs
  <2>3. TrueReads(m, reads)'
    BY <2>2, StillReads
  <2> QED
    BY <1>1, <2>1, <2>3 DEF TrueReads, ReadBy, Sent, Has
<1> QED
  BY <1>1 DEF MetaTrue

LEMMA CarriesFields ==
    ASSUME NEW x \in Body, Carries(x)
    PROVE  x.id \in Msgs /\ x.reads \in SUBSET Browsers
BY BodyFields DEF Carries, Msgs

LEMMA NetKept ==
    ASSUME Types, NetTrue, Kept,
           \A msg \in net' :
             msg \in net \/ (Carries(msg.body) => TrueReads(msg.body.id, msg.body.reads)')
    PROVE  NetTrue'
<1>1. ASSUME NEW msg \in net, Carries(msg.body)
      PROVE  TrueReads(msg.body.id, msg.body.reads)'
  <2>1. msg.body \in Body
    BY <1>1 DEF Types
  <2>2. msg.body.id \in Msgs /\ msg.body.reads \in SUBSET Browsers
    BY <1>1, <2>1, CarriesFields
  <2>3. TrueReads(msg.body.id, msg.body.reads)
    BY <1>1 DEF NetTrue
  <2> QED
    BY <2>2, <2>3, StillReads
<1> QED
  BY <1>1 DEF NetTrue

-----------------------------------------------------------------------------
(* Connections.                                                             *)

LEMMA MessagesAre ==
    ASSUME NEW b, NEW to, NEW body
    PROVE  /\ \A x \in Messages(b, to, body) : x.from = b /\ x.to \in to /\ x.body \in body
           /\ \A t \in to, y \in body :
                \E x \in Messages(b, to, body) : x.from = b /\ x.to = t /\ x.body = y
<1>1. \A x \in Messages(b, to, body) : x.from = b /\ x.to \in to /\ x.body \in body
  BY DEF Messages
<1>2. ASSUME NEW t \in to, NEW y \in body
      PROVE  \E x \in Messages(b, to, body) : x.from = b /\ x.to = t /\ x.body = y
  <2>1. [from |-> b, to |-> t, body |-> y] \in Messages(b, to, body)
    BY DEF Messages
  <2> QED
    BY <2>1
<1> QED
  BY <1>1, <1>2

(* A step that loses no connection; new messages go along connections.      *)
Linked(msg) ==
    /\ <<msg.from, msg.to>> \in linked
    /\ msg.body.type = "history-req" =>
         sync[<<msg.from, msg.to>>] # "none" /\ \A m \in msg.body.ids : Has(msg.from, m)
    /\ msg.body.type = "history-end" => sync[<<msg.to, msg.from>>] # "none"

LEMMA LinkKept ==
    ASSUME Inv, LinkFacts, Kept, had' \in [Pairs -> [Msgs -> Record \cup {None}]],
           linked \subseteq linked', \A x, y \in Browsers : <<x, y>> \in linked' => <<y, x>> \in linked',
           \A p \in Pairs : (sync[p] # "none" => sync'[p] # "none")
                            /\ (sync'[p] # "none" => p \in linked'),
           \A msg \in net' : msg \in net \/ Linked(msg)'
    PROVE  LinkFacts'
<1>1. ASSUME NEW msg \in net PROVE Linked(msg)'
  <2>1. /\ msg.from \in Browsers /\ msg.to \in Browsers /\ msg.body \in Body
        /\ <<msg.from, msg.to>> \in Pairs /\ <<msg.to, msg.from>> \in Pairs
        /\ <<msg.from, msg.to>> \in linked
    BY <1>1 DEF Inv, Types, LinkFacts
  <2>2. ASSUME msg.body.type = "history-req"
        PROVE  sync'[<<msg.from, msg.to>>] # "none" /\ \A m \in msg.body.ids : Has(msg.from, m)'
    <3>1. msg.body.ids \in SUBSET Msgs
      BY <2>1, <2>2, BodyFields
    <3>2. sync[<<msg.from, msg.to>>] # "none" /\ \A m \in msg.body.ids : Has(msg.from, m)
      BY <1>1, <2>2 DEF LinkFacts
    <3> QED
      BY <2>1, <3>1, <3>2 DEF Kept
  <2>3. msg.body.type = "history-end" => sync'[<<msg.to, msg.from>>] # "none"
    BY <1>1, <2>1 DEF LinkFacts
  <2> QED
    BY <2>1, <2>2, <2>3 DEF Linked
<1>2. ASSUME NEW msg \in net' PROVE Linked(msg)'
  BY <1>1, <1>2
<1> QED
  BY <1>2 DEF LinkFacts, Linked

(* A step that leaves the connections alone.                                *)
LEMMA LinkQuiet ==
    ASSUME Inv, LinkFacts, Kept, UNCHANGED <<linked, sync, had>>,
           \A msg \in net' : \/ msg \in net
                             \/ /\ <<msg.from, msg.to>> \in linked
                                /\ msg.body.type \notin {"history-req", "history-end"}
    PROVE  LinkFacts'
<1>1. \A msg \in net' : msg \in net \/ Linked(msg)'
  BY DEF Linked
<1> QED
  BY <1>1, LinkKept DEF LinkFacts

-----------------------------------------------------------------------------
(* What is under way or lost, at a step without a loss.                     *)

LEMMA WayOn ==
    ASSUME lost' = lost
    PROVE  Way \ Way' \subseteq net \ net' /\ net' \subseteq Way'
BY DEF Way

-----------------------------------------------------------------------------
(* Contents.                                                                *)

LEMMA ContentsKept ==
    ASSUME NEW b \in Browsers, NEW m \in Files, ContentsAt(b, m),
           Excused(b, m) => Excused(b, m)',
           \A c \in Browsers : Gathering(c, b, m) => Gathering(c, b, m)' \/ Excused(b, m)',
           Has(b, m)' \/ Doing(b, m)' =>
             \/ Has(b, m) \/ Doing(b, m) \/ Excused(b, m)'
             \/ \E c \in Browsers : \E msg \in net : Brings(msg, c, b, m),
           \A c \in Browsers :
             (\E msg \in net' : Brings(msg, c, b, m)) =>
               \/ \E msg \in net : Brings(msg, c, b, m)
               \/ Excused(b, m)' \/ Gathering(c, b, m)'
    PROVE  ContentsAt(b, m)'
BY Zenon DEF ContentsAt

LEMMA ExcusedKept ==
    ASSUME Kept, NEW b \in Browsers, NEW m \in Msgs, Excused(b, m),
           Doing(b, m) /\ task[b].rec.blob => Excused(b, m)'
    PROVE  Excused(b, m)'
<1>1. CASE HasBlob(b, m)
  <2>1. Has(b, m)
    BY <1>1 DEF HasBlob
  <2>2. HasBlob(b, m)' \/ <<b, m>> \in raced'
    BY <1>1, <2>1 DEF Kept
  <2> QED
    BY <2>2 DEF Excused
<1>2. CASE <<b, m>> \in cut \cup raced
  <2>1. <<b, m>> \in cut' \cup raced'
    BY <1>2 DEF Kept
  <2> QED
    BY <2>1 DEF Excused
<1> QED
  BY <1>1, <1>2 DEF Excused

LEMMA GatheringKept ==
    ASSUME NEW c \in Browsers, NEW b \in Browsers, NEW m \in Files, Gathering(c, b, m),
           HasMeta(b, m) => HasMeta(b, m)',
           \A i \in Chunks : HasPart(b, m, i) => HasPart(b, m, i)',
           \A msg \in Way : IsMeta(msg, c, b, m) => msg \in Way' \/ HasMeta(b, m)',
           \A msg \in Way, i \in Chunks : IsPart(msg, c, b, m, i) => msg \in Way' \/ HasPart(b, m, i)'
    PROVE  Gathering(c, b, m)'
<1>1. MetaComes(c, b, m)'
  BY DEF Gathering, MetaComes, IsMeta
<1>2. ASSUME NEW i \in Chunks PROVE PartComes(c, b, m, i)'
  BY DEF Gathering, PartComes, IsPart
<1> QED
  BY <1>1, <1>2 DEF Gathering

(* A step at which b neither takes nor gets parts of the file.              *)
LEMMA ContentsQuiet ==
    ASSUME Kept, NEW b \in Browsers, NEW m \in Files, ContentsAt(b, m),
           Doing(b, m) => Excused(b, m)' \/ ~task[b].rec.blob,
           Has(b, m)' \/ Doing(b, m)' =>
             \/ Has(b, m) \/ Doing(b, m)
             \/ \E c \in Browsers : \E msg \in net : Brings(msg, c, b, m),
           incoming'[b][m] = incoming[b][m],
           \A msg \in Way \ Way' :
             ~(msg.to = b /\ msg.body.type \in {"file-meta", "file-chunk"} /\ msg.body.id = m),
           \A msg \in net' \ net :
             ~(msg.to = b /\ msg.body.type \in {"msg", "file-meta"} /\ msg.body.id = m)
    PROVE  ContentsAt(b, m)'
<1>1. m \in Msgs
  BY DEF Msgs
<1>2. Excused(b, m) => Excused(b, m)'
  BY <1>1, ExcusedKept
<1>3. ASSUME NEW c \in Browsers, Gathering(c, b, m) PROVE Gathering(c, b, m)'
  <2>1. /\ HasMeta(b, m) => HasMeta(b, m)'
        /\ \A i \in Chunks : HasPart(b, m, i) => HasPart(b, m, i)'
    BY DEF HasMeta, HasPart
  <2>2. /\ \A msg \in Way : IsMeta(msg, c, b, m) => msg \in Way'
        /\ \A msg \in Way, i \in Chunks : IsPart(msg, c, b, m, i) => msg \in Way'
    BY DEF IsMeta, IsPart
  <2> QED
    BY <1>3, <2>1, <2>2, GatheringKept
<1>4. ASSUME NEW c \in Browsers, NEW msg \in net', Brings(msg, c, b, m) PROVE msg \in net
  BY <1>4 DEF Brings
<1> QED
  BY <1>2, <1>3, <1>4, ContentsKept

(* The files of a browser whose entries and task are left alone.            *)
LEMMA FinishingKept ==
    ASSUME Finishing,
           \A x \in Browsers, m \in Files :
             Complete(incoming'[x][m]) =>
               \/ task'[x] # None /\ task'[x].id = m /\ task'[x].finish
               \/ /\ incoming'[x][m] = incoming[x][m]
                  /\ task[x] # None =>
                       task'[x] # None /\ task'[x].id = task[x].id /\ task'[x].finish = task[x].finish
    PROVE  Finishing'
BY DEF Finishing, Doing, Complete

-----------------------------------------------------------------------------
(* What one browser has to tell another.                                    *)

(* What b knows, or will know of a's messages, survives the step.           *)
Survives(a, b) ==
    /\ \A m \in Msgs : Coming(a, b, m) => Coming(a, b, m)'
    /\ \A m \in Msgs, x \in Browsers : Carried(a, b, m, x) => Carried(a, b, m, x)'

(* Those messages that the step takes are known to b afterwards.            *)
Taken(a, b, m) ==
    \A msg \in Way \ Way' :
      /\ Brings(msg, a, b, m) => Has(b, m)' \/ Doing(b, m)'
      /\ \A x \in Browsers : Tells(msg, a, b, m, x) =>
           \/ Has(b, m)' /\ x \in db'[b][m].reads
           \/ Doing(b, m)' /\ x \in task'[b].rec.reads

LEMMA SurvivesLemma ==
    ASSUME Kept, NEW a \in Browsers, NEW b \in Browsers, \A m \in Msgs : Taken(a, b, m),
           \A m \in Msgs : Doing(b, m) =>
             \/ Doing(b, m)' /\ task'[b].rec = task[b].rec
             \/ Has(b, m)' /\ db'[b][m] = task[b].rec
    PROVE  Survives(a, b)
<1>1. ASSUME NEW m \in Msgs, Coming(a, b, m) PROVE Coming(a, b, m)'
  <2>1. Has(b, m) => Has(b, m)'
    BY DEF Kept
  <2>2. Doing(b, m) => Has(b, m)' \/ Doing(b, m)'
    OBVIOUS
  <2>3. ASSUME NEW msg \in Way, Brings(msg, a, b, m)
        PROVE  Has(b, m)' \/ Doing(b, m)' \/ \E y \in Way' : Brings(y, a, b, m)
    BY <2>3 DEF Taken
  <2> QED
    BY <1>1, <2>1, <2>2, <2>3 DEF Coming, Brings
<1>2. ASSUME NEW m \in Msgs, NEW x \in Browsers, Carried(a, b, m, x)
      PROVE  Carried(a, b, m, x)'
  <2>1. ASSUME Has(b, m), x \in db[b][m].reads
        PROVE  (Has(b, m)' /\ x \in db'[b][m].reads) \/ <<b, m>> \in raced'
    BY <2>1 DEF Kept
  <2>2. ASSUME Doing(b, m), x \in task[b].rec.reads
        PROVE  \/ Doing(b, m)' /\ x \in task'[b].rec.reads
               \/ Has(b, m)' /\ x \in db'[b][m].reads
    BY <2>2
  <2>3. <<b, m>> \in raced => <<b, m>> \in raced'
    BY DEF Kept
  <2>4. ASSUME NEW msg \in Way, Tells(msg, a, b, m, x)
        PROVE  \/ Doing(b, m)' /\ x \in task'[b].rec.reads
               \/ Has(b, m)' /\ x \in db'[b][m].reads
               \/ \E y \in Way' : Tells(y, a, b, m, x)'
    <3>1. CASE msg \in Way'
      <4>1. Has(b, m) => Has(b, m)'
        BY DEF Kept
      <4>2. Tells(msg, a, b, m, x)'
        BY <2>4, <4>1 DEF Tells
      <4> QED
        BY <3>1, <4>2
    <3>2. CASE msg \notin Way'
      BY <2>4, <3>2 DEF Taken
    <3> QED
      BY <3>1, <3>2
  <2>5. (\E y \in Way' : Tells(y, a, b, m, x)') => (\E y \in Way : Tells(y, a, b, m, x))'
    BY DEF Tells
  <2> QED
    BY <1>2, <2>1, <2>2, <2>3, <2>4, <2>5 DEF Carried
<1> QED
  BY <1>1, <1>2 DEF Survives

Answered(a, b) ==
    /\ \A m \in Msgs : Offers(a, b, m)' => Coming(a, b, m)'
    /\ \A m \in Msgs, x \in Browsers :
         (<<a, m>> \notin raced' /\ HadThen(a, b, m, x)') => Carried(a, b, m, x)'

LEMMA ToldKept ==
    ASSUME Kept, NEW a \in Browsers, NEW b \in Browsers, ToldAt(a, b), Survives(a, b),
           Asked(b, a)' => Asked(b, a) \/ Requested(b, a)',
           Requested(b, a) => Requested(b, a)' \/ Answered(a, b),
           <<a, b>> \in linked' => <<a, b>> \in linked,
           had'[<<a, b>>] = had[<<a, b>>],
           \A m \in Msgs : Asked(b, a) /\ Offers(a, b, m)' => Offers(a, b, m) \/ Coming(a, b, m)',
           \A m \in Msgs : Offers(b, a, m)' /\ HasRead(a, m)' =>
             \/ Offers(b, a, m) /\ HasRead(a, m)
             \/ m \in receipts'[a] \/ <<a, m>> \in raced',
           <<a, b>> \in linked => \A m \in Msgs : m \in receipts[a] /\ Offers(b, a, m) =>
             m \in receipts'[a] \/ Carried(a, b, m, a)'
    PROVE  ToldAt(a, b)'
<1>1. PresenceAt(a, b)'
  <2> SUFFICES ASSUME Asked(b, a)', NEW m \in Msgs, Offers(a, b, m)'
               PROVE  Coming(a, b, m)' \/ Requested(b, a)'
    BY DEF PresenceAt
  <2> QED
    BY DEF ToldAt, PresenceAt, Survives, Answered
<1>2. OldReceiptsAt(a, b)'
  <2> SUFFICES ASSUME Asked(b, a)', NEW m \in Msgs, NEW x \in Browsers, <<a, m>> \notin raced',
                      HadThen(a, b, m, x)'
               PROVE  Carried(a, b, m, x)' \/ Requested(b, a)'
    BY DEF OldReceiptsAt
  <2>1. <<a, m>> \notin raced /\ HadThen(a, b, m, x)
    BY DEF Kept, HadThen
  <2> QED
    BY <2>1 DEF ToldAt, OldReceiptsAt, Survives, Answered
<1>3. OwnReceiptsAt(a, b)'
  <2> SUFFICES ASSUME <<a, b>> \in linked', NEW m \in Msgs, <<a, m>> \notin raced',
                      Offers(b, a, m)', HasRead(a, m)'
               PROVE  m \in receipts'[a] \/ Carried(a, b, m, a)' \/ HadThen(a, b, m, a)'
    BY DEF OwnReceiptsAt
  <2>1. <<a, m>> \notin raced
    BY DEF Kept
  <2>2. HadThen(a, b, m, a) => HadThen(a, b, m, a)'
    BY DEF HadThen
  <2>3. CASE Offers(b, a, m) /\ HasRead(a, m)
    BY <2>1, <2>2, <2>3 DEF ToldAt, OwnReceiptsAt, Survives
  <2> QED
    BY <2>3
<1> QED
  BY <1>1, <1>2, <1>3 DEF ToldAt

-----------------------------------------------------------------------------
(* The steps.                                                               *)

LEMMA BodyIs ==
    ASSUME NEW m, NEW reads
    PROVE  /\ RecordOf(m, reads).type = "msg" /\ RecordOf(m, reads).id = m
           /\ RecordOf(m, reads).reads = reads
           /\ ReadsOf(m, reads).type = "reads" /\ ReadsOf(m, reads).id = m
           /\ ReadsOf(m, reads).reads = reads
BY DEF RecordOf, ReadsOf

LEMMA FileOfIs ==
    ASSUME NEW m, NEW reads
    PROVE  /\ \A x \in FileOf(m, reads) :
                x.id = m /\ x.type \in {"file-meta", "file-chunk"} /\ (Carries(x) => x.reads = reads)
           /\ \E x \in FileOf(m, reads) : x.type = "file-meta"
           /\ \A i \in Chunks : \E x \in FileOf(m, reads) : x.type = "file-chunk" /\ x.i = i
<1> DEFINE meta == [type |-> "file-meta", id |-> m, reads |-> reads]
           chunk(i) == [type |-> "file-chunk", id |-> m, i |-> i]
<1>1. FileOf(m, reads) = {meta} \cup {chunk(i) : i \in Chunks}
  BY DEF FileOf
<1>2. meta.type = "file-meta" /\ meta.id = m /\ meta.reads = reads
  OBVIOUS
<1>3. \A i \in Chunks :
        chunk(i).type = "file-chunk" /\ chunk(i).id = m /\ chunk(i).i = i /\ ~Carries(chunk(i))
  BY DEF Carries
<1> HIDE DEF meta, chunk
<1> QED
  BY <1>1, <1>2, <1>3

LEMMA SendFull ==
    ASSUME FullInv, NEW b \in Browsers, NEW m \in Msgs, Send(b, m)
    PROVE  FullInv'
<1> DEFINE rec == [reads |-> {}, blob |-> m \in Files]
           body == IF m \in Files THEN FileOf(m, {}) ELSE {RecordOf(m, {})}
<1>1. /\ from[m] = None /\ from' = [from EXCEPT ![m] = b] /\ Put(b, m, rec)
      /\ net' = net \cup Messages(b, Peers(b), body)
      /\ UNCHANGED <<incoming, task, unread, marking, receipts, linked, sync, lost,
                     had, drops, cut>>
  BY DEF Send, pageVars, linkVars
<1>way. Way \ Way' \subseteq net \ net' /\ net' \subseteq Way'
  BY <1>1, WayOn
<1>2. Inv /\ Types /\ SentFirst /\ LinkFacts /\ TrueFacts /\ Contents /\ Finishing /\ Told
  BY DEF FullInv, Inv
<1>3. rec \in Record /\ rec.reads = {} /\ rec.blob = (m \in Files) /\ rec # None
  <2>1. rec \in Record
    BY DEF Record
  <2>2. rec.reads = {} /\ rec.blob = (m \in Files)
    OBVIOUS
  <2> QED
    BY <2>1, <2>2, NoneAssumption
<1>4. /\ \A x \in body : x.id = m /\ x.type \in {"msg", "file-meta", "file-chunk"}
      /\ \A x \in body : Carries(x) => x.reads = {}
      /\ \E x \in body : x.type \in {"msg", "file-meta"}
      /\ m \in Files =>
           /\ \E x \in body : x.type = "file-meta"
           /\ \A i \in Chunks : \E x \in body : x.type = "file-chunk" /\ x.i = i
  <2>1. CASE m \in Files
    BY <2>1, FileOfIs
  <2>2. CASE m \notin Files
    BY <2>2, BodyIs
  <2> QED
    BY <2>1, <2>2
<1> HIDE DEF rec, body
<1>5. /\ db'[b][m] = rec
      /\ \A x \in Browsers, y \in Msgs : (x # b \/ y # m) => db'[x][y] = db[x][y]
  BY <1>1, <1>2, <1>3, PutLemma
<1>6. /\ from'[m] = b /\ b # None /\ \A y \in Msgs : y # m => from'[y] = from[y]
      /\ ~Sent(m)
  BY <1>1, <1>2, NamesAssumption DEF Types, Sent
<1>7. Kept
  <2>1. \A y \in Msgs : Sent(y) => from'[y] = from[y]
    BY <1>6
  <2> QED
    BY <1>1, <1>2, <1>3, <2>1, PutKeeps
<1>8. \A x \in Browsers : ~Has(x, m) /\ (x # b => ~Has(x, m)')
  BY <1>2, <1>5, <1>6 DEF SentFirst, Has
<1>9. \A x \in Browsers : ~Doing(x, m)
  BY <1>2, <1>6 DEF SentFirst, Doing
<1>10. ASSUME NEW msg \in net' \ net
       PROVE  /\ msg.from = b /\ msg.to \in Peers(b) /\ <<msg.from, msg.to>> \in linked
              /\ msg.body.id = m /\ msg.body.type \in {"msg", "file-meta", "file-chunk"}
              /\ Carries(msg.body) => msg.body.reads = {}
  <2>1. msg.from = b /\ msg.to \in Peers(b) /\ msg.body \in body
    BY <1>1, <1>10, MessagesAre
  <2> QED
    BY <1>4, <2>1 DEF Peers
<1>11. ASSUME NEW x \in Peers(b), NEW y \in body
       PROVE  \E msg \in net' : msg.from = b /\ msg.to = x /\ msg.body = y
  BY <1>1, <1>11, MessagesAre
<1>12. \A msg \in net : ~(msg.body.type \in {"msg", "file-meta", "file-chunk"} /\ msg.body.id = m)
  BY <1>2, <1>6 DEF SentFirst, Mentions
<1>13. Inv'
  BY <1>2, SendInv
<1>14. LinkFacts'
  <2>1. \A msg \in net' : \/ msg \in net
                          \/ /\ <<msg.from, msg.to>> \in linked
                             /\ msg.body.type \notin {"history-req", "history-end"}
    BY <1>10
  <2> QED
    BY <1>1, <1>2, <1>7, <2>1, LinkQuiet
<1>15. TrueFacts'
  <2>1. StoredTrue'
    <3>1. ASSUME NEW y \in Msgs, Sent(y)' PROVE Sent(y) \/ AuthorHas(from[y], y)'
      BY <1>3, <1>5, <1>6, <3>1 DEF Sent, AuthorHas, Has, HasBlob
    <3>2. TrueRecord(m, db[b][m])'
      BY <1>3, <1>5, <1>6 DEF TrueRecord, TrueReads, Sent
    <3> QED
      BY <1>2, <1>5, <1>7, <3>1, <3>2, StoredKept DEF TrueFacts
  <2>2. TasksTrue' /\ HadTrue' /\ MetaTrue' /\ MarksTrue'
    BY <1>1, <1>2, <1>7, TasksKept, HadKept, MetaKept, MarksKept DEF TrueFacts
  <2>3. NetTrue'
    <3>1. ASSUME NEW msg \in net' \ net, Carries(msg.body)
          PROVE  TrueReads(msg.body.id, msg.body.reads)'
      BY <1>6, <1>10, <3>1 DEF TrueReads, Sent
    <3> QED
      BY <1>2, <1>7, <3>1, NetKept DEF TrueFacts
  <2> QED
    BY <2>1, <2>2, <2>3 DEF TrueFacts
<1>16. Contents'
  <2> SUFFICES ASSUME NEW x \in Browsers, NEW y \in Files PROVE ContentsAt(x, y)'
    BY DEF Contents
  <2>1. CASE x = b /\ y = m
    <3>1. Excused(b, m)'
      BY <1>3, <1>5, <2>1 DEF Excused, HasBlob, Has
    <3> QED
      BY <2>1, <3>1 DEF ContentsAt
  <2>2. CASE x # b /\ y = m
    <3>1. ~Has(x, m)' /\ ~Doing(x, m)'
      BY <1>1, <1>8, <1>9, <2>2 DEF Doing
    <3>2. ASSUME NEW c \in Browsers, NEW msg \in net', Brings(msg, c, x, m)
          PROVE  Gathering(c, x, m)'
      <4>1. msg \notin net
        BY <1>12, <3>2 DEF Brings
      <4>2. c = b /\ x \in Peers(b)
        BY <1>10, <3>2, <4>1 DEF Brings
      <4>3. MetaComes(c, x, m)'
        <5>1. PICK z \in body : z.type = "file-meta"
          BY <1>4, <2>2
        <5>2. PICK n \in Way' : n.from = b /\ n.to = x /\ n.body = z
          BY <1>11, <1>way, <4>2
        <5>3. IsMeta(n, c, x, m)
          BY <1>4, <4>2, <5>1, <5>2 DEF IsMeta
        <5> QED
          BY <5>2, <5>3 DEF MetaComes, IsMeta
      <4>4. ASSUME NEW i \in Chunks PROVE PartComes(c, x, m, i)'
        <5>1. PICK z \in body : z.type = "file-chunk" /\ z.i = i
          BY <1>4, <2>2
        <5>2. PICK n \in Way' : n.from = b /\ n.to = x /\ n.body = z
          BY <1>11, <1>way, <4>2
        <5>3. IsPart(n, c, x, m, i)
          BY <1>4, <4>2, <5>1, <5>2 DEF IsPart
        <5> QED
          BY <5>2, <5>3 DEF PartComes, IsPart
      <4> QED
        BY <4>3, <4>4 DEF Gathering
    <3> QED
      BY <2>2, <3>1, <3>2 DEF ContentsAt, Brings
  <2>3. CASE y # m
    <3>1. y \in Msgs /\ ContentsAt(x, y)
      BY <1>2 DEF Msgs, Contents
    <3>2. db'[x][y] = db[x][y] /\ task' = task /\ incoming' = incoming
      BY <1>1, <1>5, <2>3, <3>1
    <3>3. Doing(x, y) => Excused(x, y)' \/ ~task[x].rec.blob
      BY <3>2 DEF Doing, Excused
    <3>4. Has(x, y)' \/ Doing(x, y)' => Has(x, y) \/ Doing(x, y)
      BY <3>2 DEF Doing, Has
    <3>5. /\ Way \subseteq Way'
          /\ \A msg \in net' \ net : ~(msg.body.id = y)
      BY <1>1, <1>10, <1>way, <2>3
    <3> QED
      BY <1>7, <3>1, <3>2, <3>3, <3>4, <3>5, ContentsQuiet
  <2> QED
    BY <2>1, <2>2, <2>3
<1>17. Finishing'
  BY <1>1, <1>2, FinishingKept
<1>18. Told'
  <2> SUFFICES ASSUME NEW x \in Browsers, NEW y \in Browsers, x # y PROVE ToldAt(x, y)'
    BY DEF Told
  <2>1. ToldAt(x, y)
    BY <1>2 DEF Told
  <2>2. Survives(x, y)
    <3>1. \A k \in Msgs : Taken(x, y, k)
      BY <1>1, <1>way DEF Taken
    <3>2. \A k \in Msgs : Doing(y, k) => Doing(y, k)' /\ task'[y].rec = task[y].rec
      BY <1>1 DEF Doing
    <3> QED
      BY <1>7, <3>1, <3>2, SurvivesLemma
  <2>3. Requested(y, x) => Requested(y, x)'
    BY <1>1 DEF Requested
  <2>4. ASSUME NEW k \in Msgs, Asked(y, x), Offers(x, y, k)'
        PROVE  Offers(x, y, k) \/ Coming(x, y, k)'
    <3>1. CASE k = m /\ x = b
      <4>1. <<y, x>> \in Pairs /\ <<y, x>> \in linked /\ <<x, y>> \in linked
        BY <1>2, <2>4 DEF Asked, LinkFacts, Pairs
      <4>2. y \in Peers(b)
        BY <3>1, <4>1 DEF Peers
      <4>3. PICK z \in body : z.type \in {"msg", "file-meta"}
        BY <1>4
      <4>4. PICK n \in Way' : n.from = b /\ n.to = y /\ n.body = z
        BY <1>11, <1>way, <4>2
      <4>5. Brings(n, x, y, k)
        BY <1>4, <3>1, <4>3, <4>4 DEF Brings
      <4> QED
        BY <4>4, <4>5 DEF Coming, Brings
    <3>2. CASE ~(k = m /\ x = b)
      BY <1>1, <1>6, <2>4, <3>2 DEF Offers
    <3> QED
      BY <3>1, <3>2
  <2>5. ASSUME NEW k \in Msgs, Offers(y, x, k)', HasRead(x, k)'
        PROVE  Offers(y, x, k) /\ HasRead(x, k)
    <3>1. k # m
      BY <1>3, <1>5, <1>8, <2>5 DEF HasRead
    <3> QED
      BY <1>1, <1>5, <1>6, <2>5, <3>1 DEF HasRead, Has, Offers
  <2> QED
    BY <1>1, <1>7, <2>1, <2>2, <2>3, <2>4, <2>5, ToldKept DEF Asked
<1> QED
  BY <1>13, <1>14, <1>15, <1>16, <1>17, <1>18 DEF FullInv

(* A step that leaves the records, the files under way and the tasks alone. *)
LEMMA ContentsSame ==
    ASSUME Kept, Contents, UNCHANGED <<db, incoming, task>>,
           \A msg \in Way \ Way' : msg.body.type \notin {"file-meta", "file-chunk"},
           \A msg \in net' \ net : msg.body.type \notin {"msg", "file-meta"}
    PROVE  Contents'
<1> SUFFICES ASSUME NEW x \in Browsers, NEW y \in Files PROVE ContentsAt(x, y)'
  BY DEF Contents
<1>1. ContentsAt(x, y)
  BY DEF Contents
<1>2. Doing(x, y) => Excused(x, y)' \/ ~task[x].rec.blob
  BY DEF Doing, Excused
<1>3. Has(x, y)' \/ Doing(x, y)' => Has(x, y) \/ Doing(x, y)
  BY DEF Doing, Has
<1> QED
  BY <1>1, <1>2, <1>3, ContentsQuiet

LEMMA ToldSame ==
    ASSUME Kept, NEW a \in Browsers, NEW b \in Browsers, a # b, ToldAt(a, b),
           UNCHANGED <<from, db>>, task'[b] = task[b],
           had'[<<a, b>>] = had[<<a, b>>], had'[<<b, a>>] = had[<<b, a>>],
           \A msg \in Way \ Way' : ~(msg.from = a /\ msg.to = b /\ Carries(msg.body)),
           Asked(b, a)' => Asked(b, a) \/ Requested(b, a)',
           Requested(b, a) => Requested(b, a)' \/ Answered(a, b),
           <<a, b>> \in linked' => <<a, b>> \in linked,
           <<a, b>> \in linked => \A m \in Msgs : m \in receipts[a] /\ Offers(b, a, m) =>
             m \in receipts'[a] \/ Carried(a, b, m, a)'
    PROVE  ToldAt(a, b)'
<1>1. Survives(a, b)
  <2>1. \A m \in Msgs : Taken(a, b, m)
    BY DEF Taken, Carries, Brings, Tells
  <2>2. \A m \in Msgs : Doing(b, m) => Doing(b, m)' /\ task'[b].rec = task[b].rec
    BY DEF Doing
  <2> QED
    BY <2>1, <2>2, SurvivesLemma
<1>2. \A m \in Msgs : Offers(a, b, m)' => Offers(a, b, m)
  BY DEF Offers
<1>3. \A m \in Msgs : Offers(b, a, m)' /\ HasRead(a, m)' => Offers(b, a, m) /\ HasRead(a, m)
  BY DEF Offers, HasRead, Has
<1> QED
  BY <1>1, <1>2, <1>3, ToldKept

LEMMA BeginReadFull ==
    ASSUME FullInv, NEW b \in Browsers, NEW m \in Msgs, BeginRead(b, m)
    PROVE  FullInv'
<1>1. /\ m \in unread[b] /\ unread' = [unread EXCEPT ![b] = @ \ {m}]
      /\ marking' = [marking EXCEPT ![b] =
                       IF Has(b, m) THEN @ \cup {[id |-> m, rec |-> db[b][m]]} ELSE @]
      /\ UNCHANGED <<from, db, incoming, task, receipts, linked, sync, lost, had,
                     drops, net, raced, cut>>
  BY DEF BeginRead, linkVars
<1>way. Way \ Way' \subseteq net \ net' /\ net' \subseteq Way'
  BY <1>1, WayOn
<1>2. Inv /\ Types /\ LinkFacts /\ TrueFacts /\ Contents /\ Finishing /\ Told
  BY DEF FullInv, Inv
<1>3. Kept
  BY <1>1, SameKeeps
<1>4. Inv'
  BY <1>2, BeginReadInv
<1>5. LinkFacts'
  BY <1>1, <1>2, <1>3, LinkQuiet
<1>6. TrueFacts'
  <2>1. StoredTrue' /\ TasksTrue' /\ HadTrue' /\ MetaTrue' /\ NetTrue'
    BY <1>1, <1>2, <1>3, StoredKept, TasksKept, HadKept, MetaKept, NetKept DEF TrueFacts, Sent
  <2>2. ASSUME NEW x \in Browsers, NEW r \in marking'[x], r \notin marking[x]
        PROVE  Has(x, r.id)' /\ TrueRecord(r.id, r.rec)' /\ from'[r.id] # x
    <3>1. x = b /\ Has(b, m) /\ r.id = m /\ r.rec = db[b][m]
      BY <1>1, <1>2, <2>2 DEF Types
    <3>2. TrueRecord(r.id, r.rec) /\ from[m] # b
      BY <1>1, <1>2, <3>1 DEF TrueFacts, StoredTrue, MarksTrue
    <3> QED
      BY <1>1, <3>1, <3>2 DEF Has, TrueRecord, TrueReads, ReadBy, Sent
  <2>3. MarksTrue'
    <3>1. \A x \in Browsers : unread'[x] \subseteq unread[x]
      BY <1>1, <1>2 DEF Types
    <3> QED
      BY <1>1, <1>2, <1>3, <2>2, <3>1, MarksKept DEF TrueFacts
  <2> QED
    BY <2>1, <2>3 DEF TrueFacts
<1>7. Contents'
  BY <1>1, <1>2, <1>3, <1>way, ContentsSame
<1>8. Finishing'
  BY <1>1, <1>2, FinishingKept
<1>9. Told'
  BY <1>1, <1>2, <1>3, <1>way, ToldSame DEF Told, Asked, Requested
<1> QED
  BY <1>4, <1>5, <1>6, <1>7, <1>8, <1>9 DEF FullInv

LEMMA EndReadFull ==
    ASSUME FullInv, NEW b \in Browsers, NEW r \in marking[b], EndRead(b, r)
    PROVE  FullInv'
<1> DEFINE m == r.id
           rec == [r.rec EXCEPT !.reads = @ \cup {b}]
<1>1. /\ Put(b, m, rec) /\ marking' = [marking EXCEPT ![b] = @ \ {r}]
      /\ receipts' = [receipts EXCEPT ![b] = @ \cup {m}]
      /\ task' = [task EXCEPT ![b] = IF @ # None /\ @.id = r.id
                                     THEN [@ EXCEPT !.stale = TRUE] ELSE @]
      /\ UNCHANGED <<from, incoming, unread, linked, sync, lost, had, drops, net, cut>>
  BY DEF EndRead, linkVars
<1>way. Way \ Way' \subseteq net \ net' /\ net' \subseteq Way'
  BY <1>1, WayOn
<1>2. Inv /\ Types /\ LinkFacts /\ TrueFacts /\ Contents /\ Finishing /\ Told
  BY DEF FullInv, Inv
<1>3. /\ m \in Msgs /\ rec \in Record /\ rec # None
      /\ rec.reads = r.rec.reads \cup {b} /\ rec.blob = r.rec.blob /\ r.rec.reads \in SUBSET Browsers
  <2>1. r \in [id : Msgs, rec : Record]
    BY <1>2 DEF Types
  <2>2. r.rec \in [reads : SUBSET Browsers, blob : BOOLEAN] /\ m \in Msgs
    BY <2>1 DEF Record
  <2>3. rec \in Record
    BY <2>2 DEF Record
  <2> QED
    BY <2>2, <2>3, NoneAssumption
<1>4. Has(b, m) /\ TrueRecord(m, r.rec) /\ from[m] # b
  BY <1>2 DEF TrueFacts, MarksTrue
<1> HIDE DEF rec, m
<1>5. /\ db'[b][m] = rec
      /\ \A x \in Browsers, y \in Msgs : (x # b \/ y # m) => db'[x][y] = db[x][y]
  BY <1>1, <1>2, <1>3, PutLemma
<1>6. Kept
  BY <1>1, <1>2, <1>3, PutKeeps
<1>7. \A x \in Browsers :
        \/ task'[x] = task[x]
        \/ /\ task[x] # None /\ task'[x] # None
           /\ task'[x].id = task[x].id /\ task'[x].rec = task[x].rec
           /\ task'[x].finish = task[x].finish
  <2>1. task'[b] = IF task[b] # None /\ task[b].id = m
                   THEN [task[b] EXCEPT !.stale = TRUE] ELSE task[b]
    BY <1>1, <1>2 DEF Types, m
  <2>2. \A x \in Browsers \ {b} : task'[x] = task[x]
    BY <1>1, <1>2 DEF Types
  <2>3. ASSUME NEW t \in Task
        PROVE  /\ [t EXCEPT !.stale = TRUE] \in Task
               /\ [t EXCEPT !.stale = TRUE].id = t.id /\ [t EXCEPT !.stale = TRUE].rec = t.rec
               /\ [t EXCEPT !.stale = TRUE].finish = t.finish
    BY DEF Task
  <2>4. task[b] # None => task[b] \in Task
    BY <1>2 DEF Types
  <2>5. None \notin Task
    BY NoneAssumption
  <2>6. CASE task[b] # None /\ task[b].id = m
    <3>1. PICK t \in Task : t = task[b]
      BY <2>4, <2>6
    <3>2. PICK u : u = [t EXCEPT !.stale = TRUE]
      OBVIOUS
    <3>3. u \in Task /\ u.id = t.id /\ u.rec = t.rec /\ u.finish = t.finish
      BY <2>3, <3>2
    <3>4. task'[b] = u /\ u # None
      BY <2>1, <2>5, <2>6, <3>1, <3>2, <3>3
    <3> QED
      BY <2>2, <2>6, <3>1, <3>3, <3>4
  <2>7. CASE ~(task[b] # None /\ task[b].id = m)
    <3>1. task'[b] = task[b]
      BY <2>1, <2>7
    <3> QED
      BY <2>2, <3>1
  <2> QED
    BY <2>6, <2>7
<1>8. \A x \in Browsers, y \in Msgs :
        /\ Doing(x, y) => Doing(x, y)' /\ task'[x].rec = task[x].rec
        /\ Doing(x, y)' => Doing(x, y)
  BY <1>7 DEF Doing
<1>9. \A x \in Browsers, y \in Msgs : Has(x, y)' => Has(x, y)
  BY <1>4, <1>5 DEF Has
<1>10. Inv'
  BY <1>2, EndReadInv
<1>11. LinkFacts'
  BY <1>1, <1>2, <1>6, LinkQuiet
<1>12. TrueReads(m, {b})'
  BY <1>1, <1>3, <1>4, <1>5 DEF TrueReads, ReadBy, Has, TrueRecord, Sent
<1>13. TrueFacts'
  <2>1. TrueRecord(m, rec)'
    <3>1. r.rec \in Record
      BY <1>2 DEF Types
    <3>2. TrueRecord(m, r.rec)'
      BY <1>2, <1>3, <1>4, <1>6, <3>1, StillRecord
    <3> QED
      BY <1>3, <1>12, <3>2 DEF TrueRecord, TrueReads
  <2>2. StoredTrue'
    <3>1. TrueRecord(m, db[b][m])'
      BY <1>5, <2>1 DEF TrueRecord, TrueReads, ReadBy, Sent, Has
    <3>2. \A y \in Msgs : Sent(y)' => Sent(y)
      BY <1>1 DEF Sent
    <3> QED
      BY <1>2, <1>5, <1>6, <3>1, <3>2, StoredKept DEF TrueFacts
  <2>3. TasksTrue'
    BY <1>2, <1>6, <1>7, TasksKept DEF TrueFacts
  <2>4. HadTrue' /\ MetaTrue' /\ NetTrue'
    BY <1>1, <1>2, <1>6, HadKept, MetaKept, NetKept DEF TrueFacts
  <2>5. MarksTrue'
    <3>1. \A x \in Browsers : marking'[x] \subseteq marking[x]
      BY <1>1, <1>2 DEF Types
    <3>2. \A x \in Browsers : \A y \in receipts'[x] : y \in receipts[x] \/ (x = b /\ y = m)
      BY <1>1, <1>2 DEF Types
    <3> QED
      BY <1>1, <1>2, <1>6, <1>12, <3>1, <3>2, MarksKept DEF TrueFacts
  <2> QED
    BY <2>2, <2>3, <2>4, <2>5 DEF TrueFacts
<1>14. Contents'
  <2> SUFFICES ASSUME NEW x \in Browsers, NEW y \in Files PROVE ContentsAt(x, y)'
    BY DEF Contents
  <2>1. y \in Msgs /\ ContentsAt(x, y)
    BY <1>2 DEF Msgs, Contents
  <2>2. Doing(x, y) => Excused(x, y)' \/ ~task[x].rec.blob
    BY <1>8, <2>1 DEF Excused
  <2>3. Has(x, y)' \/ Doing(x, y)' => Has(x, y) \/ Doing(x, y)
    BY <1>8, <1>9, <2>1
  <2> QED
    BY <1>1, <1>6, <1>way, <2>1, <2>2, <2>3, ContentsQuiet
<1>15. Finishing'
  BY <1>1, <1>2, <1>7, FinishingKept
<1>16. Told'
  <2> SUFFICES ASSUME NEW x \in Browsers, NEW y \in Browsers, x # y PROVE ToldAt(x, y)'
    BY DEF Told
  <2>1. ToldAt(x, y)
    BY <1>2 DEF Told
  <2>2. Survives(x, y)
    <3>1. \A k \in Msgs : Taken(x, y, k)
      BY <1>1, <1>way DEF Taken
    <3> QED
      BY <1>6, <1>8, <3>1, SurvivesLemma
  <2>3. \A k \in Msgs : Offers(x, y, k)' => Offers(x, y, k)
    BY <1>1 DEF Offers
  <2>4. ASSUME NEW k \in Msgs, Offers(y, x, k)', HasRead(x, k)'
        PROVE  (Offers(y, x, k) /\ HasRead(x, k)) \/ k \in receipts'[x]
    <3>1. CASE x = b /\ k = m
      BY <1>1, <1>2, <3>1 DEF Types
    <3>2. CASE ~(x = b /\ k = m)
      BY <1>1, <1>5, <2>4, <3>2 DEF HasRead, Has, Offers
    <3> QED
      BY <3>1, <3>2
  <2>5. receipts[x] \subseteq receipts'[x]
    BY <1>1, <1>2 DEF Types
  <2> QED
    BY <1>1, <1>6, <2>1, <2>2, <2>3, <2>4, <2>5, ToldKept DEF Asked, Requested
<1> QED
  BY <1>10, <1>11, <1>13, <1>14, <1>15, <1>16 DEF FullInv

LEMMA OfferedHas ==
    ASSUME TrueFacts, NEW a \in Browsers, NEW b \in Browsers, a # b, NEW m \in Msgs,
           Offers(a, b, m)
    PROVE  Has(a, m)
<1>1. CASE from[m] = a
  BY <1>1, NamesAssumption DEF TrueFacts, StoredTrue, AuthorHas, Sent
<1>2. CASE had[<<a, b>>][m] # None
  <2>1. <<a, b>> \in Pairs /\ <<a, b>>[1] = a
    BY DEF Pairs
  <2>2. NoLess(<<a, b>>[1], m, had[<<a, b>>][m])
    BY <1>2, <2>1 DEF TrueFacts, HadTrue
  <2> QED
    BY <2>1, <2>2 DEF NoLess
<1> QED
  BY <1>1, <1>2 DEF Offers

LEMMA FlushReadsFull ==
    ASSUME FullInv, NEW b \in Browsers, FlushReads(b)
    PROVE  FullInv'
<1> DEFINE body == {ReadsOf(m, {b}) : m \in receipts[b]}
<1>1. /\ receipts' = [receipts EXCEPT ![b] = {}]
      /\ net' = net \cup Messages(b, Peers(b), body)
      /\ UNCHANGED <<from, db, incoming, task, unread, marking, linked, sync, lost,
                     had, drops, raced, cut>>
  BY DEF FlushReads, linkVars
<1>way. Way \ Way' \subseteq net \ net' /\ net' \subseteq Way'
  BY <1>1, WayOn
<1>2. Inv /\ Types /\ LinkFacts /\ TrueFacts /\ Contents /\ Finishing /\ Told
  BY DEF FullInv, Inv
<1>3. /\ \A x \in body : x.type = "reads" /\ x.id \in receipts[b] /\ x.reads = {b}
      /\ \A m \in receipts[b] : \E x \in body : x.type = "reads" /\ x.id = m /\ x.reads = {b}
  BY BodyIs
<1> HIDE DEF body
<1>4. ASSUME NEW msg \in net' \ net
      PROVE  /\ <<msg.from, msg.to>> \in linked /\ msg.body.type = "reads"
             /\ msg.body.id \in receipts[b] /\ msg.body.reads = {b}
  <2>1. msg.from = b /\ msg.to \in Peers(b) /\ msg.body \in body
    BY <1>1, <1>4, MessagesAre
  <2> QED
    BY <1>3, <2>1 DEF Peers
<1>5. Kept
  BY <1>1, SameKeeps
<1>6. Inv'
  BY <1>2, FlushReadsInv
<1>7. LinkFacts'
  BY <1>1, <1>2, <1>4, <1>5, LinkQuiet
<1>8. TrueFacts'
  <2>1. StoredTrue' /\ TasksTrue' /\ HadTrue' /\ MetaTrue'
    BY <1>1, <1>2, <1>5, StoredKept, TasksKept, HadKept, MetaKept DEF TrueFacts, Sent
  <2>2. MarksTrue'
    <3>1. \A x \in Browsers : receipts'[x] \subseteq receipts[x]
      BY <1>1, <1>2 DEF Types
    <3> QED
      BY <1>1, <1>2, <1>5, <3>1, MarksKept DEF TrueFacts
  <2>3. NetTrue'
    <3>1. ASSUME NEW msg \in net' \ net PROVE TrueReads(msg.body.id, msg.body.reads)'
      <4>1. TrueReads(msg.body.id, {b}) /\ msg.body.id \in Msgs /\ {b} \in SUBSET Browsers
        BY <1>2, <1>4 DEF TrueFacts, MarksTrue, Types
      <4>2. TrueReads(msg.body.id, {b})'
        BY <1>2, <1>5, <4>1, StillReads
      <4> QED
        BY <1>4, <4>2
    <3> QED
      BY <1>2, <1>5, <3>1, NetKept DEF TrueFacts
  <2> QED
    BY <2>1, <2>2, <2>3 DEF TrueFacts
<1>9. Contents'
  BY <1>1, <1>2, <1>4, <1>5, <1>way, ContentsSame
<1>10. Finishing'
  BY <1>1, <1>2, FinishingKept
<1>11. Told'
  <2> SUFFICES ASSUME NEW x \in Browsers, NEW y \in Browsers, x # y PROVE ToldAt(x, y)'
    BY DEF Told
  <2>1. ToldAt(x, y)
    BY <1>2 DEF Told
  <2>2. ASSUME <<x, y>> \in linked, NEW m \in Msgs, m \in receipts[x], Offers(y, x, m)
        PROVE  m \in receipts'[x] \/ Carried(x, y, m, x)'
    <3>1. CASE x # b
      BY <1>1, <1>2, <2>2, <3>1 DEF Types
    <3>2. CASE x = b
      <4>1. PICK z \in body : z.type = "reads" /\ z.id = m /\ z.reads = {b}
        BY <1>3, <2>2, <3>2
      <4>2. y \in Peers(b)
        BY <2>2, <3>2 DEF Peers
      <4>3. PICK n \in net' : n.from = b /\ n.to = y /\ n.body = z
        BY <1>1, <4>1, <4>2, MessagesAre
      <4>4. Has(y, m)'
        BY <1>1, <1>2, <2>2, OfferedHas DEF Has
      <4>5. Tells(n, x, y, m, x)'
        BY <3>2, <4>1, <4>3, <4>4 DEF Tells
      <4> QED
        BY <1>way, <4>3, <4>5 DEF Carried, Tells
    <3> QED
      BY <3>1, <3>2
  <2> QED
    BY <1>1, <1>5, <1>way, <2>1, <2>2, ToldSame DEF Asked, Requested
<1> QED
  BY <1>6, <1>7, <1>8, <1>9, <1>10, <1>11 DEF FullInv

(* A step that only moves messages and connections.                         *)
LEMMA TrueNet ==
    ASSUME Types, LinkFacts, TrueFacts, Kept,
           UNCHANGED <<from, db, incoming, task, unread, marking, receipts, raced>>,
           HadTrue', NetTrue'
    PROVE  TrueFacts'
<1>1. StoredTrue' /\ TasksTrue' /\ MetaTrue' /\ MarksTrue'
  BY StoredKept, TasksKept, MetaKept, MarksKept DEF TrueFacts, Sent
<1> QED
  BY <1>1 DEF TrueFacts

LEMMA AskFull ==
    ASSUME FullInv, NEW a \in Browsers, NEW b \in Browsers, Ask(a, b)
    PROVE  FullInv'
<1> DEFINE req == [type |-> "history-req", ids |-> {m \in Msgs : Has(a, m)}]
<1>1. /\ <<a, b>> \in linked /\ sync' = [sync EXCEPT ![<<a, b>>] = "asked"]
      /\ net' = net \cup Messages(a, {b}, {req})
      /\ UNCHANGED <<from, db, incoming, task, unread, marking, receipts, linked, lost,
                     had, drops, raced, cut>>
  BY DEF Ask, pageVars
<1>way. Way \ Way' \subseteq net \ net' /\ net' \subseteq Way'
  BY <1>1, WayOn
<1>2. Inv /\ Types /\ LinkFacts /\ TrueFacts /\ Contents /\ Finishing /\ Told
  BY DEF FullInv, Inv
<1>3. req.type = "history-req" /\ \A m \in req.ids : Has(a, m)
  OBVIOUS
<1> HIDE DEF req
<1>4. /\ <<a, b>> \in Pairs /\ sync'[<<a, b>>] = "asked"
      /\ \A p \in Pairs : p # <<a, b>> => sync'[p] = sync[p]
  BY <1>1, <1>2 DEF Types
<1>5. ASSUME NEW msg \in net' \ net PROVE msg.from = a /\ msg.to = b /\ msg.body = req
  BY <1>1, <1>5, MessagesAre
<1>6. \E msg \in net' : msg.from = a /\ msg.to = b /\ msg.body = req
  BY <1>1, MessagesAre
<1>7. Kept
  BY <1>1, SameKeeps
<1>8. Inv'
  BY <1>2, AskInv
<1>9. LinkFacts'
  <2>1. ASSUME NEW msg \in net' \ net PROVE Linked(msg)'
    BY <1>1, <1>3, <1>4, <1>5, <2>1 DEF Linked, Has
  <2>2. \A p \in Pairs : (sync[p] # "none" => sync'[p] # "none")
                         /\ (sync'[p] # "none" => p \in linked')
    BY <1>1, <1>2, <1>4 DEF LinkFacts
  <2> QED
    BY <1>1, <1>2, <1>7, <2>1, <2>2, LinkKept DEF LinkFacts
<1>10. TrueFacts'
  <2>1. HadTrue' /\ NetTrue'
    BY <1>1, <1>2, <1>3, <1>5, <1>7, HadKept, NetKept DEF TrueFacts, Carries
  <2> QED
    BY <1>1, <1>2, <1>7, <2>1, TrueNet
<1>11. Contents'
  BY <1>1, <1>2, <1>3, <1>5, <1>7, <1>way, ContentsSame
<1>12. Finishing'
  BY <1>1, <1>2, FinishingKept
<1>13. Told'
  <2> SUFFICES ASSUME NEW x \in Browsers, NEW y \in Browsers, x # y PROVE ToldAt(x, y)'
    BY DEF Told
  <2>1. ToldAt(x, y)
    BY <1>2 DEF Told
  <2>2. Asked(y, x)' => Asked(y, x) \/ Requested(y, x)'
    <3>1. <<y, x>> \in Pairs
      BY DEF Pairs
    <3> QED
      BY <1>3, <1>4, <1>6, <3>1 DEF Asked, Requested
  <2>3. Requested(y, x) => Requested(y, x)'
    BY <1>1 DEF Requested
  <2> QED
    BY <1>1, <1>7, <1>way, <2>1, <2>2, <2>3, ToldSame
<1> QED
  BY <1>8, <1>9, <1>10, <1>11, <1>12, <1>13 DEF FullInv

LEMMA OnHistoryEndFull ==
    ASSUME FullInv, NEW a \in Browsers, NEW msg \in net, OnHistoryEnd(a, msg)
    PROVE  FullInv'
<1>1. /\ msg.to = a /\ msg.body.type = "history-end" /\ net' = net \ {msg}
      /\ sync' = [sync EXCEPT ![<<a, msg.from>>] = "done"]
      /\ UNCHANGED <<from, db, incoming, task, unread, marking, receipts, linked, lost,
                     had, drops, raced, cut>>
  BY DEF OnHistoryEnd, Receives, pageVars
<1>way. Way \ Way' \subseteq net \ net' /\ net' \subseteq Way'
  BY <1>1, WayOn
<1>2. Inv /\ Types /\ LinkFacts /\ TrueFacts /\ Contents /\ Finishing /\ Told
  BY DEF FullInv, Inv
<1>3. \A p \in Pairs : sync'[p] # "none" <=> sync[p] # "none"
  BY <1>1, <1>2 DEF Types, LinkFacts
<1>4. Kept
  BY <1>1, SameKeeps
<1>5. Inv'
  BY <1>2, OnHistoryEndInv
<1>6. LinkFacts'
  BY <1>1, <1>2, <1>3, <1>4, LinkKept DEF LinkFacts
<1>7. TrueFacts'
  <2>1. HadTrue' /\ NetTrue'
    BY <1>1, <1>2, <1>4, HadKept, NetKept DEF TrueFacts
  <2> QED
    BY <1>1, <1>2, <1>4, <2>1, TrueNet
<1>8. Contents'
  BY <1>1, <1>2, <1>4, <1>way, ContentsSame
<1>9. Finishing'
  BY <1>1, <1>2, FinishingKept
<1>10. Told'
  <2> SUFFICES ASSUME NEW x \in Browsers, NEW y \in Browsers, x # y PROVE ToldAt(x, y)'
    BY DEF Told
  <2>1. ToldAt(x, y) /\ <<y, x>> \in Pairs
    BY <1>2 DEF Told, Pairs
  <2>2. Asked(y, x)' => Asked(y, x)
    BY <1>3, <2>1 DEF Asked
  <2>3. Requested(y, x) => Requested(y, x)'
    BY <1>1 DEF Requested
  <2>4. ~Carries(msg.body)
    BY <1>1 DEF Carries
  <2> QED
    BY <1>1, <1>4, <1>way, <2>1, <2>2, <2>3, <2>4, ToldSame
<1> QED
  BY <1>5, <1>6, <1>7, <1>8, <1>9, <1>10 DEF FullInv

AnswerBody(b, ids) ==
    {RecordOf(m, db[b][m].reads) : m \in Missing(b, ids)}
      \cup {ReadsOf(m, db[b][m].reads) : m \in KnownReads(b, ids)}
      \cup (UNION {FileOf(m, db[b][m].reads) : m \in FilesToSend(b, ids)})
      \cup {[type |-> "history-end"]}

LEMMA ReplyIs ==
    ASSUME NEW b, NEW req
    PROVE  Reply(b, req) = Messages(b, {req.from}, AnswerBody(b, req.body.ids))
BY DEF Reply, AnswerBody

LEMMA AnswerIs ==
    ASSUME NEW b, NEW ids, NEW body, body = AnswerBody(b, ids)
    PROVE  /\ \A z \in body :
                /\ z.type # "history-req"
                /\ Carries(z) => /\ z.id \in Missing(b, ids) \cup KnownReads(b, ids)
                                 /\ z.reads = db[b][z.id].reads
                /\ z.type \in {"msg", "file-meta"} => z.id \in Missing(b, ids)
           /\ \A m \in Missing(b, ids) :
                \E z \in body : z.type = "msg" /\ z.id = m /\ z.reads = db[b][m].reads
           /\ \A m \in KnownReads(b, ids) :
                \E z \in body : z.type = "reads" /\ z.id = m /\ z.reads = db[b][m].reads
           /\ \A m \in FilesToSend(b, ids) :
                /\ \E z \in body : z.type = "file-meta" /\ z.id = m
                /\ \A i \in Chunks : \E z \in body : z.type = "file-chunk" /\ z.id = m /\ z.i = i
<1> DEFINE records == {RecordOf(m, db[b][m].reads) : m \in Missing(b, ids)}
           known == {ReadsOf(m, db[b][m].reads) : m \in KnownReads(b, ids)}
           files == UNION {FileOf(m, db[b][m].reads) : m \in FilesToSend(b, ids)}
           end == [type |-> "history-end"]
<1>1. body = records \cup known \cup files \cup {end}
  BY DEF AnswerBody
<1>2. \A z \in records : z.type = "msg" /\ z.id \in Missing(b, ids) /\ z.reads = db[b][z.id].reads
  BY BodyIs
<1>3. \A z \in known : z.type = "reads" /\ z.id \in KnownReads(b, ids) /\ z.reads = db[b][z.id].reads
  BY BodyIs
<1>4. ASSUME NEW z \in files
      PROVE  /\ z.type \in {"file-meta", "file-chunk"} /\ z.id \in Missing(b, ids)
             /\ Carries(z) => z.reads = db[b][z.id].reads
  <2>1. PICK m \in FilesToSend(b, ids) : z \in FileOf(m, db[b][m].reads)
    BY <1>4
  <2>2. m \in Missing(b, ids)
    BY DEF FilesToSend
  <2> QED
    BY <2>1, <2>2, FileOfIs
<1>5. end.type = "history-end" /\ ~Carries(end)
  BY DEF Carries
<1>6. ASSUME NEW m \in Missing(b, ids)
      PROVE  \E z \in records : z.type = "msg" /\ z.id = m /\ z.reads = db[b][m].reads
  <2>1. RecordOf(m, db[b][m].reads) \in records
    OBVIOUS
  <2> HIDE DEF records
  <2> QED
    BY <2>1, BodyIs
<1>7. ASSUME NEW m \in KnownReads(b, ids)
      PROVE  \E z \in known : z.type = "reads" /\ z.id = m /\ z.reads = db[b][m].reads
  <2>1. ReadsOf(m, db[b][m].reads) \in known
    OBVIOUS
  <2> HIDE DEF known
  <2> QED
    BY <2>1, BodyIs
<1>8. ASSUME NEW m \in FilesToSend(b, ids)
      PROVE  /\ \E z \in files : z.type = "file-meta" /\ z.id = m
             /\ \A i \in Chunks : \E z \in files : z.type = "file-chunk" /\ z.id = m /\ z.i = i
  <2>1. FileOf(m, db[b][m].reads) \subseteq files
    OBVIOUS
  <2> HIDE DEF files
  <2> QED
    BY <2>1, FileOfIs
<1> HIDE DEF records, known, files, end
<1> QED
  BY <1>1, <1>2, <1>3, <1>4, <1>5, <1>6, <1>7, <1>8

(* An answer that is sent, though it be lost, tells all there is to tell.   *)
LEMMA AnswersAll ==
    ASSUME TrueFacts, NEW b \in Browsers, NEW r \in Browsers, r # b,
           NEW ids \in SUBSET Msgs, \A m \in ids : Has(r, m),
           NEW body, body = AnswerBody(b, ids), UNCHANGED <<from, db, had, raced>>,
           \A z \in body : \E msg \in Way' : msg.from = b /\ msg.to = r /\ msg.body = z
    PROVE  Answered(b, r)
<1>1. ASSUME NEW m \in Msgs, Offers(b, r, m)'
      PROVE  Coming(b, r, m)'
  <2>1. Has(b, m)
    BY <1>1, OfferedHas DEF Offers
  <2>2. CASE m \in ids
    BY <2>2 DEF Coming, Has
  <2>3. CASE m \notin ids
    <3>1. m \in Missing(b, ids)
      BY <2>1, <2>3 DEF Missing
    <3>2. PICK z \in body : z.type = "msg" /\ z.id = m
      BY <3>1, AnswerIs
    <3>3. PICK n \in Way' : n.from = b /\ n.to = r /\ n.body = z
      OBVIOUS
    <3> QED
      BY <3>2, <3>3 DEF Coming, Brings
  <2> QED
    BY <2>2, <2>3
<1>2. ASSUME NEW m \in Msgs, NEW x \in Browsers, <<b, m>> \notin raced', HadThen(b, r, m, x)'
      PROVE  Carried(b, r, m, x)'
  <2>1. had[<<b, r>>][m] # None /\ x \in had[<<b, r>>][m].reads /\ <<b, m>> \notin raced
    BY <1>2 DEF HadThen
  <2>2. <<b, r>> \in Pairs /\ <<b, r>>[1] = b
    BY DEF Pairs
  <2>3. NoLess(<<b, r>>[1], m, had[<<b, r>>][m])
    BY <2>1, <2>2 DEF TrueFacts, HadTrue
  <2>4. Has(b, m) /\ x \in db[b][m].reads
    BY <2>1, <2>2, <2>3 DEF NoLess
  <2>5. CASE m \in ids
    <3>1. m \in KnownReads(b, ids) /\ Has(r, m)'
      BY <2>4, <2>5 DEF KnownReads, Has
    <3>2. PICK z \in body : z.type = "reads" /\ z.id = m /\ z.reads = db[b][m].reads
      BY <3>1, AnswerIs
    <3>3. PICK n \in Way' : n.from = b /\ n.to = r /\ n.body = z
      OBVIOUS
    <3>4. Tells(n, b, r, m, x)'
      BY <2>4, <3>1, <3>2, <3>3 DEF Tells
    <3> QED
      BY <3>3, <3>4 DEF Carried, Tells
  <2>6. CASE m \notin ids
    <3>1. m \in Missing(b, ids)
      BY <2>4, <2>6 DEF Missing
    <3>2. PICK z \in body : z.type = "msg" /\ z.id = m /\ z.reads = db[b][m].reads
      BY <3>1, AnswerIs
    <3>3. PICK n \in Way' : n.from = b /\ n.to = r /\ n.body = z
      OBVIOUS
    <3>4. Tells(n, b, r, m, x)'
      BY <2>4, <3>2, <3>3 DEF Tells
    <3> QED
      BY <3>3, <3>4 DEF Carried, Tells
  <2> QED
    BY <2>5, <2>6
<1> QED
  BY <1>1, <1>2 DEF Answered

LEMMA AnswerFull ==
    ASSUME FullInv, NEW b \in Browsers, NEW req \in net, Answer(b, req)
    PROVE  FullInv'
<1>1. PICK r, ids : r = req.from /\ ids = req.body.ids
  OBVIOUS
<1>2. PICK body : body = AnswerBody(b, ids)
  OBVIOUS
<1>3. /\ req.to = b /\ req.body.type = "history-req"
      /\ net' = (net \ {req}) \cup Messages(b, {r}, body)
      /\ cut' = cut \cup {<<r, m>> : m \in Bare(b, ids)}
      /\ UNCHANGED <<from, db, incoming, task, unread, marking, receipts, linked, sync,
                     lost, had, drops, raced>>
  BY <1>1, <1>2, ReplyIs DEF Answer, pageVars, linkVars
<1>way. Way \ Way' \subseteq net \ net' /\ net' \subseteq Way'
  BY <1>3, WayOn
<1>4. Inv /\ Types /\ LinkFacts /\ TrueFacts /\ Contents /\ Finishing /\ Told
  BY DEF FullInv, Inv
<1>5. /\ r \in Browsers /\ r # b /\ <<r, b>> \in linked /\ <<b, r>> \in linked
      /\ sync[<<r, b>>] # "none" /\ ids \in SUBSET Msgs /\ \A m \in ids : Has(r, m)
  <2>1. /\ r \in Browsers /\ req.body \in Body /\ <<r, b>> \in linked
        /\ sync[<<r, b>>] # "none" /\ \A m \in ids : Has(r, m)
    BY <1>1, <1>3, <1>4 DEF Types, LinkFacts
  <2>2. ids \in SUBSET Msgs
    BY <1>1, <1>3, <2>1, BodyFields
  <2>3. <<r, b>> \in Pairs
    BY <1>4, <2>1 DEF Types
  <2> QED
    BY <1>4, <2>1, <2>2, <2>3 DEF LinkFacts, Pairs
<1>6. /\ Missing(b, ids) \subseteq Msgs /\ KnownReads(b, ids) \subseteq Msgs
      /\ \A m \in Missing(b, ids) \cup KnownReads(b, ids) : Has(b, m)
  BY <1>5 DEF Missing, KnownReads
<1>7. /\ \A msg \in net' \ net : msg.from = b /\ msg.to = r /\ msg.body \in body
      /\ \A z \in body : \E msg \in net' : msg.from = b /\ msg.to = r /\ msg.body = z
      /\ \A msg \in net \ net' : msg = req
  BY <1>3, MessagesAre
<1>8. Kept
  BY <1>3, SameKeeps
<1>9. Inv'
  BY <1>4, AnswerInv
<1>10. LinkFacts'
  <2>1. ASSUME NEW msg \in net' \ net PROVE Linked(msg)'
    <3>1. msg.from = b /\ msg.to = r /\ msg.body.type # "history-req"
      BY <1>2, <1>7, <2>1, AnswerIs
    <3> QED
      BY <1>3, <1>5, <3>1 DEF Linked
  <2> QED
    BY <1>3, <1>4, <1>8, <2>1, LinkKept DEF LinkFacts
<1>11. TrueFacts'
  <2>1. HadTrue'
    BY <1>3, <1>4, <1>8, HadKept DEF TrueFacts
  <2>2. ASSUME NEW msg \in net' \ net, Carries(msg.body)
        PROVE  TrueReads(msg.body.id, msg.body.reads)'
    <3>1. PICK m : m = msg.body.id
      OBVIOUS
    <3>2. m \in Missing(b, ids) \cup KnownReads(b, ids) /\ msg.body.reads = db[b][m].reads
      BY <1>2, <1>7, <2>2, <3>1, AnswerIs
    <3>3. m \in Msgs /\ Has(b, m)
      BY <1>6, <3>2
    <3>4. db[b][m] \in Record /\ TrueRecord(m, db[b][m])
      BY <1>4, <3>3 DEF TrueFacts, StoredTrue, Types, Has
    <3>5. db[b][m].reads \in SUBSET Browsers /\ TrueReads(m, db[b][m].reads)
      BY <3>4 DEF TrueRecord, Record
    <3>6. TrueReads(m, msg.body.reads)'
      BY <1>4, <1>8, <3>2, <3>3, <3>5, StillReads
    <3> QED
      BY <3>1, <3>6
  <2>3. NetTrue'
    BY <1>4, <1>8, <2>2, NetKept DEF TrueFacts
  <2> QED
    BY <1>3, <1>4, <1>8, <2>1, <2>3, TrueNet
<1>12. Contents'
  <2> SUFFICES ASSUME NEW x \in Browsers, NEW y \in Files PROVE ContentsAt(x, y)'
    BY DEF Contents
  <2>1. y \in Msgs /\ ContentsAt(x, y)
    BY <1>4 DEF Contents, Msgs
  <2>2. Excused(x, y) => Excused(x, y)'
    BY <1>3 DEF Excused, HasBlob, Has, Doing
  <2>3. ASSUME NEW c \in Browsers, Gathering(c, x, y) PROVE Gathering(c, x, y)'
    <3>1. /\ HasMeta(x, y) => HasMeta(x, y)'
          /\ \A i \in Chunks : HasPart(x, y, i) => HasPart(x, y, i)'
      BY <1>3 DEF HasMeta, HasPart
    <3>2. /\ \A msg \in Way : IsMeta(msg, c, x, y) => msg \in Way'
          /\ \A msg \in Way, i \in Chunks : IsPart(msg, c, x, y, i) => msg \in Way'
      BY <1>3, <1>7, <1>way DEF IsMeta, IsPart
    <3> QED
      BY <2>3, <3>1, <3>2, GatheringKept
  <2>4. Has(x, y)' \/ Doing(x, y)' => Has(x, y) \/ Doing(x, y)
    BY <1>3 DEF Has, Doing
  <2>5. ASSUME NEW c \in Browsers, NEW msg \in net' \ net, Brings(msg, c, x, y)
        PROVE  Excused(x, y)' \/ Gathering(c, x, y)'
    <3>1. c = b /\ x = r /\ y \in Missing(b, ids)
      BY <1>2, <1>7, <2>5, AnswerIs DEF Brings
    <3>2. CASE HasBlob(b, y)
      <4>1. y \in FilesToSend(b, ids)
        BY <3>1, <3>2 DEF FilesToSend
      <4>2. /\ \E z \in body : z.type = "file-meta" /\ z.id = y
            /\ \A i \in Chunks : \E z \in body : z.type = "file-chunk" /\ z.id = y /\ z.i = i
        BY <1>2, <4>1, AnswerIs
      <4>3. \E n \in Way' : IsMeta(n, c, x, y)
        BY <1>7, <1>way, <3>1, <4>2 DEF IsMeta
      <4>4. \A i \in Chunks : \E n \in Way' : IsPart(n, c, x, y, i)
        BY <1>7, <1>way, <3>1, <4>2 DEF IsPart
      <4> QED
        BY <4>3, <4>4 DEF Gathering, MetaComes, PartComes, IsMeta, IsPart
    <3>3. CASE ~HasBlob(b, y)
      <4>1. <<x, y>> \in cut'
        BY <1>3, <3>1, <3>3 DEF Bare
      <4> QED
        BY <4>1 DEF Excused
    <3> QED
      BY <3>2, <3>3
  <2>6. \A c \in Browsers :
          (\E msg \in net' : Brings(msg, c, x, y)) =>
            \/ \E msg \in net : Brings(msg, c, x, y)
            \/ Excused(x, y)' \/ Gathering(c, x, y)'
    BY <2>5
  <2> QED
    BY <2>1, <2>2, <2>3, <2>4, <2>6, ContentsKept
<1>13. Finishing'
  BY <1>3, <1>4, FinishingKept
<1>14. Answered(b, r)
  <2>1. \A z \in body : \E msg \in Way' : msg.from = b /\ msg.to = r /\ msg.body = z
    BY <1>7, <1>way
  <2> QED
    BY <1>2, <1>3, <1>4, <1>5, <2>1, AnswersAll
<1>15. Told'
  <2> SUFFICES ASSUME NEW x \in Browsers, NEW y \in Browsers, x # y PROVE ToldAt(x, y)'
    BY DEF Told
  <2>1. ToldAt(x, y)
    BY <1>4 DEF Told
  <2>2. Requested(y, x) => Requested(y, x)' \/ Answered(x, y)
    BY <1>1, <1>3, <1>7, <1>14 DEF Requested
  <2>3. \A msg \in Way \ Way' : ~Carries(msg.body)
    BY <1>3, <1>7, <1>way DEF Carries
  <2> QED
    BY <1>3, <1>8, <2>1, <2>2, <2>3, ToldSame DEF Asked
<1> QED
  BY <1>9, <1>10, <1>11, <1>12, <1>13, <1>15 DEF FullInv

LEMMA LinkFull ==
    ASSUME FullInv, NEW a \in Browsers, NEW b \in Browsers, Link(a, b)
    PROVE  FullInv'
<1>1. /\ a # b /\ <<a, b>> \notin linked
      /\ linked' = linked \cup {<<a, b>>, <<b, a>>}
      /\ had' = [had EXCEPT ![<<a, b>>] = db[a], ![<<b, a>>] = db[b]]
      /\ UNCHANGED <<from, db, incoming, task, unread, marking, receipts, sync, net,
                     lost, raced, cut, drops>>
  BY DEF Link, pageVars
<1>way. Way \ Way' \subseteq net \ net' /\ net' \subseteq Way'
  BY <1>1, WayOn
<1>2. Inv /\ Types /\ LinkFacts /\ TrueFacts /\ Contents /\ Finishing /\ Told
  BY DEF FullInv, Inv
<1>3. <<a, b>> \in Pairs /\ <<b, a>> \in Pairs /\ <<b, a>> \notin linked /\ <<a, b>> # <<b, a>>
  BY <1>1, <1>2 DEF LinkFacts, Pairs
<1>4. /\ had' \in [Pairs -> [Msgs -> Record \cup {None}]]
      /\ had'[<<a, b>>] = db[a] /\ had'[<<b, a>>] = db[b]
      /\ \A p \in Pairs : p \notin {<<a, b>>, <<b, a>>} => had'[p] = had[p]
  <2>1. db[a] \in [Msgs -> Record \cup {None}] /\ db[b] \in [Msgs -> Record \cup {None}]
    BY <1>2 DEF Types
  <2> QED
    BY <1>1, <1>2, <1>3, <2>1 DEF LinkFacts
<1>5. Kept
  BY <1>1, SameKeeps
<1>6. Inv'
  BY <1>2, LinkInv
<1>7. LinkFacts'
  <2>1. \A x, y \in Browsers : <<x, y>> \in linked' => <<y, x>> \in linked'
    BY <1>1, <1>2 DEF LinkFacts
  <2> QED
    BY <1>1, <1>2, <1>4, <1>5, <2>1, LinkKept DEF LinkFacts
<1>8. TrueFacts'
  <2>1. ASSUME NEW p \in Pairs, NEW m \in Msgs
        PROVE  \/ had'[p][m] \in {had[p][m], None}
               \/ TrueRecord(m, had[p][m])' /\ NoLess(p[1], m, had[p][m])'
    <3>1. PICK rec : rec = had'[p][m]
      OBVIOUS
    <3>2. CASE p \in {<<a, b>>, <<b, a>>} /\ rec # None
      <4>1. p[1] \in Browsers /\ rec = db[p[1]][m]
        BY <1>4, <3>1, <3>2
      <4>2. Has(p[1], m) /\ TrueRecord(m, rec) /\ NoLess(p[1], m, rec)
        BY <1>2, <3>2, <4>1 DEF TrueFacts, StoredTrue, Has, NoLess
      <4>3. TrueRecord(m, had[p][m])' /\ NoLess(p[1], m, had[p][m])'
        BY <1>1, <3>1, <4>2 DEF TrueRecord, TrueReads, ReadBy, Sent, Has, NoLess
      <4> QED
        BY <4>3
    <3>3. CASE p \notin {<<a, b>>, <<b, a>>} \/ rec = None
      BY <1>4, <3>1, <3>3
    <3> QED
      BY <3>2, <3>3
  <2>2. HadTrue'
    BY <1>2, <1>5, <2>1, HadKept DEF TrueFacts
  <2>3. NetTrue'
    BY <1>1, <1>2, <1>5, NetKept DEF TrueFacts
  <2> QED
    BY <1>1, <1>2, <1>5, <2>2, <2>3, TrueNet
<1>9. Contents'
  BY <1>1, <1>2, <1>5, <1>way, ContentsSame
<1>10. Finishing'
  BY <1>1, <1>2, FinishingKept
<1>11. Told'
  <2> SUFFICES ASSUME NEW x \in Browsers, NEW y \in Browsers, x # y PROVE ToldAt(x, y)'
    BY DEF Told
  <2>1. ToldAt(x, y) /\ <<x, y>> \in Pairs /\ <<y, x>> \in Pairs
    BY <1>2 DEF Told, Pairs
  <2>2. CASE <<x, y>> \in {<<a, b>>, <<b, a>>}
    <3>1. ~Asked(y, x)'
      BY <1>1, <1>2, <1>3, <2>1, <2>2 DEF Asked, LinkFacts
    <3>2. had'[<<x, y>>] = db'[x]
      BY <1>1, <1>4, <2>2
    <3>3. \A m \in Msgs : HasRead(x, m)' => HadThen(x, y, m, x)'
      BY <3>2 DEF HasRead, Has, HadThen
    <3> QED
      BY <3>1, <3>3 DEF ToldAt, PresenceAt, OldReceiptsAt, OwnReceiptsAt
  <2>3. CASE <<x, y>> \notin {<<a, b>>, <<b, a>>}
    <3>1. /\ had'[<<x, y>>] = had[<<x, y>>] /\ had'[<<y, x>>] = had[<<y, x>>]
          /\ <<x, y>> \in linked' => <<x, y>> \in linked
      BY <1>1, <1>4, <2>1, <2>3
    <3> QED
      BY <1>1, <1>5, <1>way, <2>1, <3>1, ToldSame DEF Asked, Requested
  <2> QED
    BY <2>2, <2>3
<1> QED
  BY <1>6, <1>7, <1>8, <1>9, <1>10, <1>11 DEF FullInv

-----------------------------------------------------------------------------
(* Connections that are lost.                                               *)

LEMMA Lost ==
    ASSUME FullInv, NEW pairs \in SUBSET Pairs, LosePairs(pairs), UNCHANGED <<from, db,
                                                                              raced>>,
           \A x, y \in Browsers : <<x, y>> \in pairs => <<y, x>> \in pairs
    PROVE  /\ Kept /\ LinkFacts' /\ HadTrue' /\ NetTrue'
           /\ linked' = linked \ pairs /\ net' \subseteq net
           /\ \A msg \in net \ net' : <<msg.from, msg.to>> \in pairs
           /\ \A msg \in Way \ Way' : <<msg.from, msg.to>> \in pairs
           /\ \A msg \in net' : <<msg.from, msg.to>> \notin pairs
           /\ \A p \in Pairs : p \in pairs => sync'[p] = "none"
           /\ \A p \in Pairs : p \notin pairs => sync'[p] = sync[p] /\ had'[p] = had[p]
           /\ \A x \in Browsers, m \in Files :
                ((\E p \in pairs : x \in {p[1], p[2]}) /\ Partial(x, m)) => <<x, m>> \in cut'
<1>1. /\ linked' = linked \ pairs
      /\ sync' = [p \in Pairs |-> IF p \in pairs THEN "none" ELSE sync[p]]
      /\ had' = [p \in Pairs |-> IF p \in pairs THEN [m \in Msgs |-> None] ELSE had[p]]
      /\ net' = {msg \in net : <<msg.from, msg.to>> \notin pairs}
      /\ lost' = {msg \in lost : <<msg.from, msg.to>> \notin pairs}
      /\ cut' = cut \cup {f \in Browsers \X Files :
                            (\E p \in pairs : f[1] \in {p[1], p[2]}) /\ Partial(f[1], f[2])}
  BY DEF LosePairs
<1>2. Inv /\ Types /\ LinkFacts /\ TrueFacts
  BY DEF FullInv, Inv
<1>3. Kept
  BY <1>1, SameKeeps
<1>4. /\ \A p \in Pairs : p \in pairs => sync'[p] = "none" /\ \A m \in Msgs : had'[p][m] = None
      /\ \A p \in Pairs : p \notin pairs => sync'[p] = sync[p] /\ had'[p] = had[p]
  BY <1>1
<1>5. LinkFacts'
  <2>1. had' \in [Pairs -> [Msgs -> Record \cup {None}]]
    BY <1>1, <1>2 DEF LinkFacts
  <2>2. \A x, y \in Browsers : <<x, y>> \in linked' => <<y, x>> \in linked'
    BY <1>1, <1>2 DEF LinkFacts
  <2>3. \A p \in Pairs : sync'[p] # "none" => p \in linked'
    BY <1>1, <1>2, <1>4 DEF LinkFacts
  <2>4. ASSUME NEW msg \in net'
        PROVE  /\ <<msg.from, msg.to>> \in linked'
               /\ msg.body.type = "history-req" =>
                    /\ sync'[<<msg.from, msg.to>>] # "none"
                    /\ \A m \in msg.body.ids : Has(msg.from, m)'
               /\ msg.body.type = "history-end" => sync'[<<msg.to, msg.from>>] # "none"
    <3>1. /\ msg \in net /\ <<msg.from, msg.to>> \notin pairs /\ <<msg.from, msg.to>> \in linked
          /\ msg.from \in Browsers /\ msg.to \in Browsers
      BY <1>1, <1>2 DEF LinkFacts, Types
    <3>2. /\ <<msg.from, msg.to>> \in Pairs /\ <<msg.to, msg.from>> \in Pairs
          /\ <<msg.to, msg.from>> \notin pairs
      BY <1>2, <3>1 DEF Types, Pairs
    <3>3. /\ sync'[<<msg.from, msg.to>>] = sync[<<msg.from, msg.to>>]
          /\ sync'[<<msg.to, msg.from>>] = sync[<<msg.to, msg.from>>]
      BY <1>4, <3>1, <3>2
    <3> QED
      BY <1>1, <1>2, <3>1, <3>3 DEF LinkFacts, Has
  <2> QED
    BY <2>1, <2>2, <2>3, <2>4 DEF LinkFacts
<1>6. HadTrue'
  BY <1>2, <1>3, <1>4, HadKept DEF TrueFacts
<1>7. NetTrue'
  BY <1>1, <1>2, <1>3, NetKept DEF TrueFacts
<1>8. ASSUME NEW x \in Browsers, NEW m \in Files, \E p \in pairs : x \in {p[1], p[2]}, Partial(x, m)
      PROVE  <<x, m>> \in cut'
  <2>1. PICK f \in Browsers \X Files : f = <<x, m>>
    OBVIOUS
  <2>2. f[1] = x /\ f[2] = m
    BY <2>1
  <2> QED
    BY <1>1, <1>8, <2>1, <2>2
<1>9. \A msg \in Way \ Way' : <<msg.from, msg.to>> \in pairs
  BY <1>1 DEF Way
<1> QED
  BY <1>1, <1>3, <1>4, <1>5, <1>6, <1>7, <1>8, <1>9

(* What a browser has of a file when it loses connections, its page left.   *)
LEMMA LostContents ==
    ASSUME Kept, NEW pairs \in SUBSET Pairs, NEW x \in Browsers, NEW y \in Files, ContentsAt(x, y),
           UNCHANGED <<db, raced>>, task'[x] = task[x], incoming'[x] = incoming[x],
           net' \subseteq net,
           \A msg \in Way \ Way' : <<msg.from, msg.to>> \in pairs,
           \A msg \in net' : <<msg.from, msg.to>> \notin pairs,
           ((\E p \in pairs : x \in {p[1], p[2]}) /\ Partial(x, y)) => <<x, y>> \in cut'
    PROVE  ContentsAt(x, y)'
<1>1. Has(x, y)' = Has(x, y) /\ Doing(x, y)' = Doing(x, y) /\ HasBlob(x, y)' = HasBlob(x, y)
  BY DEF Has, HasBlob, Doing
<1>2. Excused(x, y) => Excused(x, y)'
  BY <1>1 DEF Excused, Kept
<1>3. ASSUME NEW c \in Browsers, Gathering(c, x, y), <<c, x>> \notin pairs
      PROVE  Gathering(c, x, y)'
  <2>1. /\ HasMeta(x, y) => HasMeta(x, y)'
        /\ \A i \in Chunks : HasPart(x, y, i) => HasPart(x, y, i)'
    BY DEF HasMeta, HasPart
  <2>2. /\ \A msg \in Way : IsMeta(msg, c, x, y) => msg \in Way'
        /\ \A msg \in Way, i \in Chunks : IsPart(msg, c, x, y, i) => msg \in Way'
    BY <1>3 DEF IsMeta, IsPart
  <2> QED
    BY <1>3, <2>1, <2>2, GatheringKept
<1>4. CASE \E p \in pairs : x \in {p[1], p[2]}
  <2>1. ASSUME Has(x, y) \/ Doing(x, y) PROVE Excused(x, y)'
    <3>1. CASE Partial(x, y)
      BY <1>4, <3>1 DEF Excused
    <3>2. CASE ~Partial(x, y)
      BY <1>1, <2>1, <3>2 DEF Partial, Excused, HasBlob, Doing
    <3> QED
      BY <3>1, <3>2
  <2>2. ASSUME NEW c \in Browsers, NEW msg \in net', Brings(msg, c, x, y)
        PROVE  Excused(x, y)' \/ Gathering(c, x, y)'
    <3>1. msg \in net /\ <<c, x>> \notin pairs
      BY <2>2 DEF Brings
    <3> QED
      BY <1>2, <1>3, <2>2, <3>1 DEF ContentsAt
  <2> QED
    BY <1>1, <2>1, <2>2 DEF ContentsAt, Brings
<1>5. CASE ~(\E p \in pairs : x \in {p[1], p[2]})
  <2>1. \A c \in Browsers : <<c, x>> \notin pairs
    <3>1. \A c : <<c, x>>[2] = x
      OBVIOUS
    <3> QED
      BY <1>5, <3>1
  <2>2. \A c \in Browsers : Gathering(c, x, y) => Gathering(c, x, y)'
    BY <1>3, <2>1
  <2>3. \A c \in Browsers :
          (\E msg \in net' : Brings(msg, c, x, y)) => \E msg \in net : Brings(msg, c, x, y)
    OBVIOUS
  <2> QED
    BY <1>1, <1>2, <2>2, <2>3, ContentsKept
<1> QED
  BY <1>4, <1>5

LEMMA LostTold ==
    ASSUME Kept, NEW pairs \in SUBSET Pairs, NEW x \in Browsers, NEW y \in Browsers, x # y,
           ToldAt(x, y), UNCHANGED <<from, db>>,
           <<x, y>> \notin pairs => task'[y] = task[y] /\ receipts'[x] = receipts[x],
           <<x, y>> \in pairs <=> <<y, x>> \in pairs,
           linked' = linked \ pairs, net' \subseteq net,
           \A msg \in net \ net' : <<msg.from, msg.to>> \in pairs,
           \A msg \in Way \ Way' : <<msg.from, msg.to>> \in pairs,
           \A p \in Pairs : p \in pairs => sync'[p] = "none",
           \A p \in Pairs : p \notin pairs => sync'[p] = sync[p] /\ had'[p] = had[p]
    PROVE  ToldAt(x, y)'
<1>1. <<x, y>> \in Pairs /\ <<y, x>> \in Pairs
  BY DEF Pairs
<1>2. CASE <<x, y>> \in pairs
  <2>1. ~Asked(y, x)' /\ <<x, y>> \notin linked'
    BY <1>1, <1>2 DEF Asked
  <2> QED
    BY <2>1 DEF ToldAt, PresenceAt, OldReceiptsAt, OwnReceiptsAt
<1>3. CASE <<x, y>> \notin pairs
  <2>1. /\ had'[<<x, y>>] = had[<<x, y>>] /\ had'[<<y, x>>] = had[<<y, x>>]
        /\ Asked(y, x)' => Asked(y, x)
        /\ <<x, y>> \in linked' => <<x, y>> \in linked
    BY <1>1, <1>3 DEF Asked
  <2>2. \A msg \in Way \ Way' : ~(msg.from = x /\ msg.to = y /\ Carries(msg.body))
    BY <1>3
  <2>3. Requested(y, x) => Requested(y, x)'
    BY <1>3 DEF Requested
  <2> QED
    BY <1>3, <2>1, <2>2, <2>3, ToldSame
<1> QED
  BY <1>2, <1>3

LEMMA UnlinkFull ==
    ASSUME FullInv, NEW a \in Browsers, NEW b \in Browsers, Unlink(a, b)
    PROVE  FullInv'
<1>1. PICK pairs : pairs = {<<a, b>>, <<b, a>>}
  OBVIOUS
<1>2. /\ <<a, b>> \in linked /\ LosePairs(pairs)
      /\ UNCHANGED <<from, db, incoming, task, unread, marking, receipts, raced>>
  BY <1>1 DEF Unlink, pageVars
<1>3. Inv /\ Types /\ LinkFacts /\ TrueFacts /\ Contents /\ Finishing /\ Told
  BY DEF FullInv, Inv
<1>4. /\ pairs \in SUBSET Pairs
      /\ \A x, y \in Browsers : <<x, y>> \in pairs => <<y, x>> \in pairs
  BY <1>1, <1>2, <1>3 DEF Types, Pairs
<1>5. /\ Kept /\ LinkFacts' /\ HadTrue' /\ NetTrue'
      /\ linked' = linked \ pairs /\ net' \subseteq net
      /\ \A msg \in net \ net' : <<msg.from, msg.to>> \in pairs
      /\ \A msg \in Way \ Way' : <<msg.from, msg.to>> \in pairs
      /\ \A msg \in net' : <<msg.from, msg.to>> \notin pairs
      /\ \A p \in Pairs : p \in pairs => sync'[p] = "none"
      /\ \A p \in Pairs : p \notin pairs => sync'[p] = sync[p] /\ had'[p] = had[p]
      /\ \A x \in Browsers, m \in Files :
           ((\E p \in pairs : x \in {p[1], p[2]}) /\ Partial(x, m)) => <<x, m>> \in cut'
  BY <1>2, <1>4, Lost
<1>6. Inv'
  BY <1>3, UnlinkInv
<1>7. TrueFacts'
  BY <1>2, <1>3, <1>5, TrueNet
<1>8. Contents'
  BY <1>2, <1>3, <1>4, <1>5, LostContents DEF Contents
<1>9. Finishing'
  BY <1>2, <1>3, FinishingKept
<1>10. Told'
  BY <1>2, <1>3, <1>4, <1>5, LostTold DEF Told
<1> QED
  BY <1>5, <1>6, <1>7, <1>8, <1>9, <1>10 DEF FullInv

(* A channel that closes: what it takes is lost, not forgotten, and a       *)
(* request leaves what its answer would have been.                          *)
LEMMA ChannelClosesFull ==
    ASSUME FullInv, NEW a \in Browsers, NEW b \in Browsers, ChannelCloses(a, b)
    PROVE  FullInv'
<1>1. /\ <<a, b>> \in linked
      /\ UNCHANGED <<from, db, incoming, task, unread, marking, receipts, linked, sync,
                     had, drops,
                     raced, cut>>
  BY DEF ChannelCloses, pageVars
<1>2. PICK gone \in SUBSET {msg \in net : msg.from = a /\ msg.to = b} :
        net' = net \ gone /\ lost' = lost \cup UNION {Untold(msg) : msg \in gone}
  BY DEF ChannelCloses
<1>3. Inv /\ Types /\ LinkFacts /\ TrueFacts /\ Contents /\ Finishing /\ Told
  BY DEF FullInv, Inv
<1>4. /\ net' \subseteq net
      /\ \A msg \in gone : msg \in net /\ msg.from = a /\ msg.to = b /\ Untold(msg) \subseteq Way'
  BY <1>2 DEF Way
<1>5. ASSUME NEW msg \in Way \ Way'
      PROVE  msg.body.type = "history-req"
  <2>1. msg \in gone
    BY <1>2 DEF Way
  <2>2. msg \notin Untold(msg)
    BY <1>4, <2>1
  <2> QED
    BY <2>2 DEF Untold
<1>6. Kept
  BY <1>1, SameKeeps
<1>7. Inv'
  BY <1>3, ChannelClosesInv
<1>8. LinkFacts'
  <2>1. \A msg \in net' : msg \in net
    BY <1>4
  <2> QED
    BY <1>1, <1>3, <1>6, <2>1, LinkQuiet
<1>9. TrueFacts'
  BY <1>1, <1>3, <1>4, <1>6, TrueNet, HadKept, NetKept DEF TrueFacts
<1>10. Contents'
  BY <1>1, <1>3, <1>4, <1>5, <1>6, ContentsSame
<1>11. Finishing'
  BY <1>1, <1>3, FinishingKept
<1>12. Told'
  <2> SUFFICES ASSUME NEW x \in Browsers, NEW y \in Browsers, x # y PROVE ToldAt(x, y)'
    BY DEF Told
  <2>1. ToldAt(x, y)
    BY <1>3 DEF Told
  <2>2. ASSUME NEW req \in net, req.from = y, req.to = x, req.body.type = "history-req",
               req \notin net'
        PROVE  Answered(x, y)
    <3>1. PICK ids : ids = req.body.ids
      OBVIOUS
    <3>2. ids \in SUBSET Msgs /\ \A m \in ids : Has(y, m)
      <4>1. req.body \in Body
        BY <1>3, <2>2 DEF Types
      <4> QED
        BY <1>3, <2>2, <3>1, <4>1, BodyFields DEF LinkFacts
    <3>3. PICK body : body = AnswerBody(x, ids)
      OBVIOUS
    <3>4. Messages(x, {y}, body) \subseteq Way'
      <4>1. Untold(req) = Messages(x, {y}, body)
        BY <2>2, <3>1, <3>3, ReplyIs DEF Untold
      <4> QED
        BY <1>2, <1>4, <2>2, <4>1
    <3>5. \A z \in body : \E msg \in Way' : msg.from = x /\ msg.to = y /\ msg.body = z
      BY <3>4, MessagesAre
    <3> QED
      BY <1>1, <1>3, <3>2, <3>3, <3>5, AnswersAll
  <2>3. Requested(y, x) => Requested(y, x)' \/ Answered(x, y)
    BY <2>2 DEF Requested
  <2>4. \A msg \in Way \ Way' : ~Carries(msg.body)
    BY <1>5 DEF Carries
  <2> QED
    BY <1>1, <1>4, <1>6, <2>1, <2>3, <2>4, ToldSame DEF Asked, Requested
<1> QED
  BY <1>7, <1>8, <1>9, <1>10, <1>11, <1>12 DEF FullInv

LEMMA ReloadFull ==
    ASSUME FullInv, NEW b \in Browsers, Reload(b)
    PROVE  FullInv'
<1>1. PICK pairs : pairs = {p \in Pairs : b \in {p[1], p[2]}}
  OBVIOUS
<1>2. /\ LosePairs(pairs)
      /\ incoming' = [incoming EXCEPT ![b] = [m \in Files |-> None]]
      /\ task' = [task EXCEPT ![b] = None]
      /\ marking' = [marking EXCEPT ![b] = {}]
      /\ receipts' = [receipts EXCEPT ![b] = {}]
      /\ unread' = [unread EXCEPT ![b] =
            {m \in Msgs : Has(b, m) /\ from[m] # b /\ b \notin db[b][m].reads}]
      /\ UNCHANGED <<from, db, raced>>
  BY <1>1 DEF Reload
<1>3. Inv /\ Types /\ SentFirst /\ LinkFacts /\ TrueFacts /\ Contents /\ Finishing /\ Told
  BY DEF FullInv, Inv
<1>4. /\ pairs \in SUBSET Pairs
      /\ \A x, y \in Browsers : <<x, y>> \in pairs => <<y, x>> \in pairs
      /\ \A x \in Browsers : x # b => <<x, b>> \in pairs /\ <<b, x>> \in pairs
  BY <1>1 DEF Pairs
<1>5. /\ Kept /\ LinkFacts' /\ HadTrue' /\ NetTrue'
      /\ linked' = linked \ pairs /\ net' \subseteq net
      /\ \A msg \in net \ net' : <<msg.from, msg.to>> \in pairs
      /\ \A msg \in Way \ Way' : <<msg.from, msg.to>> \in pairs
      /\ \A msg \in net' : <<msg.from, msg.to>> \notin pairs
      /\ \A p \in Pairs : p \in pairs => sync'[p] = "none"
      /\ \A p \in Pairs : p \notin pairs => sync'[p] = sync[p] /\ had'[p] = had[p]
      /\ \A x \in Browsers, m \in Files :
           ((\E p \in pairs : x \in {p[1], p[2]}) /\ Partial(x, m)) => <<x, m>> \in cut'
  BY <1>2, <1>4, Lost
<1>6. /\ incoming'[b] = [m \in Files |-> None] /\ task'[b] = None
      /\ marking'[b] = {} /\ receipts'[b] = {}
      /\ unread'[b] = {m \in Msgs : Has(b, m) /\ from[m] # b /\ b \notin db[b][m].reads}
      /\ \A x \in Browsers \ {b} :
           /\ incoming'[x] = incoming[x] /\ task'[x] = task[x] /\ marking'[x] = marking[x]
           /\ receipts'[x] = receipts[x] /\ unread'[x] = unread[x]
  BY <1>2, <1>3 DEF Types
<1>7. Inv'
  BY <1>3, ReloadInv
<1>8. TrueFacts'
  <2>1. StoredTrue'
    BY <1>2, <1>3, <1>5, StoredKept DEF TrueFacts, Sent
  <2>2. TasksTrue'
    BY <1>3, <1>5, <1>6, TasksKept DEF TrueFacts
  <2>3. MetaTrue'
    <3>1. \A x \in Browsers, m \in Files : incoming'[x][m] \in {incoming[x][m], None}
      BY <1>6
    <3> QED
      BY <1>3, <1>5, <3>1, MetaKept DEF TrueFacts
  <2>4. MarksTrue'
    <3>1. \A x \in Browsers : marking'[x] \subseteq marking[x] /\ receipts'[x] \subseteq receipts[x]
      BY <1>6
    <3>2. ASSUME NEW x \in Browsers, NEW y \in unread'[x]
          PROVE  y \in unread[x] \/ from'[y] \notin {x, None}
      BY <1>2, <1>3, <1>6 DEF SentFirst, Sent
    <3> QED
      BY <1>3, <1>5, <3>1, <3>2, MarksKept DEF TrueFacts
  <2> QED
    BY <1>5, <2>1, <2>2, <2>3, <2>4 DEF TrueFacts
<1>9. Contents'
  <2> SUFFICES ASSUME NEW x \in Browsers, NEW y \in Files PROVE ContentsAt(x, y)'
    BY DEF Contents
  <2>1. CASE x # b
    <3>1. ContentsAt(x, y) /\ task'[x] = task[x] /\ incoming'[x] = incoming[x]
      BY <1>3, <1>6, <2>1 DEF Contents
    <3> QED
      BY <1>2, <1>4, <1>5, <3>1, LostContents
  <2>2. CASE x = b
    <3>1. ~Doing(b, y)'
      BY <1>6 DEF Doing
    <3>2. \A c \in Browsers, msg \in net' : ~Brings(msg, c, b, y)
      <4> SUFFICES ASSUME NEW c \in Browsers, NEW msg \in net', Brings(msg, c, b, y) PROVE FALSE
        OBVIOUS
      <4>1. msg.from = c /\ msg.to = b /\ msg \in net
        BY <1>5 DEF Brings
      <4>2. <<c, b>> \in Pairs
        BY <1>3, <4>1 DEF LinkFacts, Types
      <4>3. c # b
        BY <4>2 DEF Pairs
      <4> QED
        BY <1>4, <1>5, <4>1, <4>3
    <3>3. ASSUME Has(b, y)'
          PROVE  Excused(b, y)' \/ \E c \in Browsers : Gathering(c, b, y)'
      <4>1. Has(b, y)
        BY <1>2, <3>3 DEF Has
      <4>2. CASE HasBlob(b, y)
        BY <1>2, <4>2 DEF Excused, HasBlob, Has
      <4>3. CASE ~HasBlob(b, y)
        <5>1. CASE \E x2 \in Browsers : x2 # b
          <6>1. PICK x2 \in Browsers : x2 # b
            BY <5>1
          <6>2. <<b, x2>> \in pairs /\ <<b, x2>>[1] = b
            BY <1>4, <6>1
          <6>3. Partial(b, y)
            BY <4>1, <4>3 DEF Partial, HasBlob
          <6>4. <<b, y>> \in cut'
            BY <1>5, <6>2, <6>3
          <6> QED
            BY <6>4 DEF Excused
        <5>2. CASE ~(\E x2 \in Browsers : x2 # b)
          <6>1. y \in Msgs /\ from[y] = b
            BY <1>3, <4>1, <5>2 DEF SentFirst, Sent, Types, Msgs
          <6>2. Sent(y)
            BY <1>3, <4>1, <6>1 DEF SentFirst
          <6>3. <<b, y>> \in raced
            BY <1>3, <4>3, <6>1, <6>2 DEF TrueFacts, StoredTrue, AuthorHas
          <6> QED
            BY <1>2, <6>3 DEF Excused
        <5> QED
          BY <5>1, <5>2
      <4> QED
        BY <4>2, <4>3
    <3> QED
      BY <2>2, <3>1, <3>2, <3>3 DEF ContentsAt, Brings
  <2> QED
    BY <2>1, <2>2
<1>10. Finishing'
  <2>1. \A x \in Browsers, m \in Files : x = b => ~Complete(incoming'[x][m])
    BY <1>6 DEF Complete
  <2> QED
    BY <1>3, <1>6, <2>1, FinishingKept
<1>11. Told'
  <2> SUFFICES ASSUME NEW x \in Browsers, NEW y \in Browsers, x # y PROVE ToldAt(x, y)'
    BY DEF Told
  <2>1. <<x, y>> \notin pairs => task'[y] = task[y] /\ receipts'[x] = receipts[x]
    BY <1>4, <1>6
  <2> QED
    BY <1>2, <1>3, <1>4, <1>5, <2>1, LostTold DEF Told
<1> QED
  BY <1>5, <1>7, <1>8, <1>9, <1>10, <1>11 DEF FullInv

-----------------------------------------------------------------------------
(* The end of a handler.                                                    *)

LEMMA RenderLemma ==
    ASSUME Types, NEW b \in Browsers, NEW m \in Msgs, Sent(m), NEW reads, Render(b, m, reads)
    PROVE  \A x \in Browsers : \A y \in unread'[x] : y \in unread[x] \/ from[y] \notin {x, None}
BY DEF Types, Render, Sent

LEMMA EndTaskFull ==
    ASSUME FullInv, NEW b \in Browsers, EndTask(b)
    PROVE  FullInv'
<1>1. PICK t : t = task[b]
  OBVIOUS
<1>2. PICK m, rec, whole : m = t.id /\ rec = t.rec /\ whole = [rec EXCEPT !.blob = TRUE]
  OBVIOUS
<1>3. Inv /\ Types /\ SentFirst /\ LinkFacts /\ TrueFacts /\ Contents /\ Finishing /\ Told
  BY DEF FullInv, Inv
<1>4. /\ t # None /\ Put(b, m, rec) /\ Render(b, m, rec.reads)
      /\ \/ /\ t.finish
            /\ incoming' = [incoming EXCEPT ![b][m] = None]
            /\ WillPut(b, m, whole, FALSE)
         \/ /\ ~(t.finish /\ Complete(incoming[b][m]))
            /\ task' = [task EXCEPT ![b] = None] /\ incoming' = incoming
      /\ UNCHANGED <<from, marking, receipts, linked, sync, lost, had, drops, net, cut>>
  BY <1>1, <1>2 DEF EndTask, linkVars
<1>way. Way \ Way' \subseteq net \ net' /\ net' \subseteq Way'
  BY <1>4, WayOn
<1>5. /\ m \in Msgs /\ rec \in Record /\ rec # None /\ Sent(m)
      /\ TrueRecord(m, rec) /\ (t.finish => m \in Files)
  <2>1. t \in Task
    BY <1>1, <1>3, <1>4 DEF Types
  <2> QED
    BY <1>1, <1>2, <1>3, <1>4, <2>1, NoneAssumption DEF Task, SentFirst, TrueFacts, TasksTrue
<1>6. whole \in Record /\ whole.reads = rec.reads /\ whole.blob = TRUE
  BY <1>2, <1>5 DEF Record
<1>7. /\ db'[b][m] = rec
      /\ \A x \in Browsers, y \in Msgs : (x # b \/ y # m) => db'[x][y] = db[x][y]
  BY <1>3, <1>4, <1>5, PutLemma
<1>8. Kept
  BY <1>3, <1>4, <1>5, PutKeeps
<1>9. /\ \A x \in Browsers \ {b} : task'[x] = task[x] /\ incoming'[x] = incoming[x]
      /\ \A y \in Files : y # m => incoming'[b][y] = incoming[b][y]
      /\ \/ /\ t.finish /\ task'[b] # None /\ task'[b].id = m /\ task'[b].rec = whole
            /\ task'[b].finish = FALSE /\ incoming'[b][m] = None
         \/ /\ ~(t.finish /\ Complete(incoming[b][m]))
            /\ task'[b] = None /\ incoming' = incoming
  <2>1. CASE /\ t.finish /\ incoming' = [incoming EXCEPT ![b][m] = None]
             /\ WillPut(b, m, whole, FALSE)
    <3>1. PICK u : u = [id |-> m, rec |-> whole, finish |-> FALSE, stale |-> FALSE]
      OBVIOUS
    <3>2. u \in Task /\ u.id = m /\ u.rec = whole /\ u.finish = FALSE
      BY <1>5, <1>6, <3>1 DEF Task
    <3>3. task' = [task EXCEPT ![b] = u] /\ u # None
      BY <2>1, <3>1, <3>2, NoneAssumption DEF WillPut
    <3>4. task'[b] = u /\ \A x \in Browsers \ {b} : task'[x] = task[x]
      BY <1>3, <3>3 DEF Types
    <3>5. /\ incoming'[b][m] = None /\ \A y \in Files : y # m => incoming'[b][y] = incoming[b][y]
          /\ \A x \in Browsers \ {b} : incoming'[x] = incoming[x]
      BY <1>3, <1>5, <2>1 DEF Types
    <3> QED
      BY <2>1, <3>2, <3>3, <3>4, <3>5
  <2>2. CASE /\ ~(t.finish /\ Complete(incoming[b][m]))
             /\ task' = [task EXCEPT ![b] = None] /\ incoming' = incoming
    BY <1>3, <2>2 DEF Types
  <2> QED
    BY <1>4, <2>1, <2>2
<1>10. /\ Doing(b, m) /\ \A y \in Msgs : y # m => ~Doing(b, y) /\ ~Doing(b, y)'
       /\ \A x \in Browsers \ {b}, y \in Msgs : Doing(x, y)' <=> Doing(x, y)
  BY <1>1, <1>2, <1>4, <1>9 DEF Doing
<1>11. Inv'
  BY <1>3, EndTaskInv
<1>12. LinkFacts'
  BY <1>3, <1>4, <1>8, LinkQuiet
<1>13. TrueFacts'
  <2>1. TrueRecord(m, rec)'
    BY <1>3, <1>5, <1>8, StillRecord
  <2>2. StoredTrue'
    <3>1. TrueRecord(m, db[b][m])'
      BY <1>7, <2>1 DEF TrueRecord, TrueReads, ReadBy, Sent, Has
    <3>2. \A y \in Msgs : Sent(y)' => Sent(y)
      BY <1>4 DEF Sent
    <3> QED
      BY <1>3, <1>7, <1>8, <3>1, <3>2, StoredKept DEF TrueFacts
  <2>3. TasksTrue'
    <3>1. t.finish => TrueRecord(m, whole)'
      BY <1>5, <1>6, <2>1 DEF TrueRecord, TrueReads
    <3>2. (t.finish /\ task'[b].id = m /\ task'[b].rec = whole) => TrueRecord(task[b].id, task[b].rec)'
      BY <3>1 DEF TrueRecord, TrueReads, ReadBy, Sent, Has
    <3>3. \A x \in Browsers \ {b} :
            \/ task'[x] = None
            \/ /\ task[x] # None /\ task'[x].id = task[x].id /\ task'[x].rec = task[x].rec
               /\ task'[x].finish = task[x].finish
      BY <1>9
    <3>4. task'[b] = None \/ (TrueRecord(task[b].id, task[b].rec)' /\ ~task'[b].finish)
      BY <1>9, <3>2
    <3> QED
      BY <1>3, <1>8, <3>3, <3>4, TasksKept DEF TrueFacts
  <2>4. MarksTrue'
    <3>1. \A x \in Browsers : \A y \in unread'[x] : y \in unread[x] \/ from[y] \notin {x, None}
      BY <1>3, <1>4, <1>5, RenderLemma
    <3> QED
      BY <1>3, <1>4, <1>8, <3>1, MarksKept DEF TrueFacts
  <2>5. MetaTrue'
    <3>1. \A x \in Browsers, y \in Files : incoming'[x][y] \in {incoming[x][y], None}
      BY <1>9
    <3> QED
      BY <1>3, <1>8, <3>1, MetaKept DEF TrueFacts
  <2>6. HadTrue' /\ NetTrue'
    BY <1>3, <1>4, <1>8, HadKept, NetKept DEF TrueFacts
  <2> QED
    BY <2>2, <2>3, <2>4, <2>5, <2>6 DEF TrueFacts
<1>14. Contents'
  <2> SUFFICES ASSUME NEW x \in Browsers, NEW y \in Files PROVE ContentsAt(x, y)'
    BY DEF Contents
  <2>1. y \in Msgs /\ ContentsAt(x, y) /\ net' = net
    BY <1>3, <1>4 DEF Contents, Msgs
  <2>2. CASE x = b /\ y = m
    <3>1. CASE task'[b] # None /\ task'[b].id = m /\ task'[b].rec = whole
      <4>1. Excused(b, m)'
        BY <1>6, <3>1 DEF Excused, Doing
      <4> QED
        BY <2>2, <4>1 DEF ContentsAt
    <3>2. CASE incoming' = incoming
      <4>1. Doing(b, m) /\ task[b].rec.blob => Excused(b, m)'
        BY <1>1, <1>2, <1>5, <1>7 DEF Excused, HasBlob, Has
      <4>2. Doing(b, m) => Excused(b, m)' \/ ~task[b].rec.blob
        BY <4>1
      <4>3. Has(b, m)' \/ Doing(b, m)' => Has(b, m) \/ Doing(b, m)
        BY <1>10
      <4> QED
        BY <1>8, <1>way, <2>1, <2>2, <3>2, <4>2, <4>3, ContentsQuiet
    <3> QED
      BY <1>9, <3>1, <3>2
  <2>3. CASE ~(x = b /\ y = m)
    <3>1. (Has(x, y)' <=> Has(x, y)) /\ (HasBlob(x, y)' <=> HasBlob(x, y))
      BY <1>7, <2>1, <2>3 DEF Has, HasBlob
    <3>2. (Doing(x, y)' <=> Doing(x, y)) /\ incoming'[x][y] = incoming[x][y]
      <4>1. CASE x = b
        <5>1. y # m
          BY <2>3, <4>1
        <5>2. ~Doing(b, y) /\ ~Doing(b, y)' /\ incoming'[b][y] = incoming[b][y]
          BY <1>9, <1>10, <2>1, <5>1
        <5> QED
          BY <4>1, <5>2
      <4>2. CASE x # b
        BY <1>9, <1>10, <2>1, <4>2
      <4> QED
        BY <4>1, <4>2
    <3>3. Doing(x, y) => Excused(x, y)' \/ ~task[x].rec.blob
      <4>1. Doing(x, y) => task'[x] = task[x]
        BY <1>9, <1>10, <2>1, <2>3
      <4> QED
        BY <3>2, <4>1 DEF Excused
    <3> QED
      BY <1>8, <1>way, <2>1, <3>1, <3>2, <3>3, ContentsQuiet
  <2> QED
    BY <2>2, <2>3
<1>15. Finishing'
  <2>1. ASSUME NEW y \in Files PROVE ~Complete(incoming'[b][y])
    <3>1. Complete(incoming[b][y]) => y = m /\ t.finish
      BY <1>1, <1>2, <1>3 DEF Finishing, Doing
    <3> QED
      BY <1>9, <3>1 DEF Complete
  <2> QED
    BY <1>3, <1>9, <2>1, FinishingKept
<1>16. Told'
  <2> SUFFICES ASSUME NEW x \in Browsers, NEW y \in Browsers, x # y PROVE ToldAt(x, y)'
    BY DEF Told
  <2>1. ToldAt(x, y)
    BY <1>3 DEF Told
  <2>2. Survives(x, y)
    <3>1. \A k \in Msgs : Taken(x, y, k)
      BY <1>4, <1>way DEF Taken
    <3>2. ASSUME NEW k \in Msgs, Doing(y, k)
          PROVE  \/ Doing(y, k)' /\ task'[y].rec = task[y].rec
                 \/ Has(y, k)' /\ db'[y][k] = task[y].rec
      <4>1. CASE y = b
        <5>1. k = m
          BY <1>10, <3>2, <4>1
        <5> QED
          BY <1>1, <1>2, <1>5, <1>7, <4>1, <5>1 DEF Has
      <4>2. CASE y # b
        BY <1>9, <1>10, <3>2, <4>2
      <4> QED
        BY <4>1, <4>2
    <3> QED
      BY <1>8, <3>1, <3>2, SurvivesLemma
  <2>3. \A k \in Msgs : Offers(x, y, k)' = Offers(x, y, k) /\ Offers(y, x, k)' = Offers(y, x, k)
    BY <1>4 DEF Offers
  <2>4. ASSUME NEW k \in Msgs, HasRead(x, k)'
        PROVE  HasRead(x, k) \/ <<x, k>> \in raced'
    <3>1. CASE x = b /\ k = m
      <4>1. ReadBy(b, m)
        BY <1>5, <1>7, <2>4, <3>1 DEF HasRead, TrueRecord, TrueReads
      <4> QED
        BY <1>8, <3>1, <4>1 DEF ReadBy, HasRead, Kept
    <3>2. CASE ~(x = b /\ k = m)
      BY <1>7, <2>4, <3>2 DEF HasRead, Has
    <3> QED
      BY <3>1, <3>2
  <2> QED
    BY <1>4, <1>8, <2>1, <2>2, <2>3, <2>4, ToldKept DEF Asked, Requested
<1> QED
  BY <1>11, <1>12, <1>13, <1>14, <1>15, <1>16 DEF FullInv

-----------------------------------------------------------------------------
(* The handlers of received messages: what b is about to put is true, what  *)
(* the message told is known, and the rest is left alone.                   *)

NewTask(b, m) ==
    /\ \A x \in Browsers \ {b} : task'[x] = task[x]
    /\ \/ task'[b] = None
       \/ /\ task'[b] # None /\ task'[b].id = m /\ TrueRecord(m, task'[b].rec)
          /\ task'[b].finish => m \in Files

LEMMA HandlerFull ==
    ASSUME FullInv, NEW b \in Browsers, NEW m \in Msgs, NEW msg \in net, Inv',
           net' = net \ {msg}, msg.to = b, msg.body.id = m,
           msg.body.type \in {"msg", "reads", "file-meta", "file-chunk"}, task[b] = None,
           UNCHANGED <<from, db, marking, receipts, linked, sync, lost, had, raced, cut>>,
           NewTask(b, m),
           \A x \in Browsers : \A y \in unread'[x] : y \in unread[x] \/ from[y] \notin {x, None},
           \A x \in Browsers, y \in Files : (x # b \/ y # m) => incoming'[x][y] = incoming[x][y],
           m \in Files =>
             /\ \/ incoming'[b][m] = None \/ incoming'[b][m].meta = None
                \/ incoming[b][m] # None /\ incoming'[b][m].meta = incoming[b][m].meta
                \/ TrueReads(m, incoming'[b][m].meta)
             /\ ContentsAt(b, m)'
             /\ Complete(incoming'[b][m]) => Doing(b, m)' /\ task'[b].finish,
           msg.body.type \in {"msg", "file-meta"} => Has(b, m) \/ Doing(b, m)',
           msg.body.type = "msg" \/ (msg.body.type = "reads" /\ Has(b, m)) =>
             \A x \in msg.body.reads :
               \/ Has(b, m) /\ x \in db[b][m].reads
               \/ Doing(b, m)' /\ x \in task'[b].rec.reads
    PROVE  FullInv'
<1>1. Inv /\ Types /\ SentFirst /\ LinkFacts /\ TrueFacts /\ Contents /\ Finishing /\ Told
  BY DEF FullInv, Inv
<1>2. Kept
  BY SameKeeps
<1>way. Way \ Way' \subseteq net \ net' /\ net' \subseteq Way'
  BY WayOn
<1>3. LinkFacts'
  BY <1>1, <1>2, LinkQuiet
<1>4. TrueFacts'
  <2>1. StoredTrue' /\ HadTrue' /\ NetTrue'
    BY <1>1, <1>2, StoredKept, HadKept, NetKept DEF TrueFacts, Sent
  <2>2. MarksTrue'
    BY <1>1, <1>2, MarksKept DEF TrueFacts
  <2>3. TasksTrue'
    <3>1. \A rec : TrueRecord(m, rec) => TrueRecord(m, rec)'
      BY DEF TrueRecord, TrueReads, ReadBy, Sent, Has
    <3>2. PICK rec : rec = task'[b].rec
      OBVIOUS
    <3>3. (task'[b].id = m /\ TrueRecord(m, rec)) => TrueRecord(task[b].id, task[b].rec)'
      BY <3>1, <3>2 DEF TrueRecord, TrueReads, ReadBy, Sent, Has
    <3>4. task'[b] = None \/ (TrueRecord(task[b].id, task[b].rec)' /\ (task'[b].finish => task'[b].id \in Files))
      BY <3>2, <3>3 DEF NewTask
    <3>5. \A x \in Browsers \ {b} : task'[x] = task[x]
      BY DEF NewTask
    <3> QED
      BY <1>1, <1>2, <3>4, <3>5, TasksKept DEF TrueFacts
  <2>4. MetaTrue'
    <3>1. PICK reads : reads = incoming'[b][m].meta
      OBVIOUS
    <3>2. TrueReads(m, reads) => TrueReads(m, incoming[b][m].meta)'
      BY <3>1 DEF TrueReads, ReadBy, Sent, Has
    <3>3. ASSUME NEW x \in Browsers, NEW y \in Files
          PROVE  \/ incoming'[x][y] = None \/ incoming'[x][y].meta = None
                 \/ incoming[x][y] # None /\ incoming'[x][y].meta = incoming[x][y].meta
                 \/ TrueReads(y, incoming[x][y].meta)'
      <4>1. CASE x = b /\ y = m
        BY <3>1, <3>2, <4>1
      <4>2. CASE x # b \/ y # m
        BY <4>2
      <4> QED
        BY <4>1, <4>2
    <3> QED
      BY <1>1, <1>2, <3>3, MetaKept DEF TrueFacts
  <2> QED
    BY <2>1, <2>2, <2>3, <2>4 DEF TrueFacts
<1>5. Contents'
  <2> SUFFICES ASSUME NEW x \in Browsers, NEW y \in Files, x # b \/ y # m PROVE ContentsAt(x, y)'
    BY DEF Contents
  <2>1. ContentsAt(x, y) /\ incoming'[x][y] = incoming[x][y]
    BY <1>1 DEF Contents
  <2>2. /\ Doing(x, y) => Doing(x, y)' /\ task'[x] = task[x]
        /\ Doing(x, y)' => Doing(x, y)
    <3>1. CASE x = b
      BY <3>1 DEF Doing, NewTask
    <3>2. CASE x # b
      BY <3>2 DEF Doing, NewTask
    <3> QED
      BY <3>1, <3>2
  <2>3. Doing(x, y) => Excused(x, y)' \/ ~task[x].rec.blob
    BY <2>2 DEF Excused
  <2>4. Has(x, y)' => Has(x, y)
    BY DEF Has
  <2>5. \A n \in Way \ Way' :
          ~(n.to = x /\ n.body.type \in {"file-meta", "file-chunk"} /\ n.body.id = y)
    BY <1>way
  <2> QED
    BY <1>2, <2>1, <2>2, <2>3, <2>4, <2>5, ContentsQuiet
<1>6. Finishing'
  <2>1. ASSUME NEW x \in Browsers, NEW y \in Files, Complete(incoming'[x][y])
        PROVE  \/ task'[x] # None /\ task'[x].id = y /\ task'[x].finish
               \/ incoming'[x][y] = incoming[x][y] /\ task'[x] = task[x]
    <3>1. CASE x = b /\ y = m
      BY <2>1, <3>1 DEF Doing
    <3>2. CASE x = b /\ y # m
      <4>1. ~Complete(incoming[b][y])
        BY <1>1 DEF Finishing, Doing
      <4> QED
        BY <2>1, <3>2, <4>1
    <3>3. CASE x # b
      BY <3>3 DEF NewTask
    <3> QED
      BY <3>1, <3>2, <3>3
  <2> QED
    BY <1>1, <2>1, FinishingKept
<1>7. Told'
  <2> SUFFICES ASSUME NEW x \in Browsers, NEW y \in Browsers, x # y PROVE ToldAt(x, y)'
    BY DEF Told
  <2>1. ToldAt(x, y)
    BY <1>1 DEF Told
  <2>2. Survives(x, y)
    <3>1. ASSUME NEW k \in Msgs PROVE Taken(x, y, k)
      <4> SUFFICES ASSUME NEW n \in Way \ Way'
                   PROVE  /\ Brings(n, x, y, k) => Has(y, k)' \/ Doing(y, k)'
                          /\ \A z \in Browsers : Tells(n, x, y, k, z) =>
                               \/ Has(y, k)' /\ z \in db'[y][k].reads
                               \/ Doing(y, k)' /\ z \in task'[y].rec.reads
        BY DEF Taken
      <4>1. n = msg
        BY <1>way
      <4>2. Brings(n, x, y, k) => y = b /\ k = m /\ msg.body.type \in {"msg", "file-meta"}
        BY <4>1 DEF Brings
      <4>3. ASSUME NEW z, Tells(n, x, y, k, z)
            PROVE  /\ y = b /\ k = m /\ z \in msg.body.reads
                   /\ msg.body.type = "msg" \/ (msg.body.type = "reads" /\ Has(b, m))
        BY <4>1, <4>3 DEF Tells
      <4>4. Has(b, m) => Has(b, m)'
        BY DEF Has
      <4> QED
        BY <4>2, <4>3, <4>4
    <3>2. \A k \in Msgs : Doing(y, k) => Doing(y, k)' /\ task'[y].rec = task[y].rec
      BY DEF Doing, NewTask
    <3> QED
      BY <1>2, <3>1, <3>2, SurvivesLemma
  <2>3. \A k \in Msgs : (Offers(x, y, k)' <=> Offers(x, y, k)) /\ (Offers(y, x, k)' <=> Offers(y, x, k))
    BY DEF Offers
  <2>4. \A k \in Msgs : HasRead(x, k)' => HasRead(x, k)
    BY DEF HasRead, Has
  <2>5. Requested(y, x) => Requested(y, x)'
    BY DEF Requested
  <2> QED
    BY <1>2, <2>1, <2>2, <2>3, <2>4, <2>5, ToldKept DEF Asked
<1> QED
  BY <1>3, <1>4, <1>5, <1>6, <1>7 DEF FullInv

LEMMA WillPutLemma ==
    ASSUME Types, NEW b \in Browsers, NEW m \in Msgs, NEW rec \in Record, NEW finish \in BOOLEAN,
           WillPut(b, m, rec, finish)
    PROVE  /\ task'[b] # None /\ task'[b].id = m /\ task'[b].rec = rec /\ task'[b].finish = finish
           /\ \A x \in Browsers \ {b} : task'[x] = task[x]
<1>1. PICK u : u = [id |-> m, rec |-> rec, finish |-> finish, stale |-> FALSE]
  OBVIOUS
<1>2. u \in Task /\ u.id = m /\ u.rec = rec /\ u.finish = finish
  BY <1>1 DEF Task
<1>3. task' = [task EXCEPT ![b] = u] /\ u # None
  BY <1>1, <1>2, NoneAssumption DEF WillPut
<1>4. task'[b] = u /\ \A x \in Browsers \ {b} : task'[x] = task[x]
  BY <1>3 DEF Types
<1> QED
  BY <1>2, <1>3, <1>4

(* mergeReads: the receipts are there, or about to be put.                  *)
LEMMA Merged ==
    ASSUME Types, TrueFacts, NEW b \in Browsers, NEW m \in Msgs, NEW reads \in SUBSET Browsers,
           task[b] = None, TrueReads(m, reads), MergeReads(b, m, reads)
    PROVE  /\ NewTask(b, m)
           /\ Has(b, m) =>
                \A x \in reads : x \in db[b][m].reads
                                 \/ (task'[b] # None /\ task'[b].id = m /\ x \in task'[b].rec.reads)
           /\ task'[b] # None => Has(b, m)
<1> DEFINE merged == db[b][m].reads \cup (reads \ {from[m]})
           rec == [db[b][m] EXCEPT !.reads = merged]
<1>1. \/ ~Has(b, m) /\ task' = task
      \/ Has(b, m) /\ merged = db[b][m].reads /\ task' = task
      \/ Has(b, m) /\ WillPut(b, m, rec, FALSE)
  BY DEF MergeReads
<1>2. \A x \in reads : x \in merged
  BY DEF TrueReads
<1>3. CASE task' = task /\ (Has(b, m) => merged = db[b][m].reads)
  <2>1. task'[b] = None /\ \A x \in Browsers \ {b} : task'[x] = task[x]
    BY <1>3
  <2>2. Has(b, m) => \A x \in reads : x \in db[b][m].reads
    BY <1>2, <1>3
  <2> QED
    BY <2>1, <2>2 DEF NewTask
<1>4. CASE Has(b, m) /\ WillPut(b, m, rec, FALSE)
  <2>1. db[b][m] \in Record /\ TrueRecord(m, db[b][m])
    BY <1>4 DEF Types, Has, TrueFacts, StoredTrue
  <2>2. db[b][m] \in [reads : SUBSET Browsers, blob : BOOLEAN]
    BY <2>1 DEF Record
  <2>3. rec \in Record /\ rec.reads = merged /\ rec.blob = db[b][m].blob
    BY <2>2 DEF Record
  <2>4. TrueRecord(m, rec)
    BY <2>1, <2>3 DEF TrueRecord, TrueReads
  <2> HIDE DEF rec, merged
  <2>5. /\ task'[b] # None /\ task'[b].id = m /\ task'[b].rec = rec /\ task'[b].finish = FALSE
        /\ \A x \in Browsers \ {b} : task'[x] = task[x]
    BY <1>4, <2>3, WillPutLemma
  <2> QED
    BY <1>2, <1>4, <2>3, <2>4, <2>5 DEF NewTask
<1> QED
  BY <1>1, <1>3, <1>4

LEMMA OnMessageFull ==
    ASSUME FullInv, NEW b \in Browsers, NEW msg \in net, OnMessage(b, msg)
    PROVE  FullInv'
<1>1. PICK m, reads : m = msg.body.id /\ reads = msg.body.reads
  OBVIOUS
<1>2. Inv /\ Types /\ LinkFacts /\ TrueFacts /\ Contents /\ Finishing /\ Told
  BY DEF FullInv, Inv
<1>3. /\ msg.to = b /\ msg.body.type = "msg" /\ net' = net \ {msg} /\ task[b] = None
      /\ UNCHANGED <<from, db, incoming, unread, marking, receipts, linked, sync, lost,
                     had, raced, cut>>
      /\ IF Has(b, m) THEN MergeReads(b, m, reads)
                      ELSE WillPut(b, m, [reads |-> reads, blob |-> FALSE], FALSE)
  BY <1>1 DEF OnMessage, Receives, linkVars
<1>way. Way \ Way' \subseteq net \ net' /\ net' \subseteq Way'
  BY <1>3, WayOn
<1>4. m \in Msgs /\ reads \in SUBSET Browsers /\ TrueReads(m, reads)
  <2>1. msg.body \in Body /\ Carries(msg.body)
    BY <1>2, <1>3 DEF Types, Carries
  <2> QED
    BY <1>1, <1>2, <2>1, CarriesFields DEF TrueFacts, NetTrue
<1>5. Inv'
  BY <1>2, OnMessageInv
<1>6. /\ NewTask(b, m)
      /\ \A x \in reads : \/ Has(b, m) /\ x \in db[b][m].reads
                          \/ Doing(b, m)' /\ x \in task'[b].rec.reads
      /\ Has(b, m) \/ Doing(b, m)'
  <2>1. CASE Has(b, m)
    BY <1>2, <1>3, <1>4, <2>1, Merged DEF Doing
  <2>2. CASE ~Has(b, m)
    <3>1. PICK rec : rec = [reads |-> reads, blob |-> FALSE]
      OBVIOUS
    <3>2. rec \in Record /\ rec.reads = reads /\ rec.blob = FALSE
      BY <1>4, <3>1 DEF Record
    <3>3. /\ task'[b] # None /\ task'[b].id = m /\ task'[b].rec = rec /\ task'[b].finish = FALSE
          /\ \A x \in Browsers \ {b} : task'[x] = task[x]
      BY <1>2, <1>3, <1>4, <2>2, <3>1, <3>2, WillPutLemma
    <3> QED
      BY <1>4, <3>2, <3>3 DEF NewTask, Doing, TrueRecord
  <2> QED
    BY <2>1, <2>2
<1>7. ASSUME m \in Files PROVE ContentsAt(b, m)'
  <2>1. ContentsAt(b, m) /\ Kept
    BY <1>2, <1>3, <1>7, SameKeeps DEF Contents
  <2>2. ~Doing(b, m)
    BY <1>3 DEF Doing
  <2>3. msg.from \in Browsers /\ Brings(msg, msg.from, b, m)
    BY <1>1, <1>2, <1>3 DEF Types, Brings
  <2>4. /\ \A n \in Way \ Way' :
             ~(n.to = b /\ n.body.type \in {"file-meta", "file-chunk"} /\ n.body.id = m)
        /\ net' \subseteq net
    BY <1>3, <1>way
  <2> QED
    BY <1>3, <1>7, <2>1, <2>2, <2>3, <2>4, ContentsQuiet
<1>8. ASSUME m \in Files PROVE ~Complete(incoming'[b][m])
  BY <1>2, <1>3, <1>8 DEF Finishing, Doing
<1> QED
  BY <1>1, <1>3, <1>4, <1>5, <1>6, <1>7, <1>8, HandlerFull

LEMMA OnReadsFull ==
    ASSUME FullInv, NEW b \in Browsers, NEW msg \in net, OnReads(b, msg)
    PROVE  FullInv'
<1>1. PICK m, reads : m = msg.body.id /\ reads = msg.body.reads
  OBVIOUS
<1>2. Inv /\ Types /\ LinkFacts /\ TrueFacts /\ Contents /\ Finishing /\ Told
  BY DEF FullInv, Inv
<1>3. /\ msg.to = b /\ msg.body.type = "reads" /\ net' = net \ {msg} /\ task[b] = None
      /\ UNCHANGED <<from, db, incoming, unread, marking, receipts, linked, sync, lost,
                     had, raced, cut>>
      /\ MergeReads(b, m, reads)
  BY <1>1 DEF OnReads, Receives, linkVars
<1>way. Way \ Way' \subseteq net \ net' /\ net' \subseteq Way'
  BY <1>3, WayOn
<1>4. m \in Msgs /\ reads \in SUBSET Browsers /\ TrueReads(m, reads)
  <2>1. msg.body \in Body /\ Carries(msg.body)
    BY <1>2, <1>3 DEF Types, Carries
  <2> QED
    BY <1>1, <1>2, <2>1, CarriesFields DEF TrueFacts, NetTrue
<1>5. Inv'
  BY <1>2, OnReadsInv
<1>6. /\ NewTask(b, m)
      /\ Has(b, m) => \A x \in reads : \/ x \in db[b][m].reads
                                       \/ Doing(b, m)' /\ x \in task'[b].rec.reads
      /\ Doing(b, m)' => Has(b, m)
  BY <1>2, <1>3, <1>4, Merged DEF Doing
<1>7. ASSUME m \in Files PROVE ContentsAt(b, m)'
  <2>1. ContentsAt(b, m) /\ Kept
    BY <1>2, <1>3, <1>7, SameKeeps DEF Contents
  <2>2. ~Doing(b, m) /\ (Has(b, m)' => Has(b, m))
    BY <1>3 DEF Doing, Has
  <2>3. /\ \A n \in Way \ Way' :
             ~(n.to = b /\ n.body.type \in {"file-meta", "file-chunk"} /\ n.body.id = m)
        /\ net' \subseteq net
    BY <1>3, <1>way
  <2> QED
    BY <1>3, <1>6, <1>7, <2>1, <2>2, <2>3, ContentsQuiet
<1>8. ASSUME m \in Files PROVE ~Complete(incoming'[b][m])
  BY <1>2, <1>3, <1>8 DEF Finishing, Doing
<1> QED
  BY <1>1, <1>3, <1>4, <1>5, <1>6, <1>7, <1>8, HandlerFull

-----------------------------------------------------------------------------
(* The files that are being received.                                       *)

LEMMA IncomingIs ==
    ASSUME NEW M, NEW P, NEW inc \in [meta : M, parts : P, got : Nat],
           NEW parts \in P, NEW got \in Nat
    PROVE  [inc EXCEPT !.parts = parts, !.got = got].meta = inc.meta
OBVIOUS

LEMMA EntryIs ==
    ASSUME NEW inc \in Entries
    PROVE  /\ inc # None
           /\ \A reads \in SUBSET Browsers :
                /\ [inc EXCEPT !.meta = reads] \in Entries
                /\ [inc EXCEPT !.meta = reads].meta = reads
                /\ [inc EXCEPT !.meta = reads].parts = inc.parts
           /\ \A i \in Chunks : NewPart(inc, i) =>
                /\ [inc EXCEPT !.parts = @ \cup {i}, !.got = @ + 1] \in Entries
                /\ [inc EXCEPT !.parts = @ \cup {i}, !.got = @ + 1].meta = inc.meta
                /\ [inc EXCEPT !.parts = @ \cup {i}, !.got = @ + 1].parts = inc.parts \cup {i}
<1> DEFINE M == {None} \cup SUBSET Browsers
           P == SUBSET Chunks
<1>1. /\ inc \in [meta : M, parts : P, got : Nat] /\ inc.parts \in P /\ inc.got \in Nat
      /\ \A i \in Chunks : inc.parts \cup {i} \in P
      /\ \A reads \in SUBSET Browsers : reads \in M
  BY DEF Entries, Incoming
<1>2. inc # None
  BY NoneAssumption DEF Entries
<1>3. PICK c : c \in Chunks
  BY BoundsAssumption
<1>4. {} \in SUBSET Browsers
  OBVIOUS
<1> HIDE DEF M, P
<1>5. ASSUME NEW reads \in SUBSET Browsers
      PROVE  /\ [inc EXCEPT !.meta = reads] \in Entries
             /\ [inc EXCEPT !.meta = reads].meta = reads
             /\ [inc EXCEPT !.meta = reads].parts = inc.parts
  BY <1>1, <1>3, EntryTypes, IncomingTypes
<1>6. ASSUME NEW i \in Chunks, NewPart(inc, i)
      PROVE  /\ [inc EXCEPT !.parts = @ \cup {i}, !.got = @ + 1] \in Entries
             /\ [inc EXCEPT !.parts = @ \cup {i}, !.got = @ + 1].meta = inc.meta
             /\ [inc EXCEPT !.parts = @ \cup {i}, !.got = @ + 1].parts = inc.parts \cup {i}
  <2>1. PICK parts \in P : parts = inc.parts \cup {i}
    BY <1>1
  <2>2. PICK got \in Nat : got = inc.got + 1
    BY <1>1
  <2>3. /\ [inc EXCEPT !.parts = parts, !.got = got].meta = inc.meta
        /\ [inc EXCEPT !.parts = parts, !.got = got].parts = parts
    BY <1>1, IncomingIs, IncomingTypes
  <2>4. [inc EXCEPT !.parts = @ \cup {i}, !.got = @ + 1] \in Entries
    BY <1>4, <1>6, EntryTypes
  <2> QED
    BY <2>1, <2>2, <2>3, <2>4
<1> QED
  BY <1>2, <1>5, <1>6

(* The step at which the last part or the meta comes.                       *)
LEMMA MaybeFinishFull ==
    ASSUME Types, TrueFacts, NEW b \in Browsers, NEW m \in Files, NEW inc \in Entries,
           task[b] = None, inc.meta # None => TrueReads(m, inc.meta), MaybeFinish(b, m, inc)
    PROVE  /\ NewTask(b, m)
           /\ \A x \in Browsers, y \in Files : (x # b \/ y # m) => incoming'[x][y] = incoming[x][y]
           /\ \/ incoming'[b][m] = None /\ Excused(b, m)' /\ Doing(b, m)'
              \/ incoming'[b][m] = inc /\ ~Complete(inc) /\ task'[b] = None
<1>1. CASE Complete(inc)
  <2>1. PICK rec : rec = WholeRecord(b, m, inc)
    OBVIOUS
  <2>2. m \in Msgs /\ inc.meta \in SUBSET Browsers /\ TrueReads(m, inc.meta)
    BY <1>1 DEF Complete, Entries, Incoming, Msgs
  <2>3. Has(b, m) => db[b][m].reads \in SUBSET Browsers /\ TrueReads(m, db[b][m].reads)
    BY <2>2 DEF Types, Has, Record, TrueFacts, StoredTrue, TrueRecord
  <2>4. /\ rec \in Record /\ rec.blob = TRUE
        /\ rec.reads = inc.meta \cup (IF Has(b, m) THEN db[b][m].reads ELSE {})
    BY <2>1, <2>2, <2>3 DEF WholeRecord, Record
  <2>5. TrueRecord(m, rec)
    BY <2>2, <2>3, <2>4 DEF TrueRecord, TrueReads
  <2>6. incoming' = [incoming EXCEPT ![b][m] = None] /\ WillPut(b, m, rec, FALSE)
    BY <1>1, <2>1 DEF MaybeFinish
  <2>7. /\ task'[b] # None /\ task'[b].id = m /\ task'[b].rec = rec /\ task'[b].finish = FALSE
        /\ \A x \in Browsers \ {b} : task'[x] = task[x]
    BY <2>2, <2>4, <2>6, WillPutLemma
  <2>8. NewTask(b, m)
    BY <2>5, <2>7 DEF NewTask
  <2>9. Excused(b, m)' /\ Doing(b, m)'
    BY <2>4, <2>7 DEF Excused, Doing
  <2> QED
    BY <2>6, <2>8, <2>9 DEF Types
<1>2. CASE ~Complete(inc)
  <2>1. incoming' = [incoming EXCEPT ![b][m] = inc] /\ task' = [task EXCEPT ![b] = None]
    BY <1>2 DEF MaybeFinish
  <2> QED
    BY <1>2, <2>1 DEF Types, NewTask
<1> QED
  BY <1>1, <1>2

LEMMA OnFileMetaFull ==
    ASSUME FullInv, NEW b \in Browsers, NEW msg \in net, OnFileMeta(b, msg)
    PROVE  FullInv'
<1>1. PICK m, reads : m = msg.body.id /\ reads = msg.body.reads
  OBVIOUS
<1>2. Inv /\ Types /\ Counted /\ LinkFacts /\ TrueFacts /\ Contents /\ Finishing /\ Told
  BY DEF FullInv, Inv
<1>3. /\ msg.to = b /\ msg.body.type = "file-meta" /\ net' = net \ {msg} /\ task[b] = None
      /\ UNCHANGED <<from, db, marking, receipts, linked, sync, lost, had, raced, cut>>
  BY <1>1 DEF OnFileMeta, Receives, linkVars
<1>way. Way \ Way' \subseteq net \ net' /\ net' \subseteq Way'
  BY <1>3, WayOn
<1>4. /\ m \in Files /\ m \in Msgs /\ reads \in SUBSET Browsers /\ TrueReads(m, reads)
      /\ msg.from \in Browsers
  <2>1. msg.body \in Body /\ Carries(msg.body) /\ msg.from \in Browsers
    BY <1>2, <1>3 DEF Types, Carries
  <2> QED
    BY <1>1, <1>2, <1>3, <2>1, CarriesFields, BodyFields DEF TrueFacts, NetTrue
<1>5. Inv'
  BY <1>2, OnFileMetaInv
<1>6. PICK old \in Entries : old = IF incoming[b][m] = None THEN NoParts ELSE incoming[b][m]
  BY <1>2, <1>4, CurrentEntry
<1>7. PICK meta : meta = IF Has(b, m) THEN db[b][m].reads ELSE reads
  OBVIOUS
<1>8. PICK inc : inc = [old EXCEPT !.meta = meta]
  OBVIOUS
<1>9. meta \in SUBSET Browsers /\ TrueReads(m, meta)
  BY <1>2, <1>4, <1>7 DEF Types, Has, Record, TrueFacts, StoredTrue, TrueRecord
<1>10. inc \in Entries /\ inc # None /\ inc.meta = meta /\ inc.meta # None /\ inc.parts = old.parts
  <2>1. /\ [old EXCEPT !.meta = meta] \in Entries /\ [old EXCEPT !.meta = meta].meta = meta
        /\ [old EXCEPT !.meta = meta].parts = old.parts
    BY <1>9, EntryIs
  <2>2. inc \in Entries /\ inc.meta = meta /\ inc.parts = old.parts
    BY <1>8, <2>1
  <2>3. meta # None
    BY <1>9, NoneAssumption
  <2>4. inc # None
    BY <2>2, EntryIs
  <2> QED
    BY <2>2, <2>3, <2>4
<1>11. \/ /\ HasBlob(b, m)
          /\ UNCHANGED <<incoming, task, unread>>
       \/ /\ Has(b, m) /\ ~HasBlob(b, m)
          /\ Render(b, m, inc.meta)
          /\ MaybeFinish(b, m, inc)
       \/ /\ ~Has(b, m)
          /\ incoming' = [incoming EXCEPT ![b][m] = inc]
          /\ WillPut(b, m, [reads |-> reads, blob |-> FALSE], TRUE)
          /\ UNCHANGED unread
  BY <1>1, <1>6, <1>7, <1>8 DEF OnFileMeta
<1>12. Kept
  BY <1>3, SameKeeps
<1>13. /\ NewTask(b, m)
       /\ \A x \in Browsers, y \in Files : (x # b \/ y # m) => incoming'[x][y] = incoming[x][y]
       /\ Has(b, m) \/ Doing(b, m)'
       /\ \A x \in Browsers : \A y \in unread'[x] : y \in unread[x] \/ from[y] \notin {x, None}
       /\ \/ incoming' = incoming /\ Excused(b, m)'
          \/ incoming'[b][m] = None /\ Excused(b, m)'
          \/ incoming'[b][m] = inc /\ (Complete(inc) => Doing(b, m)' /\ task'[b].finish)
  <2>1. CASE HasBlob(b, m) /\ UNCHANGED <<incoming, task, unread>>
    <3>1. Has(b, m) /\ HasBlob(b, m)'
      BY <1>3, <2>1 DEF HasBlob, Has
    <3> QED
      BY <1>3, <2>1, <3>1 DEF NewTask, Excused
  <2>2. CASE Has(b, m) /\ Render(b, m, inc.meta) /\ MaybeFinish(b, m, inc)
    <3>1. \A x \in Browsers : \A y \in unread'[x] : y \in unread[x] \/ from[y] \notin {x, None}
      BY <1>2, <1>4, <2>2, RenderLemma DEF TrueReads
    <3> QED
      BY <1>2, <1>3, <1>4, <1>9, <1>10, <2>2, <3>1, MaybeFinishFull
  <2>3. CASE /\ ~Has(b, m)
             /\ incoming' = [incoming EXCEPT ![b][m] = inc]
             /\ WillPut(b, m, [reads |-> reads, blob |-> FALSE], TRUE)
             /\ UNCHANGED unread
    <3>1. PICK rec : rec = [reads |-> reads, blob |-> FALSE]
      OBVIOUS
    <3>2. rec \in Record /\ rec.reads = reads /\ rec.blob = FALSE
      BY <1>4, <3>1 DEF Record
    <3>3. /\ task'[b] # None /\ task'[b].id = m /\ task'[b].rec = rec /\ task'[b].finish = TRUE
          /\ \A x \in Browsers \ {b} : task'[x] = task[x]
      BY <1>2, <1>4, <2>3, <3>1, <3>2, WillPutLemma
    <3>4. NewTask(b, m) /\ Doing(b, m)'
      BY <1>4, <3>2, <3>3 DEF NewTask, Doing, TrueRecord
    <3>5. /\ \A x \in Browsers, y \in Files : (x # b \/ y # m) => incoming'[x][y] = incoming[x][y]
          /\ incoming'[b][m] = inc
      BY <1>2, <1>4, <2>3 DEF Types
    <3> QED
      BY <2>3, <3>3, <3>4, <3>5
  <2> QED
    BY <1>11, <2>1, <2>2, <2>3
<1>14. ContentsAt(b, m)'
  <2>1. CASE Excused(b, m)'
    BY <2>1 DEF ContentsAt
  <2>2. CASE incoming'[b][m] = inc
    <3>1. ContentsAt(b, m) /\ ~Doing(b, m)
      BY <1>2, <1>3, <1>4 DEF Contents, Doing
    <3>2. Excused(b, m) => Excused(b, m)'
      BY <1>4, <1>12, <3>1, ExcusedKept
    <3>3. HasMeta(b, m)' /\ \A i \in Chunks : HasPart(b, m, i) => HasPart(b, m, i)'
      BY <1>6, <1>10, <2>2 DEF HasMeta, HasPart
    <3>4. ASSUME NEW c \in Browsers, Gathering(c, b, m) PROVE Gathering(c, b, m)'
      <4>1. \A n \in Way, i \in Chunks : IsPart(n, c, b, m, i) => n \in Way'
        BY <1>3, <1>way DEF IsPart
      <4> QED
        BY <1>4, <3>3, <3>4, <4>1, GatheringKept
    <3>5. Brings(msg, msg.from, b, m)
      BY <1>1, <1>3 DEF Brings
    <3>6. \A c \in Browsers : (\E n \in net' : Brings(n, c, b, m)) => \E n \in net : Brings(n, c, b, m)
      BY <1>3
    <3> QED
      BY <1>4, <3>1, <3>2, <3>4, <3>5, <3>6, ContentsKept
  <2> QED
    BY <1>13, <2>1, <2>2
<1>15. Complete(incoming'[b][m]) => Doing(b, m)' /\ task'[b].finish
  <2>1. ~Complete(incoming[b][m]) /\ ~Complete(None)
    BY <1>2, <1>3, <1>4 DEF Finishing, Doing, Complete
  <2> QED
    BY <1>13, <2>1
<1>16. \/ incoming'[b][m] = None \/ incoming'[b][m].meta = None
       \/ incoming[b][m] # None /\ incoming'[b][m].meta = incoming[b][m].meta
       \/ TrueReads(m, incoming'[b][m].meta)
  BY <1>9, <1>10, <1>13
<1> QED
  BY <1>1, <1>2, <1>3, <1>4, <1>5, <1>13, <1>14, <1>15, <1>16, HandlerFull

LEMMA OnFileChunkFull ==
    ASSUME FullInv, NEW b \in Browsers, NEW msg \in net, OnFileChunk(b, msg)
    PROVE  FullInv'
<1>1. PICK m, i : m = msg.body.id /\ i = msg.body.i
  OBVIOUS
<1>2. Inv /\ Types /\ Counted /\ LinkFacts /\ TrueFacts /\ Contents /\ Finishing /\ Told
  BY DEF FullInv, Inv
<1>3. /\ msg.to = b /\ msg.body.type = "file-chunk" /\ net' = net \ {msg} /\ task[b] = None
      /\ UNCHANGED <<from, db, unread, marking, receipts, linked, sync, lost, had,
                     raced, cut>>
  BY <1>1 DEF OnFileChunk, Receives, linkVars
<1>way. Way \ Way' \subseteq net \ net' /\ net' \subseteq Way'
  BY <1>3, WayOn
<1>4. m \in Files /\ m \in Msgs /\ i \in Chunks
  <2>1. msg.body \in Body
    BY <1>2 DEF Types
  <2> QED
    BY <1>1, <1>3, <2>1, BodyFields DEF Msgs
<1>5. Inv'
  BY <1>2, OnFileChunkInv
<1>6. PICK inc \in Entries : inc = IF incoming[b][m] = None THEN NoParts ELSE incoming[b][m]
  BY <1>2, <1>4, CurrentEntry
<1>7. PICK new : new = [inc EXCEPT !.parts = @ \cup {i}, !.got = @ + 1]
  OBVIOUS
<1>8. NewPart(inc, i) =>
        /\ new \in Entries /\ new # None
        /\ new.meta = inc.meta /\ new.parts = inc.parts \cup {i}
  BY <1>4, <1>7, EntryIs
<1>9. \/ incoming[b][m] = None /\ HasBlob(b, m) /\ incoming' = incoming /\ task' = task
      \/ ~NewPart(inc, i) /\ incoming' = incoming /\ task' = task
      \/ NewPart(inc, i) /\ MaybeFinish(b, m, new)
  BY <1>1, <1>6, <1>7 DEF OnFileChunk
<1>10. Kept
  BY <1>3, SameKeeps
<1>11. inc.meta # None =>
         incoming[b][m] # None /\ inc.meta = incoming[b][m].meta /\ TrueReads(m, inc.meta)
  BY <1>2, <1>4, <1>6 DEF NoParts, TrueFacts, MetaTrue
<1>12. /\ NewTask(b, m)
       /\ \A x \in Browsers, y \in Files : (x # b \/ y # m) => incoming'[x][y] = incoming[x][y]
       /\ \/ incoming' = incoming /\ Excused(b, m)'
          \/ incoming' = incoming /\ task' = task /\ HasPart(b, m, i)'
          \/ incoming'[b][m] = None /\ Excused(b, m)'
          \/ /\ incoming'[b][m] = new /\ ~Complete(new) /\ task'[b] = None
             /\ new # None /\ new.meta = inc.meta /\ new.parts = inc.parts \cup {i}
  <2>1. CASE HasBlob(b, m) /\ incoming' = incoming /\ task' = task
    <3>1. HasBlob(b, m)'
      BY <1>3, <2>1 DEF HasBlob, Has
    <3> QED
      BY <1>3, <2>1, <3>1 DEF NewTask, Excused
  <2>2. CASE ~NewPart(inc, i) /\ incoming' = incoming /\ task' = task
    <3>1. HasPart(b, m, i)'
      BY <1>6, <2>2 DEF NewPart, NoParts, HasPart
    <3> QED
      BY <1>3, <2>2, <3>1 DEF NewTask
  <2>3. CASE NewPart(inc, i) /\ MaybeFinish(b, m, new)
    <3>1. new.meta # None => TrueReads(m, new.meta)
      BY <1>8, <1>11, <2>3
    <3> QED
      BY <1>2, <1>3, <1>4, <1>8, <2>3, <3>1, MaybeFinishFull
  <2> QED
    BY <1>9, <2>1, <2>2, <2>3
<1>13. ContentsAt(b, m)'
  <2>1. CASE Excused(b, m)'
    BY <2>1 DEF ContentsAt
  <2>2. CASE /\ HasPart(b, m, i)' /\ task'[b] = None
             /\ HasMeta(b, m) => HasMeta(b, m)'
             /\ \A j \in Chunks : HasPart(b, m, j) => HasPart(b, m, j)'
    <3>1. ContentsAt(b, m) /\ ~Doing(b, m) /\ ~Doing(b, m)'
      BY <1>2, <1>3, <1>4, <2>2 DEF Contents, Doing
    <3>2. Excused(b, m) => Excused(b, m)'
      BY <1>4, <1>10, <3>1, ExcusedKept
    <3>3. ASSUME NEW c \in Browsers, Gathering(c, b, m) PROVE Gathering(c, b, m)'
      <4>1. \A n \in Way : IsMeta(n, c, b, m) => n \in Way'
        BY <1>3, <1>way DEF IsMeta
      <4>2. \A n \in Way, j \in Chunks : IsPart(n, c, b, m, j) => n \in Way' \/ HasPart(b, m, j)'
        <5> TAKE n \in Way, j \in Chunks
        <5>1. (n = msg /\ IsPart(n, c, b, m, j)) => j = i
          BY <1>1 DEF IsPart
        <5> QED
          BY <1>3, <1>way, <2>2, <5>1
      <4> QED
        BY <1>4, <2>2, <3>3, <4>1, <4>2, GatheringKept
    <3>4. Has(b, m)' => Has(b, m)
      BY <1>3 DEF Has
    <3>5. \A c \in Browsers : (\E n \in net' : Brings(n, c, b, m)) => \E n \in net : Brings(n, c, b, m)
      BY <1>3
    <3> QED
      BY <1>4, <3>1, <3>2, <3>3, <3>4, <3>5, ContentsKept
  <2>3. CASE incoming' = incoming /\ task' = task /\ HasPart(b, m, i)'
    BY <1>3, <2>2, <2>3 DEF HasMeta, HasPart
  <2>4. CASE /\ incoming'[b][m] = new /\ task'[b] = None
             /\ new # None /\ new.meta = inc.meta /\ new.parts = inc.parts \cup {i}
    <3>1. HasPart(b, m, i)' /\ \A j \in Chunks : HasPart(b, m, j) => HasPart(b, m, j)'
      BY <1>6, <2>4 DEF HasPart
    <3>2. HasMeta(b, m) => HasMeta(b, m)'
      BY <1>6, <2>4 DEF HasMeta
    <3> QED
      BY <2>2, <2>4, <3>1, <3>2
  <2> QED
    BY <1>12, <2>1, <2>3, <2>4
<1>14. ~Complete(incoming'[b][m])
  <2>1. ~Complete(incoming[b][m]) /\ ~Complete(None)
    BY <1>2, <1>3, <1>4 DEF Finishing, Doing, Complete
  <2> QED
    BY <1>12, <2>1
<1>15. \/ incoming'[b][m] = None \/ incoming'[b][m].meta = None
       \/ incoming[b][m] # None /\ incoming'[b][m].meta = incoming[b][m].meta
       \/ TrueReads(m, incoming'[b][m].meta)
  BY <1>11, <1>12
<1> QED
  BY <1>1, <1>3, <1>4, <1>5, <1>12, <1>13, <1>14, <1>15, HandlerFull

-----------------------------------------------------------------------------
(* The invariant.                                                           *)

LEMMA InitFull == Init => FullInv
<1> SUFFICES ASSUME Init PROVE FullInv
  OBVIOUS
<1>1. Inv
  BY InitInv
<1>2. /\ net = {} /\ linked = {} /\ raced = {}
      /\ \A p \in Pairs : sync[p] = "none"
      /\ \A m \in Msgs : ~Sent(m)
      /\ \A b \in Browsers, m \in Msgs : ~Has(b, m) /\ ~Doing(b, m)
      /\ \A b \in Browsers : task[b] = None /\ unread[b] = {} /\ marking[b] = {} /\ receipts[b] = {}
      /\ \A b \in Browsers, m \in Files : incoming[b][m] = None
      /\ \A p \in Pairs, m \in Msgs : had[p][m] = None
  BY DEF Init, Sent, Has, Doing
<1>3. LinkFacts
  <2>1. had \in [Pairs -> [Msgs -> Record \cup {None}]]
    BY DEF Init
  <2> QED
    BY <1>2, <2>1 DEF LinkFacts
<1>4. TrueFacts
  BY <1>2 DEF TrueFacts, StoredTrue, TasksTrue, MarksTrue, HadTrue, MetaTrue, NetTrue
<1>5. Contents /\ Finishing
  BY <1>2 DEF Contents, ContentsAt, Finishing, Complete, Msgs
<1>6. Told
  <2> SUFFICES ASSUME NEW a \in Browsers, NEW b \in Browsers, a # b PROVE ToldAt(a, b)
    BY DEF Told
  <2>1. <<b, a>> \in Pairs
    BY DEF Pairs
  <2> QED
    BY <1>2, <2>1 DEF ToldAt, PresenceAt, OldReceiptsAt, OwnReceiptsAt, Asked
<1> QED
  BY <1>1, <1>3, <1>4, <1>5, <1>6 DEF FullInv

LEMMA StutterFull ==
    ASSUME FullInv, UNCHANGED vars
    PROVE  FullInv'
<1>1. UNCHANGED <<from, db, incoming, task, unread, marking, receipts, linked, sync,
                  net, lost,
                  raced, cut, had, drops>>
  BY DEF vars
<1>way. Way \ Way' \subseteq net \ net' /\ net' \subseteq Way'
  BY <1>1, WayOn
<1>2. Inv /\ Types /\ LinkFacts /\ TrueFacts /\ Contents /\ Finishing /\ Told
  BY DEF FullInv, Inv
<1>3. Inv' /\ Kept
  BY <1>1, <1>2, StutterInv, SameKeeps
<1>4. LinkFacts'
  BY <1>1, <1>2, <1>3, LinkQuiet
<1>5. TrueFacts'
  BY <1>1, <1>2, <1>3, TrueNet, HadKept, NetKept DEF TrueFacts
<1>6. Contents' /\ Finishing'
  BY <1>1, <1>2, <1>3, <1>way, ContentsSame, FinishingKept
<1>7. Told'
  <2> SUFFICES ASSUME NEW a \in Browsers, NEW b \in Browsers, a # b PROVE ToldAt(a, b)'
    BY DEF Told
  <2>1. ToldAt(a, b)
    BY <1>2 DEF Told
  <2> QED
    BY <1>1, <1>3, <1>way, <2>1, ToldSame DEF Asked, Requested
<1> QED
  BY <1>3, <1>4, <1>5, <1>6, <1>7 DEF FullInv

LEMMA NextFull == FullInv /\ [Next]_vars => FullInv'
<1> SUFFICES ASSUME FullInv, [Next]_vars PROVE FullInv'
  OBVIOUS
<1>1. CASE Next
  BY <1>1, SendFull, BeginReadFull, EndReadFull, FlushReadsFull, OnMessageFull, OnReadsFull,
     OnFileMetaFull, OnFileChunkFull, EndTaskFull, AskFull, AnswerFull, OnHistoryEndFull,
     LinkFull, UnlinkFull, ChannelClosesFull, ReloadFull DEF Next
<1> QED
  BY <1>1, StutterFull

(* What has been put, asked and read is true; what is missing is under way  *)
(* or excused: in every reachable state of every instance.                  *)
THEOREM FullInvariance == Spec => []FullInv
<1>1. Init => FullInv
  BY InitFull
<1>2. FullInv /\ [Next]_vars => FullInv'
  BY NextFull
<1> QED
  BY <1>1, <1>2, PTL DEF Spec

LEMMA FilledGaps == FullInv => GapsFill
<1> SUFFICES ASSUME FullInv, NEW a \in Browsers, NEW b \in Browsers, a # b, Settled(a, b),
                    NEW m \in Msgs, Offered(a, b, m) # None
             PROVE  /\ Has(b, m) \/ LostRecord(a, b, m)
                    /\ (Has(b, m) /\ Offered(a, b, m).blob) =>
                         (HasBlob(b, m) \/ <<b, m>> \in cut \/ Raced(a, b, m) \/ LostPart(b, m))
  BY DEF GapsFill
<1>1. /\ LinkFacts /\ TrueFacts /\ Contents /\ Finishing /\ ToldAt(a, b)
      /\ Inv /\ Types /\ Counted
  BY DEF FullInv, Inv, Told
<1>2. net = {} /\ task[b] = None /\ sync[<<b, a>>] # "none" /\ <<a, b>> \in Pairs /\ Way = lost
  BY DEF Settled, Pairs, Way
<1>3. Offers(a, b, m)
  BY DEF Offered, Offers
<1>4. ~Doing(b, m)
  BY <1>2 DEF Doing
<1>5. Has(b, m) \/ LostRecord(a, b, m)
  <2>1. Coming(a, b, m) \/ Requested(b, a)
    BY <1>1, <1>2, <1>3 DEF ToldAt, PresenceAt, Asked
  <2> QED
    BY <1>2, <1>4, <2>1 DEF Coming, Requested, Brings, LostRecord
<1>6. ASSUME Has(b, m), Offered(a, b, m).blob
      PROVE  HasBlob(b, m) \/ <<b, m>> \in cut \/ Raced(a, b, m) \/ LostPart(b, m)
  <2>1. m \in Files
    <3>1. CASE from[m] = a
      <4>1. db[a][m] # None /\ db[a][m].blob
        BY <1>6, <3>1 DEF Offered
      <4> QED
        BY <1>1, <4>1 DEF TrueFacts, StoredTrue, Has, TrueRecord
    <3>2. CASE from[m] # a
      <4>1. had[<<a, b>>][m] # None /\ had[<<a, b>>][m].blob
        BY <1>6, <3>2 DEF Offered
      <4> QED
        BY <1>1, <1>2, <4>1 DEF TrueFacts, HadTrue, TrueRecord
    <3> QED
      BY <3>1, <3>2
  <2>2. Excused(b, m) \/ \E c \in Browsers : Gathering(c, b, m)
    BY <1>1, <1>6, <2>1 DEF Contents, ContentsAt
  <2>3. CASE Excused(b, m)
    BY <1>4, <2>3 DEF Excused, Raced
  <2>4. ASSUME NEW c \in Browsers, Gathering(c, b, m), ~LostPart(b, m) PROVE FALSE
    <3>1. HasMeta(b, m) /\ \A i \in Chunks : HasPart(b, m, i)
      <4>1. /\ \A msg \in lost : ~IsMeta(msg, c, b, m)
            /\ \A msg \in lost, i \in Chunks : ~IsPart(msg, c, b, m, i)
        BY <2>4 DEF LostPart, IsMeta, IsPart
      <4> QED
        BY <1>2, <2>4, <4>1 DEF Gathering, MetaComes, PartComes
    <3>2. /\ incoming[b][m] # None /\ incoming[b][m].meta # None
          /\ incoming[b][m] \in Incoming /\ incoming[b][m].got = Cardinality(incoming[b][m].parts)
      BY <1>1, <2>1, <3>1 DEF HasMeta, Types, Counted, CountOK
    <3>3. incoming[b][m].parts \subseteq Chunks /\ incoming[b][m].got \in Nat
      BY <3>2 DEF Incoming
    <3>4. incoming[b][m].parts = Chunks
      BY <3>1, <3>3 DEF HasPart
    <3>5. Complete(incoming[b][m])
      BY <3>2, <3>3, <3>4 DEF Complete
    <3> QED
      BY <1>1, <1>4, <2>1, <3>5 DEF Finishing
  <2> QED
    BY <2>2, <2>3, <2>4
<1> QED
  BY <1>5, <1>6

(* What one browser has to tell another, sendHistory and the messages since *)
(* do tell it: once both have asked and nothing is under way, the gaps are  *)
(* filled, whatever was lost with a connection or a page before, except     *)
(* those left by messages that a data channel took with it as it closed in  *)
(* this connection (room.js sends them no second time), and files that were *)
(* cut off or overwritten.                                                  *)
THEOREM GapsFillHolds == Spec => []GapsFill
<1>1. Spec => []FullInv
  BY FullInvariance
<1>2. FullInv => GapsFill
  BY FilledGaps
<1> QED
  BY <1>1, <1>2, PTL

LEMMA AgreedReceipts == FullInv => ReceiptsAgree
<1> SUFFICES ASSUME FullInv, NEW a \in Browsers, NEW b \in Browsers, a # b, Settled(a, b),
                    NEW m \in Msgs, ~Raced(a, b, m)
             PROVE  /\ had[<<a, b>>][m] # None =>
                         had[<<a, b>>][m].reads \subseteq ReadsAt(b, m) \cup LostReads(a, b, m)
                    /\ Offered(b, a, m) # None =>
                         /\ a \in ReadsAt(a, m) => a \in ReadsAt(b, m) \cup LostReads(a, b, m)
                         /\ a \in ReadsAt(b, m) => a \in ReadsAt(a, m)
  BY DEF ReceiptsAgree
<1>1. LinkFacts /\ TrueFacts /\ ToldAt(a, b) /\ Inv /\ Types
  BY DEF FullInv, Inv, Told
<1>2. /\ net = {} /\ task[b] = None /\ receipts[a] = {} /\ Way = lost
      /\ sync[<<b, a>>] # "none" /\ sync[<<a, b>>] # "none"
      /\ <<a, b>> \in Pairs /\ <<b, a>> \in Pairs
  BY DEF Settled, Pairs, Way
<1>3. <<a, m>> \notin raced /\ <<b, m>> \notin raced
  BY DEF Raced
<1>4. <<a, b>> \in linked
  BY <1>1, <1>2 DEF LinkFacts
<1>5. ASSUME NEW x \in Browsers, Carried(a, b, m, x)
      PROVE  x \in ReadsAt(b, m) \cup LostReads(a, b, m)
  <2>1. CASE Has(b, m) /\ x \in db[b][m].reads
    BY <2>1 DEF ReadsAt
  <2>2. ASSUME NEW msg \in lost, Tells(msg, a, b, m, x) PROVE x \in LostReads(a, b, m)
    <3>1. /\ msg.from = a /\ msg.to = b /\ msg.body.type \in {"msg", "reads"} /\ msg.body.id = m
          /\ x \in msg.body.reads
      BY <2>2 DEF Tells
    <3> QED
      BY <3>1 DEF LostReads
  <2> QED
    BY <1>2, <1>3, <1>5, <2>1, <2>2 DEF Carried, Doing
<1>6. ASSUME NEW x \in Browsers, HadThen(a, b, m, x)
      PROVE  x \in ReadsAt(b, m) \cup LostReads(a, b, m)
  <2>1. Carried(a, b, m, x) \/ Requested(b, a)
    BY <1>1, <1>2, <1>3, <1>6 DEF ToldAt, OldReceiptsAt, Asked
  <2> QED
    BY <1>2, <1>5, <2>1 DEF Requested
<1>7. had[<<a, b>>][m] # None =>
        had[<<a, b>>][m].reads \subseteq ReadsAt(b, m) \cup LostReads(a, b, m)
  <2>1. had[<<a, b>>][m] # None => had[<<a, b>>][m].reads \subseteq Browsers
    BY <1>1, <1>2 DEF LinkFacts, Record
  <2> QED
    BY <1>6, <2>1 DEF HadThen
<1>8. ASSUME Offered(b, a, m) # None, a \in ReadsAt(a, m)
      PROVE  a \in ReadsAt(b, m) \cup LostReads(a, b, m)
  <2>1. Offers(b, a, m)
    BY <1>8 DEF Offered, Offers
  <2>2. HasRead(a, m)
    BY <1>8 DEF ReadsAt, HasRead
  <2>3. Carried(a, b, m, a) \/ HadThen(a, b, m, a)
    BY <1>1, <1>2, <1>3, <1>4, <2>1, <2>2 DEF ToldAt, OwnReceiptsAt
  <2> QED
    BY <1>5, <1>6, <2>3
<1>9. ASSUME a \in ReadsAt(b, m) PROVE a \in ReadsAt(a, m)
  <2>1. Has(b, m) /\ a \in db[b][m].reads
    BY <1>9 DEF ReadsAt
  <2>2. ReadBy(a, m)
    BY <1>1, <2>1 DEF TrueFacts, StoredTrue, TrueRecord, TrueReads
  <2> QED
    BY <1>3, <2>2 DEF ReadBy, ReadsAt
<1> QED
  BY <1>7, <1>8, <1>9

(* Receipts are not lost between two browsers, unless in an overlapping put *)
(* or, until the next connection, in a data channel that closes: those of   *)
(* the records held at the connection come with sendHistory (KnownReads),   *)
(* later ones with the messages of markRead, and no browser counts a        *)
(* receipt its reader does not.                                             *)
THEOREM ReceiptsAgreeHolds == Spec => []ReceiptsAgree
<1>1. Spec => []FullInv
  BY FullInvariance
<1>2. FullInv => ReceiptsAgree
  BY AgreedReceipts
<1> QED
  BY <1>1, <1>2, PTL
=============================================================================
