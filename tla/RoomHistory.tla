----------------------------- MODULE RoomHistory -----------------------------
(***************************************************************************)
(* The timeline of a room (src/web/static/room.js): every browser keeps the *)
(* messages and files in IndexedDB, with the read receipts; peers send each *)
(* other new ones as they are written and, on every connection, whatever    *)
(* the other one lacks.                                                     *)
(*                                                                          *)
(* Handlers of received messages run one at a time (inQueue), but each      *)
(* reads a record, waits, and puts the whole record back; markRead does the *)
(* same outside the queue.  A handler is therefore taken apart into the     *)
(* step that reads and the step that puts, and what it is about to put is   *)
(* its task.  Messages may overtake each other, as they do when a peer      *)
(* changes from the relay to a data channel.  They are lost with the        *)
(* connection, and some of them with a data channel that closes while the   *)
(* peers stay connected and go on by relay.                                 *)
(*                                                                          *)
(* Browsers hold the same room key and show one page each.  A record is     *)
(* reduced to its receipts and whether it has the file's contents.  The     *)
(* limits on the history compared (1000 messages, files of 20 MB) are out   *)
(* of reach, and nobody clears the history.                                 *)
(***************************************************************************)
EXTENDS Integers, FiniteSets

CONSTANTS
    Browsers,
    Texts, Files,  \* the messages that are sent
    Chunks,        \* chunks of a file
    None,
    MaxDrops,      \* bound of the model: lost connections and reloads
    MaxSends,      \* bound of the model: messages sent
    ClosesWith     \* bound of the model: while the peers stay connected, data
                   \* channels close only if no other messages have been sent

Msgs == Texts \cup Files

ASSUME NamesAssumption == Texts \cap Files = {} /\ None \notin Browsers
ASSUME BoundsAssumption ==
    /\ MaxDrops \in Nat /\ MaxSends \in Nat /\ ClosesWith \subseteq Msgs
    /\ IsFiniteSet(Chunks) /\ Chunks # {}

Record == [reads : SUBSET Browsers, blob : BOOLEAN]
Incoming == [meta : {None} \cup SUBSET Browsers, parts : SUBSET Chunks, got : Nat]
Task == [id : Msgs, rec : Record, finish : BOOLEAN, stale : BOOLEAN]
Pairs == {p \in Browsers \X Browsers : p[1] # p[2]}

(* None is told from whatever may be there instead.                         *)
ASSUME NoneAssumption ==
    /\ None \notin Record /\ None \notin Incoming /\ None \notin Task
    /\ \A reads \in SUBSET Browsers : reads # None

VARIABLES
    from,      \* who sent each message
    db,        \* IndexedDB
    incoming,  \* files being received: receipts of the meta, parts, count
    task,      \* the record the running handler will put, whether maybeFinish
               \* follows and (history) whether a markRead has come in between
    unread,    \* messages shown and not read
    marking,   \* markRead: records read from the database, not put back yet
    receipts,  \* pendingReads
    linked,    \* pairs of browsers with a connection
    sync,      \* syncWith of the one for the other: to do, asked, done
    net,       \* messages under way
    closed,    \* pairs whose data channel has closed at the first one's end
    lost,      \* history: what such a channel took with it
    raced,     \* history: records put over a change made since they were read
    cut,       \* history: files that came without their contents: the transfer
               \* was interrupted, or the one who told of it did not have them
    had,       \* history: what a browser held when it was connected to another
    drops

pageVars == <<incoming, task, unread, marking, receipts>>
linkVars == <<linked, sync, closed, lost, had, drops>>
vars == <<from, db, incoming, task, unread, marking, receipts, linked, sync, net,
          closed, lost, raced, cut, had, drops>>

Init ==
    /\ from = [m \in Msgs |-> None]
    /\ db = [b \in Browsers |-> [m \in Msgs |-> None]]
    /\ incoming = [b \in Browsers |-> [m \in Files |-> None]]
    /\ task = [b \in Browsers |-> None]
    /\ unread = [b \in Browsers |-> {}]
    /\ marking = [b \in Browsers |-> {}]
    /\ receipts = [b \in Browsers |-> {}]
    /\ linked = {}
    /\ sync = [p \in Pairs |-> "none"]
    /\ net = {}
    /\ closed = {}
    /\ lost = {}
    /\ raced = {}
    /\ cut = {}
    /\ had = [p \in Pairs |-> [m \in Msgs |-> None]]
    /\ drops = 0

-----------------------------------------------------------------------------
(* Records and messages.                                                    *)

Has(b, m) == db[b][m] # None
HasBlob(b, m) == Has(b, m) /\ db[b][m].blob

Peers(b) == {x \in Browsers : <<b, x>> \in linked}

Messages(b, to, body) == {[from |-> b, to |-> x, body |-> m] : x \in to, m \in body}

RecordOf(m, reads) == [type |-> "msg", id |-> m, reads |-> reads]
ReadsOf(m, reads) == [type |-> "reads", id |-> m, reads |-> reads]

(* sendFile: the meta and the chunks.                                       *)
FileOf(m, reads) ==
    {[type |-> "file-meta", id |-> m, reads |-> reads]}
      \cup {[type |-> "file-chunk", id |-> m, i |-> i] : i \in Chunks}

(* put; what changed since the record was read is lost.                     *)
Overwrites(b, m, rec) ==
    Has(b, m) /\ (~(db[b][m].reads \subseteq rec.reads) \/ (db[b][m].blob /\ ~rec.blob))

Put(b, m, rec) ==
    /\ db' = [db EXCEPT ![b][m] = rec]
    /\ raced' = IF Overwrites(b, m, rec) THEN raced \cup {<<b, m>>} ELSE raced

(* renderMessage: of others' messages, the unread ones are watched.         *)
Render(b, m, reads) ==
    unread' = [unread EXCEPT ![b] =
                 IF from[m] # b /\ b \notin reads THEN @ \cup {m} ELSE @]

-----------------------------------------------------------------------------
(* sendText and sendFiles.                                                  *)
Send(b, m) ==
    /\ from[m] = None
    /\ Cardinality({x \in Msgs : from[x] # None}) < MaxSends
    /\ closed # {} => m \in ClosesWith
    /\ from' = [from EXCEPT ![m] = b]
    /\ Put(b, m, [reads |-> {}, blob |-> m \in Files])
    /\ net' = net \cup Messages(b, Peers(b), IF m \in Files THEN FileOf(m, {})
                                                            ELSE {RecordOf(m, {})})
    /\ UNCHANGED <<pageVars, linkVars, cut>>

(* markRead: the record is read; it is put back with the receipt; somewhat  *)
(* later everybody is told.                                                 *)
BeginRead(b, m) ==
    /\ m \in unread[b]
    /\ unread' = [unread EXCEPT ![b] = @ \ {m}]
    /\ marking' = [marking EXCEPT ![b] =
                     IF Has(b, m) THEN @ \cup {[id |-> m, rec |-> db[b][m]]} ELSE @]
    /\ UNCHANGED <<from, db, incoming, task, receipts, linkVars, net, raced, cut>>

EndRead(b, r) ==
    /\ r \in marking[b]
    /\ marking' = [marking EXCEPT ![b] = @ \ {r}]
    /\ Put(b, r.id, [r.rec EXCEPT !.reads = @ \cup {b}])
    /\ receipts' = [receipts EXCEPT ![b] = @ \cup {r.id}]
    /\ task' = [task EXCEPT ![b] = IF @ # None /\ @.id = r.id
                                   THEN [@ EXCEPT !.stale = TRUE] ELSE @]
    /\ UNCHANGED <<from, incoming, unread, linkVars, net, cut>>

FlushReads(b) ==
    /\ receipts[b] # {}
    /\ receipts' = [receipts EXCEPT ![b] = {}]
    /\ net' = net \cup Messages(b, Peers(b), {ReadsOf(m, {b}) : m \in receipts[b]})
    /\ UNCHANGED <<from, db, incoming, task, unread, marking, linkVars, raced, cut>>

-----------------------------------------------------------------------------
(* Handlers.                                                                *)

Receives(b, msg, type) ==
    /\ msg \in net /\ msg.to = b /\ msg.body.type = type
    /\ task[b] = None
    /\ net' = net \ {msg}

WillPut(b, m, rec, finish) ==
    task' = [task EXCEPT ![b] = [id |-> m, rec |-> rec, finish |-> finish, stale |-> FALSE]]

(* mergeReads: an author's own receipt does not count.                      *)
MergeReads(b, m, reads) ==
    LET merged == db[b][m].reads \cup (reads \ {from[m]}) IN
    IF Has(b, m) /\ merged # db[b][m].reads
    THEN WillPut(b, m, [db[b][m] EXCEPT !.reads = merged], FALSE)
    ELSE UNCHANGED task

(* acceptRecord *)
OnMessage(b, msg) ==
    /\ Receives(b, msg, "msg")
    /\ LET m == msg.body.id IN
       IF Has(b, m) THEN MergeReads(b, m, msg.body.reads)
                    ELSE WillPut(b, m, [reads |-> msg.body.reads, blob |-> FALSE], FALSE)
    /\ UNCHANGED <<from, db, incoming, unread, marking, receipts, linkVars, raced, cut>>

OnReads(b, msg) ==
    /\ Receives(b, msg, "reads")
    /\ MergeReads(b, msg.body.id, msg.body.reads)
    /\ UNCHANGED <<from, db, incoming, unread, marking, receipts, linkVars, raced, cut>>

NoParts == [meta |-> None, parts |-> {}, got |-> 0]

Complete(inc) == inc # None /\ inc.meta # None /\ inc.got >= Cardinality(Chunks)

(* Mutant of WholeRecord: the receipts are those that came with the meta. *)
MetaWholeRecord(b, m, inc) == [reads |-> inc.meta, blob |-> TRUE]

(* "keep read receipts that arrived while the file was downloading"         *)
WholeRecord(b, m, inc) ==
    [reads |-> inc.meta \cup (IF Has(b, m) THEN db[b][m].reads ELSE {}), blob |-> TRUE]

(* maybeFinish, with inc the file's entry.                                  *)
MaybeFinish(b, m, inc) ==
    IF Complete(inc)
    THEN /\ incoming' = [incoming EXCEPT ![b][m] = None]
         /\ WillPut(b, m, WholeRecord(b, m, inc), FALSE)
    ELSE /\ incoming' = [incoming EXCEPT ![b][m] = inc]
         /\ task' = [task EXCEPT ![b] = None]

OnFileMeta(b, msg) ==
    /\ Receives(b, msg, "file-meta")
    /\ LET m   == msg.body.id
           old == IF incoming[b][m] = None THEN NoParts ELSE incoming[b][m]
           inc == [old EXCEPT !.meta = IF Has(b, m) THEN db[b][m].reads ELSE msg.body.reads]
       IN \/ /\ HasBlob(b, m)
             /\ UNCHANGED <<incoming, task, unread>>
          \/ /\ Has(b, m) /\ ~HasBlob(b, m)
             /\ Render(b, m, inc.meta)
             /\ MaybeFinish(b, m, inc)
          \/ /\ ~Has(b, m)
             /\ incoming' = [incoming EXCEPT ![b][m] = inc]
             /\ WillPut(b, m, [reads |-> msg.body.reads, blob |-> FALSE], TRUE)
             /\ UNCHANGED unread
    /\ UNCHANGED <<from, db, marking, receipts, linkVars, raced, cut>>

(* Mutant of NewPart: a chunk that comes twice counts twice. *)
AnyPart(inc, i) == TRUE

NewPart(inc, i) == i \notin inc.parts

OnFileChunk(b, msg) ==
    /\ Receives(b, msg, "file-chunk")
    /\ LET m   == msg.body.id
           i   == msg.body.i
           inc == IF incoming[b][m] = None THEN NoParts ELSE incoming[b][m]
           duplicate == incoming[b][m] = None /\ HasBlob(b, m)
       IN IF duplicate \/ ~NewPart(inc, i)
          THEN UNCHANGED <<incoming, task>>
          ELSE MaybeFinish(b, m, [inc EXCEPT !.parts = @ \cup {i}, !.got = @ + 1])
    /\ UNCHANGED <<from, db, unread, marking, receipts, linkVars, raced, cut>>

(* The put of a handler, and what it does afterwards.                       *)
EndTask(b) ==
    /\ task[b] # None
    /\ LET m == task[b].id IN
       /\ Put(b, m, task[b].rec)
       /\ Render(b, m, task[b].rec.reads)
       /\ IF task[b].finish /\ Complete(incoming[b][m])
          THEN /\ incoming' = [incoming EXCEPT ![b][m] = None]
               /\ WillPut(b, m, [task[b].rec EXCEPT !.blob = TRUE], FALSE)
          ELSE task' = [task EXCEPT ![b] = None] /\ UNCHANGED incoming
    /\ UNCHANGED <<from, marking, receipts, linkVars, net, cut>>

-----------------------------------------------------------------------------
(* History sync: each side asks once on every connection, naming what it    *)
(* has; the answer is everything else, the receipts of what it has, the     *)
(* files, and an end mark.                                                  *)

(* syncWith *)
Ask(a, b) ==
    /\ <<a, b>> \in linked /\ sync[<<a, b>>] = "none"
    /\ sync' = [sync EXCEPT ![<<a, b>>] = "asked"]
    /\ net' = net \cup Messages(a, {b},
         {[type |-> "history-req", ids |-> {m \in Msgs : Has(a, m)}]})
    /\ UNCHANGED <<from, db, pageVars, linked, closed, lost, raced, cut, had, drops>>

Missing(b, ids) == {m \in Msgs \ ids : Has(b, m)}

(* Mutant of KnownReads: no receipts for what the other one has. *)
NoKnownReads(b, ids) == {}

KnownReads(b, ids) == {m \in ids : Has(b, m) /\ db[b][m].reads # {}}

(* Mutant of FilesToSend: records without their files. *)
NoFilesToSend(b, ids) == {}

FilesToSend(b, ids) == {m \in Missing(b, ids) \cap Files : HasBlob(b, m)}

Bare(b, ids) == {m \in Missing(b, ids) \cap Files : ~HasBlob(b, m)}

(* What sendHistory sends.                                                  *)
Reply(b, req) ==
    LET ids == req.body.ids IN
    Messages(b, {req.from},
      {RecordOf(m, db[b][m].reads) : m \in Missing(b, ids)}
        \cup {ReadsOf(m, db[b][m].reads) : m \in KnownReads(b, ids)}
        \cup (UNION {FileOf(m, db[b][m].reads) : m \in FilesToSend(b, ids)})
        \cup {[type |-> "history-end"]})

(* It is not in the queue.                                                  *)
Answer(b, req) ==
    /\ req \in net /\ req.to = b /\ req.body.type = "history-req"
    /\ net' = (net \ {req}) \cup Reply(b, req)
    /\ cut' = cut \cup {<<req.from, m>> : m \in Bare(b, req.body.ids)}
    /\ UNCHANGED <<from, db, pageVars, linkVars, raced>>

OnHistoryEnd(a, msg) ==
    /\ Receives(a, msg, "history-end")
    /\ sync' = [sync EXCEPT ![<<a, msg.from>>] = "done"]
    /\ UNCHANGED <<from, db, pageVars, linked, closed, lost, raced, cut, had, drops>>

-----------------------------------------------------------------------------
(* Connections.                                                             *)

Link(a, b) ==
    /\ a # b /\ <<a, b>> \notin linked
    /\ linked' = linked \cup {<<a, b>>, <<b, a>>}
    /\ had' = [had EXCEPT ![<<a, b>>] = db[a], ![<<b, a>>] = db[b]]
    /\ UNCHANGED <<from, db, pageVars, sync, net, closed, lost, raced, cut, drops>>

(* A file without contents in the database, or about to be: the next sync   *)
(* counts it as one the browser has.                                        *)
Partial(b, m) ==
    \/ Has(b, m) /\ ~db[b][m].blob
    \/ task[b] # None /\ task[b].id = m /\ ~task[b].rec.blob

LosePairs(pairs) ==
    /\ drops < MaxDrops
    /\ drops' = drops + 1
    /\ linked' = linked \ pairs
    /\ sync' = [p \in Pairs |-> IF p \in pairs THEN "none" ELSE sync[p]]
    /\ had' = [p \in Pairs |-> IF p \in pairs THEN [m \in Msgs |-> None] ELSE had[p]]
    /\ net' = {msg \in net : <<msg.from, msg.to>> \notin pairs}
    /\ closed' = closed \ pairs
    /\ lost' = {msg \in lost : <<msg.from, msg.to>> \notin pairs}
    /\ cut' = cut \cup {f \in Browsers \X Files :
                          (\E p \in pairs : f[1] \in {p[1], p[2]}) /\ Partial(f[1], f[2])}

Unlink(a, b) ==
    /\ <<a, b>> \in linked
    /\ LosePairs({<<a, b>>, <<b, a>>})
    /\ UNCHANGED <<from, db, pageVars, raced>>

(* What goes untold with a message: a request takes its answer along.       *)
Untold(msg) == IF msg.body.type = "history-req" THEN Reply(msg.to, msg) ELSE {msg}

(* The data channel closes at the end of a and takes along what a has sent  *)
(* through it: any of the messages under way to b, for the rest went by     *)
(* relay.  The Peer stays, with its finished or waiting sync, and sends by  *)
(* relay from now on: a channel is opened once, with the Peer.              *)
ChannelCloses(a, b) ==
    /\ <<a, b>> \in linked \ closed
    /\ \A m \in Msgs \ ClosesWith : from[m] = None
    /\ closed' = closed \cup {<<a, b>>}
    /\ \E gone \in SUBSET {msg \in net : msg.from = a /\ msg.to = b} :
         /\ net' = net \ gone
         /\ lost' = lost \cup UNION {Untold(msg) : msg \in gone}
    /\ UNCHANGED <<from, db, pageVars, linked, sync, raced, cut, had, drops>>

(* The page is loaded again: the database is left.  What was read is told   *)
(* by the next sync.                                                        *)
Reload(b) ==
    /\ LosePairs({p \in Pairs : b \in {p[1], p[2]}})
    /\ incoming' = [incoming EXCEPT ![b] = [m \in Files |-> None]]
    /\ task' = [task EXCEPT ![b] = None]
    /\ marking' = [marking EXCEPT ![b] = {}]
    /\ receipts' = [receipts EXCEPT ![b] = {}]
    /\ unread' = [unread EXCEPT ![b] =
         {m \in Msgs : Has(b, m) /\ from[m] # b /\ b \notin db[b][m].reads}]
    /\ UNCHANGED <<from, db, raced>>

Next ==
    \/ \E b \in Browsers, m \in Msgs : Send(b, m)
    \/ \E b \in Browsers, m \in Msgs : BeginRead(b, m)
    \/ \E b \in Browsers : \E r \in marking[b] : EndRead(b, r)
    \/ \E b \in Browsers : FlushReads(b)
    \/ \E b \in Browsers : \E msg \in net : OnMessage(b, msg)
    \/ \E b \in Browsers : \E msg \in net : OnReads(b, msg)
    \/ \E b \in Browsers : \E msg \in net : OnFileMeta(b, msg)
    \/ \E b \in Browsers : \E msg \in net : OnFileChunk(b, msg)
    \/ \E b \in Browsers : EndTask(b)
    \/ \E a, b \in Browsers : Ask(a, b)
    \/ \E b \in Browsers : \E msg \in net : Answer(b, msg)
    \/ \E a \in Browsers : \E msg \in net : OnHistoryEnd(a, msg)
    \/ \E a, b \in Browsers : Link(a, b)
    \/ \E a, b \in Browsers : Unlink(a, b)
    \/ \E a, b \in Browsers : ChannelCloses(a, b)
    \/ \E b \in Browsers : Reload(b)

Spec == Init /\ [][Next]_vars

-----------------------------------------------------------------------------
(* The records, the work under way and the connections are well-formed, and *)
(* the count of the parts of an incoming file is right.                     *)
TypeOK ==
    /\ from \in [Msgs -> Browsers \cup {None}]
    /\ db \in [Browsers -> [Msgs -> Record \cup {None}]]
    /\ \A b \in Browsers, m \in Files :
         incoming[b][m] # None =>
           incoming[b][m] \in Incoming /\ incoming[b][m].got = Cardinality(incoming[b][m].parts)
    /\ \A b \in Browsers : task[b] # None => task[b].id \in Msgs /\ task[b].rec \in Record
    /\ unread \in [Browsers -> SUBSET Msgs]
    /\ \A b \in Browsers : \A r \in marking[b] : r.id \in Msgs /\ r.rec \in Record
    /\ receipts \in [Browsers -> SUBSET Msgs]
    /\ linked \subseteq Pairs /\ closed \subseteq linked
    /\ sync \in [Pairs -> {"none", "asked", "done"}]
    /\ drops \in 0..MaxDrops

(* Handlers run one at a time, so that they do not undo each other's work:  *)
(* a record loses receipts or its file only in the put of a markRead, or in *)
(* that of a handler which a markRead of the same message came between.     *)
LostOnlyToMarkRead ==
    [][\A b \in Browsers, m \in Msgs :
         (Has(b, m) /\ Overwrites(b, m, db'[b][m])) =>
           \/ \E r \in marking[b] : r.id = m /\ r \notin marking'[b]
           \/ task[b] # None /\ task[b].id = m /\ task[b].stale]_vars

(* Two browsers that are connected and have nothing more to tell each other:*)
(* both have asked, and no message is under way.                            *)
Settled(a, b) ==
    /\ sync[<<a, b>>] # "none" /\ sync[<<b, a>>] # "none"
    /\ net = {}
    /\ \A x \in {a, b} : task[x] = None /\ marking[x] = {} /\ receipts[x] = {}

(* What a has to tell b of a message: it wrote it, or held it when the two  *)
(* were connected.  What it receives later it does not pass on.             *)
Offered(a, b, m) == IF from[m] = a THEN db[a][m] ELSE had[<<a, b>>][m]

Raced(a, b, m) == {<<a, m>>, <<b, m>>} \cap raced # {}

(* What channels took with them, of those with which the Peer stays: the    *)
(* record a told b, or parts of a file anybody was sending to b.  A lost    *)
(* request counts as all of its answer.                                     *)
LostRecord(a, b, m) ==
    \E msg \in lost : /\ msg.from = a /\ msg.to = b
                      /\ msg.body.type \in {"msg", "file-meta"} /\ msg.body.id = m

LostPart(b, m) ==
    \E msg \in lost : /\ msg.to = b
                      /\ msg.body.type \in {"file-meta", "file-chunk"} /\ msg.body.id = m

LostReads(a, b, m) ==
    UNION {msg.body.reads : msg \in
      {x \in lost : /\ x.from = a /\ x.to = b
                    /\ x.body.type \in {"msg", "reads"} /\ x.body.id = m}}

(* "Both peers do this on every connection, so gaps fill in both            *)
(* directions": a browser comes to have every message and file that one it  *)
(* is connected to has to tell.  The exceptions are messages that a closing *)
(* channel took with it, until the next connection, which tells them again; *)
(* and files: one whose record came without the contents, or whose contents *)
(* an overlapping markRead took away from either, is not sent again.        *)
GapsFill ==
    \A a, b \in Browsers :
      (a # b /\ Settled(a, b)) =>
        \A m \in Msgs : LET rec == Offered(a, b, m) IN
          rec # None =>
            /\ Has(b, m) \/ LostRecord(a, b, m)
            /\ (Has(b, m) /\ rec.blob) =>
                 HasBlob(b, m) \/ <<b, m>> \in cut \/ Raced(a, b, m) \/ LostPart(b, m)

(* Nor does a receipt get lost, unless in an overlapping put or, until the  *)
(* next connection, in a closing channel: b knows the receipts a held when  *)
(* they were connected, and of the messages that b had then or wrote itself,*)
(* whether a has read them.                                                 *)
ReadsAt(b, m) == IF Has(b, m) THEN db[b][m].reads ELSE {}

ReceiptsAgree ==
    \A a, b \in Browsers :
      (a # b /\ Settled(a, b)) =>
        \A m \in Msgs : ~Raced(a, b, m) =>
          /\ had[<<a, b>>][m] # None =>
               had[<<a, b>>][m].reads \subseteq ReadsAt(b, m) \cup LostReads(a, b, m)
          /\ Offered(b, a, m) # None =>
               /\ a \in ReadsAt(a, m) => a \in ReadsAt(b, m) \cup LostReads(a, b, m)
               /\ a \in ReadsAt(b, m) => a \in ReadsAt(a, m)
=============================================================================
