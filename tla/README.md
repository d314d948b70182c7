# Meeks: a specification of the server and of the join protocol

Meeks is a group chat: browsers meet in rooms over a small Go server, hold an
end-to-end encryption key per room, and talk to each other over WebRTC or, when
that fails, through the server. This directory holds TLA+ models of the parts
of the program whose behaviour depends on the order of events, the runs that
model-check them, and machine-checked proofs about them. All line numbers refer
to `src/`.

## The system

| Component | State it keeps | Operations | Talks to | What is hard |
|---|---|---|---|---|
| Store (`internal/store/store.go`) | rooms, join requests; the state file | `Claim`, `Submit`, `AddMessage`, `Approve`, `Reject`, `Done`, `Purge`, `Open` | called by the hub's handlers and by its own hourly purge | time, resubmission by reconnecting browsers, racing members, failing saves, restarts |
| Hub (`internal/signaling/hub.go`) | rooms of connections, a table of all connections, a send queue per connection | `ServeWS` (join, welcome, leave), `readLoop`, `writeLoop`, `forward`, `Connected` | browsers over WebSocket; the TURN server asks `Connected` | three goroutines per connection, queues at their limit, joins between departures |
| Join handlers (`internal/signaling/join.go`) | `client.reqID` | `claim`, `join-request`, `join-approve/-reject`, `join-message`, `join-done` | the store (under `Store.mu`), the hub (under `Hub.mu`) | each handler is several critical sections that interleave with other connections' |
| Room client (`web/static/room.js`) | room key, identity key, cards of pending requests, peers, history, files, calls | message handlers in a serial queue, buttons, reconnection | the hub; other browsers | lost connections in the middle of an exchange, several tabs, lost updates across `await`, glare in the negotiation |
| Cloudflare TURN (`internal/cfturn/cfturn.go`) | the newest credential, whether usage is known to be under the cap | `Tick` every 5 minutes, `ICEServers` | Cloudflare's APIs; the hub's welcome | failing and half-carried-out requests, a cap that must hold on unknown usage |
| TURN server (`internal/turnserver/turnserver.go`) | live relays per peer and in all | authorization, quota and allocation callbacks | pion's TURN server; `Hub.Connected` | quota checked and counted in two callbacks, relays that outlive their session |
| IP log (`internal/iplog/iplog.go`) | one file per day | `Log`, `Purge`, `Search` | hub and TURN server write, the `lookup` command reads | rotation at midnight, purge against writing, searches over part of the days |
| Crypto (`web/static/crypto.js`), start-up (`main.go`), pages (`site.go`, `i18n.go`, templates) | none | pure functions, wiring, rendering | | nothing to interleave |

Properties that make each component correct:

- Store: a decision is made once and is final; a wrapped key exists exactly for
  approved requests; a rejection locks the applicant out for the cooldown; the
  conversation survives resubmission; the file follows the memory; what has
  expired goes away.
- Hub: the two tables agree; messages arrive without gaps or the connection
  goes; nobody hears from strangers; nobody misses a peer; a dropped connection
  really leaves.
- Join: everyone who is told to wait learns of the decision; the cards of the
  members follow the pending list; an approval is kept until the key arrived.
- Room client: one key per room, kept in the browser's storage; the inbox key
  reaches every member and applicant; no receipt or file is lost but to the one
  known race; connected members end up with the same history. (Negotiation is
  not modelled.)
- Cloudflare TURN: no dead or revoked credential is offered for long; nothing
  is offered on unknown usage; the cap takes effect.
- TURN server: no relay for a connection that is gone; counters match relays;
  quotas hold.
- IP log: every event is in exactly one file and is found by the search that
  covers it; nothing is kept beyond the retention.

## Modules

| Module | Models | Source |
|---|---|---|
| `JoinStore` | the store, one action per exported operation plus time, purge, restart | `store.go` |
| `JoinStoreProofs` | theorems about `JoinStore` | |
| `SignalHub` | connections, rooms, queues, writers, the browser's peer list | `hub.go` 83-326, `room.js` 852-875 |
| `RoomFeed` | what the hub promises, without queues, writers or stages: a feed per connection; `SignalHub` implements it | |
| `SignalHubProofs` | theorems about `SignalHub`, the refinement of `RoomFeed` among them | |
| `JoinApproval` | the join handlers at the granularity of critical sections, over `JoinStore`, with the browser's cards and banner | `join.go`, `room.js` 257-405, 830-926 |
| `Admission` | what the join protocol promises, without server, messages or tabs; `JoinApproval` implements it | |
| `JoinApprovalLemmas`, `JoinApprovalProofs` | theorems about `JoinApproval`, the refinement of `Admission` among them; the lemmas hold the invariant and what is independent of the single actions | |
| `RoomKey` | creation of a room, the room key and the inbox key in pages and storage, over `JoinStore` | `room.js` 153-298, 940-950, `join.go` |
| `RoomKeyProofs` | theorems about `RoomKey` | |
| `RoomHistory` | the timeline: records, receipts, files, history sync | `room.js` 407-469, 953-1164 |
| `RoomHistoryProofs` | theorems about `RoomHistory` | |
| `IPLog` | the connection log: daily files, purge, search | `iplog.go` |
| `TurnRelay` | the embedded TURN server with the sessions and the log (extends `IPLog`) | `turnserver.go`, `hub.go` 164-190 |
| `TurnRelayProofs` | theorems about `TurnRelay` and the log | |
| `CloudflareTurn` | the usage poll and the credentials | `cfturn.go` |
| `CloudflareTurnProofs` | theorems about `CloudflareTurn` | |
| `MCJoinStore`, `MCSignalHub`, `MCJoinApproval`, `MCRoomKey`, `MCRoomHistory` | symmetry sets for TLC | |

Composition: `JoinApproval` and `RoomKey` use the actions of `JoinStore` as
conjuncts of theirs (`INSTANCE`), so a handler changes the store exactly as the
store's own module says; `TurnRelay` extends `IPLog` and adds the sessions and
relays that write to it.

Mutants (definitions whose comment begins with "Mutant of") stand beside the
definition they would replace. They are plausible slips, used to confirm that
each checked property can fail; nothing else refers to them.

### JoinStore

`rooms` is `Store.rooms`, `disk` the state file. Every operation runs under
`Store.mu` from start to end, so it is one action, and its last step, `save()`,
is part of it (`Commit`). The save may fail (`SaveMayFail`); the code logs that
and goes on, so the action happens in memory only. `Restart` is `Open`: the
memory becomes the file.

Timestamps are ages: `idle` is the time since `Updated` (of a request) or
`LastActive` (of a room). `Tick` makes everything older, in memory and in the
file, and ages stop one beyond the largest value the code compares with. Time
is thus unbounded while the state is finite. `expired()` is `IsExpired`.
`saveOK` and `rejectedFor` are history variables: whether the last save worked,
and how long ago an applicant was last rejected. They are read by properties
only (`Restart` and `Purge` maintain them).

Names, creation times and payloads are left out, because no guard depends on
them; a call with malformed arguments returns before it reads any state.
`AddMessage` and `decide()` do not look at the age of a request, in the code and
in the model: a request that has expired but has not been purged can be decided
or revived by a message. `join.go`:103 expects otherwise ("or expired"), and the
limit on pending requests can be exceeded that way. The properties are stated
so that they allow it.

### SignalHub

A connection's session goroutine moves through the stages of `ServeWS`: new,
joined (in the room, welcome not queued yet), serving (reading), ended (reading
stopped), closed; or refused. `Join`, `Leave` and `Forward` each run under
`Hub.mu` and are one action with all the `enqueue` calls they make. The writer
goroutine is separate: a full queue closes `kick`, but the select statement may
still choose to write queued messages before it notices. `view` is `roomPeers`
in the receiving browser. `got` and `offered` are histories of what a browser
has received and what it should have; they are emptied when its session ends.
A connection ID is used once, as random IDs are, so behaviours end when all
connections are closed, and the runs do not check for deadlock.

`RoomFeed` is the abstract specification: whoever enters a room is told, in its
feed, of every arrival, departure and message there, reads the feed at its own
pace, and may be dropped instead of being told. `ImplementsFeed` is the refinement.
`served` maps to the connections that are open, not marked by `enqueue`, and whose
writer has not returned; a feed is `offered`, what has been read of it `got`, and
the room is `roomOf` while the connection is in `peers`. A full queue maps to a
drop in the very step that lost the message, long before the session ends, so
what a marked connection still gets is no longer part of the promise. The greeting
comes once but not first, as in the code.

### JoinApproval

`readLoop` runs one handler per connection at a time. `task` says what is left
of the handler after each critical section; between two of them, any other
connection may run. `Store == INSTANCE JoinStore` supplies the store's
operations as conjuncts of the handlers. `queue` is everything between
`enqueue` and the browser, `todo` what the browser has sent. The browser's
handlers run one after the other (`inQueue`), so each is one action.

`Disconnect` loses what is in transit and keeps the page; `Reload` starts a new
page, which finds the room key if any tab of that browser stored it;
`ServerRestart` ends all connections and reloads the state file. `pubOf` is
chosen in the initial state, so one run covers both two tabs of one browser and
two browsers. Requests do not grow old in this model (`JoinStore` covers that).
`window`, `behind` and `spent` are histories: whether a decision fell between
`Submit` and the answer to the request, whether the list a member was sent last
had been read before a change, and which clicks of a member were lost with the
connection or concern a request that has been decided. These are the known
weaknesses of the handlers, and the properties exclude exactly them.

`Admission` is the abstract specification: per applicant a request that is
decided once, a key that only an approved applicant gets, and an approval that
is dropped only after that. The refinement mapping (`Promise`) reads the status
from the store and the admitted applicants from the pages that hold the key;
`KeepsPromise` says that every behaviour of `JoinApproval` is one of
`Admission`'s.

Claims that create a room and the inbox key are in `RoomKey`. Of `join-message`
only the store's part is modelled (`AddMessage` of `JoinStore`).

### RoomKey

A page is a tab of a browser; the tabs of a browser share `stored` (its local
storage) and the identity under which it asks to join, and each has its own
connection. A key or key pair is named by the tab that made it, `OldKey` is the
key of a room from before inbox keys existed. `keys` is `rk`, `page` the other
variables the protocol reads (`creating`, `claimed`, `roomInboxPub`,
`inboxClaimed`, `pendingReqId`, `applicant`). The server's handlers are taken
apart where another connection may come in between: reading `hadInbox` before
`Claim`, reading the inbox key between `Submit` and the answer, and the
broadcast afterwards. `Hello` is the encrypted greeting of two pages that hold
the same key; that they find each other (`announce`, `onKx`) is its guard.

`contested`, `early` and `unconfirmed` are histories: browsers of which one tab
replaced or removed a key another one used; hellos sent or received before both
pages knew which inbox key is registered; and whether a page went on with a key
that it, or another tab of its browser, had made without an answer to the claim:
because it lost the connection while it was creating the room, or because it was
reloaded and found such a key in the storage.

### RoomHistory

A record is reduced to its receipts and whether it has the file's contents; a
file is its meta and its chunks. Handlers are serial per page, but each reads a
record, waits for IndexedDB and puts the record back, and `markRead` does the
same beside the queue. So every such handler is two steps, and what it is about
to put is kept in `task` (or `marking`). Messages may overtake each other, since
a peer's messages change between the relay and a data channel. History sync (`Ask`,
`Answer`, `OnHistoryEnd`) is asked once per connection by each side, that is, once
in the life of a `Peer`.

Messages are lost in two ways. `Unlink` and `Reload` end the `Peer`: whatever was on
its way between the two is gone, and the next connection syncs again. With
`ChannelCloses` the data channel closes at one end and takes any of the messages
that end has sent, while the `Peer` stays (`room.js`:615): `send` goes on by relay
(`room.js`:670-682), no second hello and so no second sync follows (`room.js`:686),
and a browser that waited for an answer or an end mark waits in vain. Each of the
two ends can close once, since a channel is opened only with its `Peer`. `lost` is
the history of what went this way since the two were connected; a lost request
counts as its whole answer (`Untold`).

`raced`, `cut` and `had` are histories too: records that an overlapping put changed
back; files whose transfer was interrupted after their record had been stored, or
whose record came from a browser without the contents; and what each of two
browsers held when they were connected. With the last, `Offered` says what one has
to tell the other: what it wrote and what it held then.

### TurnRelay and IPLog

The unit of time is the day, which is what file names, the purge and the search
tell apart. A line is stamped in one step and written in another (`waiting`),
because `Log` reads the clock before it takes the lock. `TurnRelay` takes the
callbacks of one Allocate request apart: authorization and log (`Allocate`), the
quota (`CheckQuota`), the count (`Create`); requests of different addresses
interleave. pion's side of it (a relay cannot be created, a lease runs out, a
relay is deleted) is external and modelled from what the callbacks say about it.
A crash loses sessions, relays, counters and lines on their way, and keeps the
files. `overlap` is a history: a quota was checked between another check and the
count that follows it.

### CloudflareTurn

`step` follows one `Tick`: the usage request, the critical section (`Decide`),
then a revocation or a mint. `ICEServers` (`Offered`) may be called at any
moment. The unit of time is the polling interval. Cloudflare is external: a
credential works from its issue to its lifetime's end or its revocation, and a
failed request may have been carried out (`Revoke`, `MintFails`). `apiUp` and
`overLimit` change at any time.

## Runs

Every passing run has, for each of its properties, a mutant that breaks it.

| Run | Instance | What it shows |
|---|---|---|
| `JoinStore` | 1 room, 2 applicants, 1 pending slot, lifetime 2, cooldown 1, retention 3, 1 message; fair purge | type invariant, `LockoutRespected`, `DecisionIsFinal`, `ConversationKept`, `PendingLimit`, `StaleForgotten` |
| `JoinStoreFaults` | 1 applicant, 2 wrapped keys, saves may fail | `Durable`: the file follows the memory whenever a save works (the other invariants are proved for failing saves too) |
| `JoinStoreCooldown` | 1 applicant | violated: `RejectionEndsOnTime` |
| `SignalHub` | 3 connections, 2 rooms of 2, queues of 2, 1 forwarded message; fair goroutines | `HubConsistent`, `GapFree`, `KnownSenders`, `RoomListed`, `DroppedLeaves`, and the refinement `ImplementsFeed` |
| `JoinApprovalTabs` | 1 member, 2 applicants with one or two keys, 1 pending slot | `DecisionReaches`, `CardsUsable` |
| `JoinApprovalMembers` | 2 members, 1 applicant, 1 disconnection, reload or restart | `DecisionReaches`, `CardsCurrent`, and the refinement `KeepsPromise` |
| `JoinApprovalLost` | 1 member, 1 applicant | violated: `DecisionDelivered` |
| `RoomKey` | 2 tabs of one or two browsers, 2 disconnections or reloads; a new room or an old one | `OneKey`, `KeysKept`, `ApplicantCanWrite`, `InboxSpreads` |
| `RoomHistory` | 2 browsers, a file of 2 chunks or a text, 2 disconnections or reloads; with the text, data channels that close | `GapsFill`, `ReceiptsAgree`, `LostOnlyToMarkRead` |
| `TurnRelay` | 2 sessions, 2 client addresses, caps of 1, 4 days, retention 1, 1 fault; fair | `QuotaKept`, `TurnLinesTraceable`, `RelayLogged`, `RelaysEnd`, `OldFilesRemoved` |
| `CloudflareTurn` | refresh 2, lifetime 3, 6 credentials, 1 restart; fair | `OfferedNotRevoked`, `CapNeverAssumed`, `ServiceReturns`, `CapTakesEffect` |
| `CloudflareTurnCap` | API never fails | violated: `CapStopsRelays` |

Why the bounds are enough. In the store, requests of different rooms never
meet, and requests of one room meet only in the limit, so two applicants and a
limit of one show every conflict; a cooldown shorter than the lifetime and a
retention longer than both keep the order of the real constants (24 hours, 7
days, the retention of the operator). In the hub, three connections are needed
for two peers to change while a third joins, and two rooms for messages to
stray; a queue of two fills with one join and one forwarded message. In the join
protocol, `MaxQueue` bounds messages waiting for one connection (a handler
waits for room, where the real queue of 512 would drop the connection, which
`Disconnect` covers); `MaxDrops` bounds disconnections, reloads and restarts in
all, after which a behaviour ends when everyone has settled: hence no deadlock
check. In `CloudflareTurn` the refresh interval is shorter than the lifetime, as
in the code, so that two credentials of the provider are live at once; one more
credential than can be live and remembered is always available.

In `RoomKey` two tabs are enough for every pair of
roles: two creators, a creator and an applicant, two holders of an old key, two
tabs of one browser; the second lost connection is needed to lose the answer to
the reconnection as well. A third tab adds what needs two tabs of one browser
beside a competitor: a tab that is reloaded and picks up a key its sibling has
just made. The attempt to prove `OneKey` found that case, which the run cannot
reach; `unconfirmed` covers it, and the theorem holds for any number of tabs.
In `RoomHistory` one message is sent, a file or a text; a text travels
exactly like the record of a file in the history, without contents; two chunks
can overtake each other and their meta. `MaxDrops` lets a transfer be cut and the
repair be cut again. Data channels close in the behaviours with the text only
(`ClosesWith`): with a file as well TLC finds no error either, but a single chunk
without any disconnection already has three million states, too many to repeat
with every run. That chunks, too, are lost only as the properties say is what the
theorems show, which hold for any value of these bounds. Three browsers are
beyond TLC even with a text and no disconnection (more than three million
states); the properties are stated so that they are right there too, for which
TLC's simulation of three browsers showed two things the run cannot reach, both in
the list below: what is received is not passed on, and a record may come from a
browser without the contents. The theorems hold for any number of browsers. In `TurnRelay`
two addresses and caps of one make two requests compete for one relay, in all
and of one session; four days with a retention of one let a file expire while
the next one is written, and two files expire together, so that a purge can give up
between them and leave one behind. `MaxFaults` allows one lost line, failed purge or crash,
and `MaxOvernight` admits a second session only if the first day is the only one
of the behaviour: two sessions compete on one day, one session goes through all
of them.

Symmetry is used for applicants, members and keys in safety runs and never in
a run with a liveness property.

### Fairness

- `JoinStore`: `WF(Purge)`, because `Run` purges on a ticker for as long as the
  server runs. Nobody is obliged to decide, apply or report.
- `SignalHub`: per connection, `WF` of the welcome, of the end of a cancelled
  read, of `leave`, and of the writer's noticing the kick. Each is the next
  statement of a running goroutine; the writer is delayed at most by a write,
  which ends within `writeTimeout`, and the select chooses at random among
  ready cases. Browsers are not obliged to do anything.
- `TurnRelay`: `WF` of the hourly purge (one that does not fail), of the two lines
  of a session and what follows them, of the callbacks of a request, and of the
  clock on a lease: relays expire unless refreshed. Clients are not obliged to
  ask, refresh or leave.
- `CloudflareTurn`: `WF` of the ticker and of the next statement of `Tick`; every
  request ends within the client's timeout of 15 seconds. The API is not
  assumed to recover or usage to stay anywhere: the two liveness properties
  have that as their hypothesis.

## Where the code and its documents disagree

- `RejectionEndsOnTime`: README promises that a rejection is deleted after 24
  hours. `Submit` refreshes `Updated` of a rejected request too (`store.go`:230),
  so a browser that reconnects keeps its user locked out.
- A newcomer is in the room before its welcome is queued (`hub.go`:164, 180). A
  peer that leaves in between stays in `roomPeers`, which `room.js`:49 calls
  "every signaling ID in the room"; `RoomListed` allows exactly these.
- `DecisionDelivered`: a decision between `Submit` (`join.go`:68) and the
  registration of the request (`join.go`:74) is delivered to nobody, and the
  applicant is then told that it is pending.
- The buttons of a card are disabled before the decision is sent
  (`room.js`:377). If it is lost with the connection, or the request has been
  decided and is made again by another tab before the member's browser sees a
  list without it, the card stays disabled until the page is reloaded, while the
  request can be decided. `CardsUsable` allows exactly these cases.
- `CapStopsRelays`: at the cap only the newest credential is revoked; earlier
  ones live on for up to their two hours (`cfturn.go`:161).
- Two tabs of one browser that open a new room: the refused one calls
  `forgetKey`, which removes the key the other one stored (`room.js`:186), and
  an adopted inbox key may be overwritten by a tab that has an older one.
  `room.js`:7 says everyone keeps the key in localStorage; `KeysKept` excepts
  browsers whose tabs clashed. It
  shows that nothing else makes a browser lose its keys, not that tabs do not clash.
- A creator whose claim is answered while its connection is lost comes back as a
  member with its own key (`room.js`:858), even if someone else created the room.
  So does a tab that is reloaded while another tab of its browser has stored a key
  whose claim is still unanswered. `OneKey` holds for rooms where neither
  happened (`unconfirmed`).
- A hello sent before its sender or received before its receiver knows the
  registered inbox key does not hand it over (`room.js`:690, 947), and hellos are
  sent once per connection: the member has no reply boxes until it or the other
  reconnects (`InboxSpreads`, against `room.js`:161).
- A file whose transfer is interrupted is not sent again by later syncs, because
  its record is already there (`room.js`:1049), against "gaps fill in both
  directions" (`room.js`:1033). Nor is it sent to a browser that got the record
  from a third one, which did not have the contents yet. And `markRead` can put a record back over a
  receipt or a file that arrived meanwhile (`room.js`:439-442). `GapsFill` and
  `ReceiptsAgree` except these and the next; `LostOnlyToMarkRead` shows there is no other way
  to lose anything.
- A data channel that closes while its `Peer` stays takes the messages in it along
  (`room.js`:615), and nothing asks for them again on that connection, against "Both
  peers do this on every connection, so gaps fill in both directions"
  (`room.js`:1032): a text or a receipt is missing until the two are connected anew;
  so is a file whose record was lost, but a file that lost a chunk stays
  without contents, as after any interrupted transfer. A lost history request takes
  the whole answer with it, a lost end mark nothing. `GapsFill` and `ReceiptsAgree`
  except exactly what is in `lost`, which the next connection empties.
- What a browser receives it does not pass on, and it syncs only on connecting: of
  three browsers, two of which are not connected, the one at the end misses what
  is written after its last sync until the next connection, and a receipt that
  arrives before its message is dropped (`room.js`:455) although the record that
  follows may be older. "Gaps fill in both directions" (`room.js`:1033) is about
  what each side held when they connected; `GapsFill` and `ReceiptsAgree` say no
  more than that and what the two write themselves.
- "the number of simultaneous relays is capped per session and overall"
  (`turnserver.go`:8): requests whose quota is checked before either is counted
  can pass the cap together. `QuotaKept` excepts them; the counters stay right.
- Also seen, and allowed for by the properties: `broadcastRequests` reads and
  sends the list in two critical sections (`join.go`:160), so the older of two
  lists can be the last one sent; expired requests can be decided or revived
  until they are purged.

## Proofs

All seven models with runs have theorems: every invariant and every action
property the runs check, and the refinements of `Admission` and `RoomFeed`. In each module `Inv`
is the inductive invariant and `Invariance` the theorem that it always holds; the
others follow from it, in `RoomKey` and `RoomHistory` together with a second
invariant (`InboxInv`, `FullInv`) that rests on it, as does the refinement of `RoomFeed`
(`Unserved`). The theorems are about every
value of the constants that the modules' named assumptions admit, where the runs
have two or three of everything.

Assumptions: those named in the modules, and nothing else: positive limits and
sizes, times in the order of the code's constants, and `None`, `All` and `OldKey`
not values of any other kind (`NoneAssumption`, `NamesAssumption`). TLC evaluates
each of them in a run.

`JoinStoreProofs`, with or without failing saves: `TypeCorrect`,
`DurableHolds`, `LockoutHolds` and `WrapIffApprovedHolds` (a request carries a wrapped
key exactly when it is approved, a part of the invariant that no run repeats);
the action properties `DecisionIsFinalHolds`, `ConversationKeptHolds` and
`PendingLimitHolds`.
None of the invariants but the type invariant is inductive alone.
`LockoutRespected` needs that the age of a rejected request never exceeds the
time since its rejection, in memory, and, when the last save worked, in the
file, since a restart goes back to it. So the invariant `Inv` is the
conjunction of the type invariant, the wrapped-key rule in both copies,
`Durable`, and that relation of ages (`LockedTight`). Most operations replace one
request by another: `SetRequestStep` shows once that this keeps `Inv` if the new
request is well-formed, and the lemma of each action only says why its request
is. `Purge`, `Tick` and `Restart` change everything and have their own lemmas. The
action properties follow from `Inv` and a lemma that an action on one request
leaves all others as they are (`OthersKept`). `PendingLimit` counts, and applicants
need not be finitely many: it needs in addition that only finitely many requests
are ever stored (`FinitelyMany`), in memory and in the file.

`CloudflareTurnProofs`, with or without failing requests: `TypeCorrect`,
`OfferedNotRevokedHolds` and `CapNeverAssumedHolds`. The second is not
inductive alone: it needs that a credential being revoked is no longer in
`servers` (`Separate`), that one is being revoked only in the step after the
decision, and that a mint follows only a reading under the limit (`Steps`).

`SignalHubProofs`, for any number of connections and rooms: `TypeCorrect`,
`HubConsistentHolds`, `GapFreeHolds`, `KnownSendersHolds`, `RoomListedHolds`, and the
refinement `ImplementsFeedHolds`.
`KnownSenders` and `RoomListed` relate what a browser is sent, or shows, to who was in
the room when the messages were queued, so the invariant speaks about the whole
history `offered`: an open connection has been told of everybody in its room, of
nobody else, and of every departure among them (`Neighbours`); a departure is
reported once and after the arrival (`LeftOnce`, `JoinedBeforeLeft`); the list in
the welcome is the one `Join` returned (`Welcomed`). `RoomListed` follows because the
browser's list is what the messages received so far amount to (`ViewFollows`) and
by `GapFree` a browser whose queue is empty has received all of them. The refinement
rests on one lemma about `enqueue` (`EnqueueTells`: the connections it marks are
those `Tell` drops, the feeds of the others grow), one for steps that only end one
connection's service (`OneDropped`), and one per action; `HubConsistent` makes
`members` the rooms of `RoomFeed`, `Welcomed` makes the greeting the only one,
`GapFree` makes the head of the queue the next message of the feed, and a second
invariant (`Unserved`) says that a session starts unmarked and with nothing read.

`TurnRelayProofs`, for any number of sessions, addresses and days and any caps:
`TypeCorrect`, `QuotaKeptHolds`, `TurnLinesTraceableHolds`, `RelayLoggedHolds`. The
invariant has two halves. `QuotaInv`: a request or a relay has an owner and an
address only one of them, there are finitely many relays, and unless checks
overlapped at most one request is between its check and its count, and what it
was told is still true (`Alone`); without the last part a count could exceed the
cap. `LogInv`: a session's connect line waits until it is written and then is in
the file of its day, lost, or out of retention (`Joins`, `ConnectLogged`);
lines are in the file of their day; a TURN line is from the day of its session's
connect line or the next (`AuthInTime`); and an address that the server does not
log again (`recent`) has been logged (`RecentRecorded`).

`JoinApprovalLemmas` and `JoinApprovalProofs`, for any number of members,
applicants and queued messages: `TypeCorrect`, `DecisionReachesHolds`,
`CardsCurrentHolds`, `CardsUsableHolds`, and the refinement `KeepsPromiseHolds`. The
invariant first says that what is on its way is true (`Sound`): an answer, a
command or the rest of a handler names the request of its own connection and a
decision the store has made, an applicant asks first and once, whoever is shown
cards is a member to the hub, and a click is on its way or spent. On that rest
`WaitsAt` (an applicant whose last word is "pending" has a pending request, or a
handler is about to tell it) and `CardsFollowAt` (the last list on its way to a
member is the pending list, or a handler is about to send it). The properties are
these two in a settled state. The refinement is proved step by step: the initial
states map to `Admission`'s, every handler and browser step to `Apply`, `Decide`,
`Admit`, `Forget` or a stutter; that only an approved applicant is admitted and only
an admitted one forgotten is `Sound`.

`RoomKeyProofs`, for any number of tabs, browsers and lost connections: `TypeCorrect`,
`OneKeyHolds`, `KeysKeptHolds`. A room is from before inbox keys or made by the
pages, and the invariant is `Sound` for one of these two worlds, which never mix:
all pairs, wrapped keys, claims and answers belong to it (`PairIn`, `WrapIn`, `ClaimIn`,
`AnswerIn`), and a page that has asked to create the room and is not yet refused has
nothing else on its way (`TriesAlone`). `OneKey` alone is not inductive: a creator
holds a key of its own until it learns that it was refused, and such a key must
not reach anyone. So `OneKeyHeld`, which holds unless `unconfirmed`, is about
everything that is in somebody's hands, in a storage, in the store or wrapped on
its way: the keys that nobody is trying to register are one key, of a
registered room; a key somebody is trying to register is in its own hands and
its own browser only; and a page that will create the room has a fresh name. The
last attempt at this proof failed for a reason: with three tabs, one of which is
reloaded while its sibling's claim is unanswered, two keys could be accepted, which
the history had not recorded. It does now, and the case is listed above.

`ApplicantCanWriteHolds` and `InboxSpreadsHolds` need `InboxInv` (`InboxInvariance`).
Wherever an inbox key is named, in a page, a handler or a message, it is the
registered one or none (`PageFacts`, `TaskFacts`, `DownFacts`), and whoever holds the
key its creator registered holds both halves of the pair (`Full`), which is why in a
new room a member needs no hello. In an old room it does: a page that was greeted in
time has the key from then on, and no answer still on its way to it says otherwise
(`GreetedHave`); this needs that after a message naming the inbox key every answer
to a claim names it too (`NamedInOrder`). An applicant that waits without the inbox
key, once there is one, will hear of it: it has a question or an answer under way,
a list that names the key is on its way to it behind the word that makes it wait,
or a handler has still to send that list (`LearnsAt`).

`RoomHistoryProofs`, for any number of browsers, messages, chunks and lost
connections and closing channels: `TypeCorrect`, `GapsFillHolds`, `ReceiptsAgreeHolds` and the action
property `LostOnlyToMarkReadHolds`. For the last, a
record must not lose receipts or its file between the step of a handler that
reads it and the one that puts it back, so the invariant says of a pending put
that it overwrites nothing, unless a `markRead` of the same message came in
between (`Fresh`): no handler and no sync writes a record meanwhile, because
handlers run one at a time, and a message is not sent twice, because whatever
exists of a message, somebody sent it (`SentFirst`). `Counted` is that the count of
the parts of an incoming file, which decides that it is complete, is their number.

`GapsFill` and `ReceiptsAgree` are about a moment when nothing is on its way;
`FullInv` (`FullInvariance`) says what holds before. Messages go along connections
only, and who has been asked for its history, or marked its end, was connected
(`LinkFacts`). A receipt in a record, a message or a pending put is real: the reader
has it in its own database, or lost it in an overlapping put; an author has its own
message, and only files have contents (`TrueFacts`). That is the one half of
`ReceiptsAgree`, no browser counts a receipt its reader does not. The other half and
the first half of `GapsFill` are `Told`: what one browser has to tell another, the
other has, is about to put, will get in a message, or will get in the answer to a
request that is under way (`PresenceAt`, for receipts held at the connection
`OldReceiptsAt`), or a closing channel has taken it. So these parts of the
invariant do not ask what is under way but what is under way or lost (`Way`): a
channel that closes moves messages from the one to the other and takes nothing out
of both, but for a request, in whose place its answer counts as lost, and that
answer holds all the request would have brought (`ReplyIs`, `AnswersAll`); a browser's later receipts are still in `pendingReads` or under way
(`OwnReceiptsAt`). The contents of a file are there, about to be put, cut off,
overwritten, or the meta and every chunk have arrived, are lost in a channel, or come
from one and the same peer (`Contents`), and an entry that is complete is about to be finished
(`Finishing`): so no file is left with all its parts and never put together,
in whatever order they came. Each action's lemma says what it adds; that a step only
adds to what there was, unless it is an overlapping put, is stated once (`Kept`).

Only model-checked:

- liveness, which is out of the prover's reach: `StaleForgotten`, `DroppedLeaves`,
  `RelaysEnd`, `OldFilesRemoved`, `ServiceReturns`, `CapTakesEffect`;
- the three counterexamples (`RejectionEndsOnTime`, `DecisionDelivered`,
  `CapStopsRelays`), which are behaviours TLC finds.

## Not modelled

- Cryptography (keys and ciphertexts are opaque values), rendering,
  translations, HTTP routing, flags: no state whose order of changes matters.
- The parsing and size limits of messages and the rate limit's counters (their
  effect, a closed connection, is `Hangup`).
- The forwarding of `join-message` to the room and its errors; the store's part
  is `AddMessage`. (A message that overtakes a list of requests read before it is
  dropped by a member without a card, `room.js`:341, until the next list.)
- Peer connections and calls: the negotiation (`room.js`:618-668) is driven by
  the browser's RTCPeerConnection, whose state machine is not part of the
  repository. That a data channel's buffer may never drain (`room.js`:677) and
  that a file stops for all targets when its meta fails for one (`room.js`:1091)
  need three browsers and the buffer's state; so a send that hangs when its channel
  closes with a full buffer is not among the losses of `ChannelCloses`.
- The embedded TURN server's sockets, its permission handler (a test of the
  destination address without state) and the sweep of old entries of
  `Server.logged`. A log line cut in half by a crash, which makes later searches
  of that day fail (`iplog.go`:259), is below the level of lines.
- The limits of the history sync (1000 messages, 20 MB) and clearing the history.

## Plan

What could be added, in this order:

1. `JoinChat`: the messages before approval, with the lists of requests they
   overtake (`join.go`:124, 160).
2. `Negotiation`, with the offers and answers of two peers, if a faithful small
   model of RTCPeerConnection's signaling states can be kept apart from the code.
