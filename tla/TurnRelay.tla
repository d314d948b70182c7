------------------------------ MODULE TurnRelay ------------------------------
(***************************************************************************)
(* The embedded TURN server (src/internal/turnserver/turnserver.go) with    *)
(* the two components it works with: the signaling sessions its credentials *)
(* belong to (ServeWS in src/internal/signaling/hub.go, reduced to what it  *)
(* logs and to the table Connected reads) and the connection log (IPLog).   *)
(*                                                                          *)
(* pion/turn calls AuthHandler, QuotaHandler and the allocation callbacks   *)
(* one after the other for one request, and handles requests of different   *)
(* clients concurrently.  What it does between the calls (create a relay,   *)
(* expire it) is external and modelled from how the callbacks use it.       *)
(***************************************************************************)
EXTENDS IPLog

CONSTANTS
    MaxAllocs,     \* Config.MaxAllocs
    MaxPerPeer,    \* Config.MaxAllocsPerPeer
    MaxFaults,     \* bound of the model: lost lines, failed purges, crashes
    MaxOvernight   \* bound of the model: sessions when more than one day passes

ASSUME QuotaAssumption == MaxAllocs \in Nat /\ MaxPerPeer \in Nat  \* 0: no cap
ASSUME BoundsAssumption == MaxFaults \in Nat /\ MaxOvernight \in Nat

VARIABLES
    stage,       \* where each session is in ServeWS
    joinDay,     \* when a session's connect line was stamped
    waiting,     \* lines stamped and not yet written
    recent,      \* Server.logged: credentials and addresses that were logged
    user,        \* whose credential the requests of each address use
    request,     \* the Allocate request of each address
    relay,       \* pion: the relay of each address and the state of its lease
    allocs,      \* Server.allocs
    allocTotal,  \* Server.allocTotal
    overlap,     \* history: a quota was checked between another check and its count
    faults       \* the number of faults so far

sessionVars == <<stage, joinDay>>
relayVars == <<user, request, relay, allocs, allocTotal, overlap>>
vars == <<logVars, sessionVars, relayVars, waiting, recent, faults>>

Init ==
    /\ LogInit
    /\ stage = [p \in Peers |-> "new"]
    /\ joinDay = [p \in Peers |-> None]
    /\ waiting = {}
    /\ recent = {}
    /\ user = [a \in Addrs |-> None]
    /\ request = [a \in Addrs |-> "none"]
    /\ relay = [a \in Addrs |-> "none"]
    /\ allocs = [p \in Peers |-> 0]
    /\ allocTotal = 0
    /\ overlap = FALSE
    /\ faults = 0

Line(event, p, a) == [event |-> event, peer |-> p, addr |-> a, day |-> today]

(* Log: the line is written, or it is lost.                                 *)
LogLine(e) ==
    /\ UNCHANGED today
    /\ \/ Write(e) /\ UNCHANGED faults
       \/ WriteFails(e) /\ faults < MaxFaults /\ faults' = faults + 1

LogWaiting(p, event) ==
    \E e \in waiting :
      /\ e.peer = p /\ e.event = event
      /\ waiting' = waiting \ {e}
      /\ LogLine(e)

-----------------------------------------------------------------------------
(* The sessions.  joined -> open once the connect line is written; only     *)
(* then are the credentials made and sent.                                  *)

Sessions == Cardinality({p \in Peers : stage[p] # "new"})

Join(p) ==
    /\ stage[p] = "new"
    /\ today = 1 \/ Sessions < MaxOvernight
    /\ stage' = [stage EXCEPT ![p] = "joined"]
    /\ joinDay' = [joinDay EXCEPT ![p] = today]
    /\ waiting' = waiting \cup {Line("connect", p, None)}
    /\ UNCHANGED <<logVars, relayVars, recent, faults>>

LogConnect(p) ==
    /\ stage[p] = "joined"
    /\ LogWaiting(p, "connect")
    /\ stage' = [stage EXCEPT ![p] = "open"]
    /\ UNCHANGED <<joinDay, relayVars, recent>>

(* readLoop has returned.                                                   *)
EndSession(p) ==
    /\ stage[p] = "open"
    /\ stage' = [stage EXCEPT ![p] = "leaving"]
    /\ waiting' = waiting \cup {Line("disconnect", p, None)}
    /\ UNCHANGED <<logVars, joinDay, relayVars, recent, faults>>

(* The disconnect line, then leave.                                         *)
Leave(p) ==
    /\ stage[p] = "leaving"
    /\ LogWaiting(p, "disconnect")
    /\ stage' = [stage EXCEPT ![p] = "gone"]
    /\ UNCHANGED <<joinDay, relayVars, recent>>

(* Hub.Connected *)
Connected(p) == stage[p] \in {"joined", "open", "leaving"}

-----------------------------------------------------------------------------
(* AuthHandler: the session is connected, and the credential was issued and *)
(* is at most CredentialTTL, 12 hours, old.  At this scale of time that     *)
(* means it does not outlive the day after the session's connect line.  It  *)
(* may expire earlier: then the request of this model is not made.          *)
Issued(p) == stage[p] \in {"open", "leaving", "gone"}

(* Mutant of Authorized: any credential that was ever issued. *)
AuthorizedByIssue(p) == Issued(p) /\ today <= joinDay[p] + 1

Authorized(p) == Connected(p) /\ Issued(p) /\ today <= joinDay[p] + 1

(* Mutant of LoggedKey: once per credential, whatever the address. *)
CredentialKey(p, a) == <<p, CHOOSE b \in Addrs : TRUE>>

LoggedKey(p, a) == <<p, a>>

(* logAuth: once per hour; the address is marked before the line is         *)
(* written.  Whether an older mark is an hour old is left open.  Nothing    *)
(* depends on the pause between the mark and the line here.                 *)
LogAuth(p, a) ==
    \/ /\ recent' = recent \cup {LoggedKey(p, a)}
       /\ LogLine(Line("turn_auth", p, a))
    \/ /\ LoggedKey(p, a) \in recent
       /\ UNCHANGED <<recent, logVars, faults>>

-----------------------------------------------------------------------------
(* An Allocate request: AuthHandler, QuotaHandler, the relay is created and *)
(* counted.                                                                 *)
Allocate(a, p) ==
    /\ request[a] = "none" /\ relay[a] = "none"
    /\ Authorized(p)
    /\ user' = [user EXCEPT ![a] = p]
    /\ request' = [request EXCEPT ![a] = "authorized"]
    /\ LogAuth(p, a)
    /\ UNCHANGED <<sessionVars, waiting, relay, allocs, allocTotal, overlap>>

(* Mutant of WithinQuota: one too many. *)
LaxWithinQuota(p) ==
    /\ MaxAllocs > 0 => allocTotal <= MaxAllocs
    /\ MaxPerPeer > 0 => allocs[p] <= MaxPerPeer

WithinQuota(p) ==
    /\ MaxAllocs > 0 => allocTotal < MaxAllocs
    /\ MaxPerPeer > 0 => allocs[p] < MaxPerPeer

Drop(a) ==
    /\ request' = [request EXCEPT ![a] = "none"]
    /\ user' = [user EXCEPT ![a] = None]

CheckQuota(a) ==
    /\ request[a] = "authorized"
    /\ IF WithinQuota(user[a])
       THEN /\ request' = [request EXCEPT ![a] = "granted"]
            /\ overlap' = (overlap \/ \E b \in Addrs : request[b] = "granted")
            /\ UNCHANGED user
       ELSE Drop(a) /\ UNCHANGED overlap
    /\ UNCHANGED <<logVars, sessionVars, waiting, recent, relay, allocs,
                   allocTotal, faults>>

(* Mutant of Create: counts the relay in all only, not for its session. *)
UncountedCreate(a) ==
    /\ request[a] = "granted"
    /\ request' = [request EXCEPT ![a] = "none"]
    /\ relay' = [relay EXCEPT ![a] = "held"]
    /\ allocTotal' = allocTotal + 1
    /\ UNCHANGED <<logVars, sessionVars, waiting, recent, user, allocs, overlap, faults>>

Create(a) ==
    /\ request[a] = "granted"
    /\ request' = [request EXCEPT ![a] = "none"]
    /\ relay' = [relay EXCEPT ![a] = "held"]
    /\ allocs' = [allocs EXCEPT ![user[a]] = @ + 1]
    /\ allocTotal' = allocTotal + 1
    /\ UNCHANGED <<logVars, sessionVars, waiting, recent, user, overlap, faults>>

(* No port is free, or the client is gone.                                  *)
CreateFails(a) ==
    /\ request[a] = "granted"
    /\ Drop(a)
    /\ UNCHANGED <<logVars, sessionVars, waiting, recent, relay, allocs,
                   allocTotal, overlap, faults>>

(* The lease of a relay runs out unless a Refresh, which is authorized and  *)
(* logged like an Allocate, renews it.                                      *)
LeaseRunsOut(a) ==
    /\ relay[a] = "held"
    /\ relay' = [relay EXCEPT ![a] = "due"]
    /\ UNCHANGED <<logVars, sessionVars, waiting, recent, user, request, allocs,
                   allocTotal, overlap, faults>>

Refresh(a) ==
    /\ relay[a] = "due"
    /\ Authorized(user[a])
    /\ relay' = [relay EXCEPT ![a] = "held"]
    /\ LogAuth(user[a], a)
    /\ UNCHANGED <<sessionVars, waiting, user, request, allocs, allocTotal,
                   overlap>>

(* Expired, or deleted by its client.                                       *)
Expire(a) ==
    /\ relay[a] # "none" /\ request[a] = "none"
    /\ relay' = [relay EXCEPT ![a] = "none"]
    /\ user' = [user EXCEPT ![a] = None]
    /\ allocs' = [allocs EXCEPT ![user[a]] = @ - 1]
    /\ allocTotal' = allocTotal - 1
    /\ UNCHANGED <<logVars, sessionVars, waiting, recent, request, overlap, faults>>

-----------------------------------------------------------------------------
PurgeLog ==
    /\ \/ Purge /\ UNCHANGED faults
       \/ PurgeFails /\ faults < MaxFaults /\ faults' = faults + 1
    /\ UNCHANGED <<sessionVars, relayVars, waiting, recent>>

(* Midnight.  Writing a line takes less than a day, and a relay whose lease *)
(* ran out does not see another.                                            *)
NextDay ==
    /\ today < MaxDay /\ Sessions <= MaxOvernight
    /\ \A e \in waiting : e.day = today
    /\ \A a \in Addrs : relay[a] # "due"
    /\ today' = today + 1
    /\ UNCHANGED <<files, openDay, lost, sessionVars, relayVars, waiting,
                   recent, faults>>

(* The process dies: sessions, relays and counters go with it, and no       *)
(* session logs its end.                                                    *)
Crash ==
    /\ faults < MaxFaults
    /\ faults' = faults + 1
    /\ LogRestart(waiting)
    /\ waiting' = {}
    /\ recent' = {}
    /\ stage' = [p \in Peers |-> IF stage[p] = "new" THEN "new" ELSE "gone"]
    /\ user' = [a \in Addrs |-> None]
    /\ request' = [a \in Addrs |-> "none"]
    /\ relay' = [a \in Addrs |-> "none"]
    /\ allocs' = [p \in Peers |-> 0]
    /\ allocTotal' = 0
    /\ overlap' = FALSE
    /\ UNCHANGED joinDay

Next ==
    \/ \E p \in Peers : Join(p)
    \/ \E p \in Peers : LogConnect(p)
    \/ \E p \in Peers : EndSession(p)
    \/ \E p \in Peers : Leave(p)
    \/ \E a \in Addrs, p \in Peers : Allocate(a, p)
    \/ \E a \in Addrs : CheckQuota(a)
    \/ \E a \in Addrs : Create(a)
    \/ \E a \in Addrs : CreateFails(a)
    \/ \E a \in Addrs : LeaseRunsOut(a)
    \/ \E a \in Addrs : Refresh(a)
    \/ \E a \in Addrs : Expire(a)
    \/ PurgeLog
    \/ NextDay
    \/ Crash

Spec == Init /\ [][Next]_vars

(* Sessions that ended are logged out, requests are handled to their end,   *)
(* leases run out by the clock, and the purge runs every hour.  Nothing     *)
(* obliges a client to ask, to refresh or to leave.                         *)
FairSpec ==
    /\ Spec
    /\ WF_vars(Purge /\ PurgeLog)
    /\ \A p \in Peers : WF_vars(LogConnect(p) \/ Leave(p))
    /\ \A a \in Addrs :
         /\ WF_vars(CheckQuota(a) \/ Create(a) \/ CreateFails(a))
         /\ WF_vars(LeaseRunsOut(a) \/ (relay[a] = "due" /\ Expire(a)))

-----------------------------------------------------------------------------
(* Every variable holds a value of its kind.                                *)
TypeOK ==
    /\ DOMAIN files \subseteq Days /\ files \in [DOMAIN files -> SUBSET Entry]
    /\ openDay \in Days \cup {None}
    /\ today \in Days
    /\ lost \in SUBSET Entry
    /\ stage \in [Peers -> {"new", "joined", "open", "leaving", "gone"}]
    /\ joinDay \in [Peers -> Days \cup {None}]
    /\ waiting \in SUBSET Entry
    /\ recent \in SUBSET (Peers \X Addrs)
    /\ user \in [Addrs -> Peers \cup {None}]
    /\ request \in [Addrs -> {"none", "authorized", "granted"}]
    /\ relay \in [Addrs -> {"none", "held", "due"}]
    /\ allocs \in [Peers -> Nat]
    /\ allocTotal \in Nat
    /\ overlap \in BOOLEAN
    /\ faults \in 0..MaxFaults

(* What the properties mean by a day that is out of retention. *)
OutOfRetention(d) == d + Retention < today

RelaysOf(p) == {a \in Addrs : relay[a] # "none" /\ user[a] = p}

(* "the number of simultaneous relays is capped per session and overall":   *)
(* the counters the quota is checked against are the relays that exist, so  *)
(* that no quota is used up for good; and the relays exceed neither cap,    *)
(* except that requests checked at the same time can pass it together.      *)
QuotaKept ==
    LET relays == {a \in Addrs : relay[a] # "none"} IN
    /\ allocTotal = Cardinality(relays)
    /\ \A p \in Peers : allocs[p] = Cardinality(RelaysOf(p))
    /\ overlap \/
         /\ MaxAllocs > 0 => Cardinality(relays) <= MaxAllocs
         /\ MaxPerPeer > 0 => \A p \in Peers : Cardinality(RelaysOf(p)) <= MaxPerPeer

(* "so TURN usage in the IP log can be traced back to the room join": every *)
(* turn_auth line is found by searching the room on that line's day alone,  *)
(* across rotations, purges and crashes between lines (none is cut in half),*)
(* unless the connect line of its session was lost or is itself out of      *)
(* retention.                                                               *)
TurnLinesTraceable ==
    \A d \in Days : \A e \in Lines(d) :
      e.event = "turn_auth" =>
        \/ e \in Search(e.day, e.day + 1)
        \/ \E l \in lost : l.event = "connect" /\ l.peer = e.peer
        \/ OutOfRetention(joinDay[e.peer])

(* A relay is on record: while it exists, the log has a turn_auth line with *)
(* the address and the session it was given to, unless the line was lost or *)
(* the session is so old that the line may be out of retention.             *)
RelayLogged ==
    \A a \in Addrs :
      relay[a] # "none" =>
        LET records(es) == \E e \in es : /\ e.event = "turn_auth"
                                         /\ e.peer = user[a] /\ e.addr = a IN
        \/ records(UNION {Lines(d) : d \in Days})
        \/ records(lost)
        \/ OutOfRetention(joinDay[user[a]])

(* "relays of a session that disconnected stop at their next refresh":      *)
(* once a session has left, its relays and its requests end and none comes  *)
(* back, even one that was authorized before.                               *)
RelaysEnd ==
    \A p \in Peers :
      stage[p] = "gone" ~> [](\A a \in Addrs : user[a] # p)

(* "Purge deletes daily files whose whole day is older than the retention   *)
(* period": again and again no such file is left, although a purge may give *)
(* up half-way and lines are written late.                                  *)
OldFilesRemoved == []<>(\A d \in DOMAIN files : ~OutOfRetention(d))
=============================================================================
