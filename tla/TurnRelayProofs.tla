--------------------------- MODULE TurnRelayProofs ---------------------------
(***************************************************************************)
(* Theorems about TurnRelay for every set of sessions and addresses, every  *)
(* cap and every retention.                                                 *)
(***************************************************************************)
EXTENDS TurnRelay, FiniteSetTheorems, TLAPS

Relays == {a \in Addrs : relay[a] # "none"}

-----------------------------------------------------------------------------
(* The inductive invariant, part 1: the counters and the caps.              *)

(* A request or a relay has an owner, and an address has only one of them.  *)
Owned ==
    \A a \in Addrs :
      /\ (request[a] # "none" \/ relay[a] # "none") => user[a] \in Peers
      /\ request[a] # "none" => relay[a] = "none"

(* Unless quota checks overlapped, at most one request is between its check *)
(* and its count, and what it found still holds.                            *)
Alone ==
    overlap \/
      /\ \A a, b \in Addrs : request[a] = "granted" /\ request[b] = "granted" => a = b
      /\ \A a \in Addrs : request[a] = "granted" => WithinQuota(user[a])

QuotaInv == Owned /\ IsFiniteSet(Relays) /\ QuotaKept /\ Alone

(* Part 2: the log.                                                         *)

(* Sessions joined on a day that has come; until its connect line is        *)
(* written, a session waits for it, and no other connect line is waiting.   *)
ConnectLine(p) == [event |-> "connect", peer |-> p, addr |-> None, day |-> joinDay[p]]

Joins ==
    /\ \A p \in Peers :
         /\ stage[p] # "new" => joinDay[p] \in Days /\ joinDay[p] <= today
         /\ stage[p] = "joined" => ConnectLine(p) \in waiting
    /\ \A e \in waiting :
         e.event = "connect" => stage[e.peer] # "new" /\ e = ConnectLine(e.peer)

LinesInPlace == \A d \in Days : \A e \in Lines(d) : e.day = d

ConnectRecorded(p) ==
    \/ ConnectLine(p) \in Lines(joinDay[p])
    \/ \E l \in lost : l.event = "connect" /\ l.peer = p
    \/ OutOfRetention(joinDay[p])

ConnectLogged == \A p \in Peers : Issued(p) => ConnectRecorded(p)

(* A credential is used on the day of its session's connect line or on the  *)
(* next.                                                                    *)
InTime(e, d) ==
    Issued(e.peer) /\ joinDay[e.peer] <= d /\ d <= joinDay[e.peer] + 1

AuthInTime ==
    \A d \in Days : \A e \in Lines(d) : e.event = "turn_auth" => InTime(e, d)

IsRecord(e, p, a) == e.event = "turn_auth" /\ e.peer = p /\ e.addr = a

Recorded(p, a) ==
    \/ \E d \in Days : \E e \in Lines(d) : IsRecord(e, p, a)
    \/ \E e \in lost : IsRecord(e, p, a)
    \/ OutOfRetention(joinDay[p])

RecentRecorded ==
    /\ \A p \in Peers, a \in Addrs : <<p, a>> \in recent => stage[p] # "new" /\ Recorded(p, a)
    /\ \A a \in Addrs :
         (request[a] # "none" \/ relay[a] # "none") => <<user[a], a>> \in recent

LogInv == Joins /\ LinesInPlace /\ ConnectLogged /\ AuthInTime /\ RecentRecorded

Inv == TypeOK /\ QuotaInv /\ LogInv

-----------------------------------------------------------------------------
(* The log.                                                                 *)

LEMMA LinesType ==
    ASSUME TypeOK, NEW d
    PROVE  Lines(d) \in SUBSET Entry
BY DEF TypeOK, Lines

LEMMA LineType ==
    ASSUME TypeOK, NEW p \in Peers
    PROVE  /\ Line("connect", p, None) \in Entry
           /\ Line("disconnect", p, None) \in Entry
           /\ \A a \in Addrs : Line("turn_auth", p, a) \in Entry
BY DEF TypeOK, Line, Entry, RoomEvents

(* A file that is opened for a line keeps what it has.                      *)
LEMMA OpenedLemma ==
    ASSUME TypeOK, NEW d \in Days, NEW S \in SUBSET Entry, Opened(d, S)
    PROVE  /\ DOMAIN files' \subseteq Days
           /\ files' \in [DOMAIN files' -> SUBSET Entry]
           /\ openDay' \in Days
           /\ Lines(d)' = S
           /\ \A x \in Days \ {d} : Lines(x)' = Lines(x)
BY DEF TypeOK, Opened, Lines

(* Log adds its line to the file of the line's day, or loses it.            *)
LEMMA LogLineLemma ==
    ASSUME TypeOK, NEW e \in Entry, LogLine(e)
    PROVE  /\ today' = today
           /\ DOMAIN files' \subseteq Days
           /\ files' \in [DOMAIN files' -> SUBSET Entry]
           /\ openDay' \in Days \cup {None}
           /\ lost' \in SUBSET Entry
           /\ faults' \in 0..MaxFaults
           /\ lost \subseteq lost'
           /\ \A d \in Days : Lines(d) \subseteq Lines(d)'
           /\ \A d \in Days : \A x \in Lines(d)' : x \in Lines(d) \/ (x = e /\ d = e.day)
           /\ e \in Lines(e.day)' \/ e \in lost'
<1>1. e.day \in Days /\ Lines(e.day) \in SUBSET Entry
  BY LinesType DEF Entry
<1>2. today' = today
  BY DEF LogLine
<1>3. CASE Write(e) /\ UNCHANGED faults
  <2> DEFINE S == Lines(e.day) \cup {e}
  <2>1. Opened(e.day, S) /\ lost' = lost /\ faults' = faults
    BY <1>3 DEF Write
  <2>2. S \in SUBSET Entry /\ e \in S /\ Lines(e.day) \subseteq S
    BY <1>1
  <2>3. \A x \in S : x \in Lines(e.day) \/ x = e
    OBVIOUS
  <2> HIDE DEF S
  <2>4. /\ DOMAIN files' \subseteq Days
        /\ files' \in [DOMAIN files' -> SUBSET Entry]
        /\ openDay' \in Days
        /\ Lines(e.day)' = S
        /\ \A x \in Days \ {e.day} : Lines(x)' = Lines(x)
    BY <1>1, <2>1, <2>2, OpenedLemma
  <2> QED
    BY <1>1, <1>2, <2>1, <2>2, <2>3, <2>4 DEF TypeOK
<1>4. CASE WriteFails(e) /\ faults < MaxFaults /\ faults' = faults + 1
  <2>1. lost' = lost \cup {e} /\ lost' \in SUBSET Entry /\ faults' \in 0..MaxFaults
    BY <1>4, BoundsAssumption DEF WriteFails, TypeOK
  <2>2. CASE Opened(e.day, Lines(e.day))
    <3>1. /\ DOMAIN files' \subseteq Days
          /\ files' \in [DOMAIN files' -> SUBSET Entry]
          /\ openDay' \in Days
          /\ Lines(e.day)' = Lines(e.day)
          /\ \A x \in Days \ {e.day} : Lines(x)' = Lines(x)
      BY <1>1, <2>2, OpenedLemma
    <3> QED
      BY <1>1, <1>2, <2>1, <3>1
  <2>3. CASE openDay' = None /\ UNCHANGED files
    <3>1. \A d : Lines(d)' = Lines(d)
      BY <2>3 DEF Lines
    <3> QED
      BY <1>1, <1>2, <2>1, <2>3, <3>1 DEF TypeOK
  <2> QED
    BY <1>4, <2>2, <2>3 DEF WriteFails
<1> QED
  BY <1>3, <1>4 DEF LogLine

(* A purge takes the lines of whole days, all of them out of retention.     *)
LEMMA PurgeLemma ==
    ASSUME TypeOK, NEW stop, PurgeUpTo(stop)
    PROVE  /\ DOMAIN files' \subseteq Days
           /\ files' \in [DOMAIN files' -> SUBSET Entry]
           /\ openDay' \in Days \cup {None}
           /\ \A d \in Days : \/ Lines(d)' = Lines(d)
                              \/ Lines(d)' = {} /\ OutOfRetention(d)
<1> DEFINE removed == {d \in ExpiredDays : d < stop}
<1>1. files' = [d \in DOMAIN files \ removed |-> files[d]]
  BY DEF PurgeUpTo
<1>2. openDay' \in Days \cup {None}
  BY DEF PurgeUpTo, TypeOK
<1>3. \A d \in removed : OutOfRetention(d)
  BY DEF ExpiredDays, Expired, OutOfRetention
<1> HIDE DEF removed
<1> QED
  BY <1>1, <1>2, <1>3 DEF TypeOK, Lines

-----------------------------------------------------------------------------
(* The quotas.                                                              *)

LEMMA RelaySets ==
    ASSUME IsFiniteSet(Relays)
    PROVE  /\ Cardinality(Relays) \in Nat
           /\ \A p \in Peers : /\ IsFiniteSet(RelaysOf(p))
                               /\ Cardinality(RelaysOf(p)) \in Nat
<1>1. ASSUME NEW p \in Peers
      PROVE  RelaysOf(p) \subseteq Relays
  BY DEF RelaysOf, Relays
<1> QED
  BY <1>1, FS_Subset, FS_CardinalityType

(* Steps that neither create nor end a relay.                               *)
LEMMA SameRelays ==
    ASSUME QuotaInv,
           \A a \in Addrs : relay'[a] = "none" <=> relay[a] = "none",
           \A a \in Addrs : relay[a] # "none" => user'[a] = user[a],
           UNCHANGED <<allocs, allocTotal>>,
           overlap => overlap'
    PROVE  IsFiniteSet(Relays)' /\ QuotaKept'
<1>1. Relays' = Relays
  BY DEF Relays
<1>2. \A p \in Peers : RelaysOf(p)' = RelaysOf(p)
  BY DEF RelaysOf
<1> QED
  BY <1>1, <1>2 DEF QuotaInv, QuotaKept, Relays

LEMMA CheckQuotaKeepsQuota ==
    ASSUME TypeOK, QuotaInv, NEW a \in Addrs, CheckQuota(a)
    PROVE  QuotaInv'
<1>1. /\ request[a] = "authorized"
      /\ UNCHANGED <<relay, allocs, allocTotal>>
      /\ \A b \in Addrs \ {a} : request'[b] = request[b] /\ user'[b] = user[b]
      /\ (request'[a] = "granted" /\ user'[a] = user[a]) \/ request'[a] = "none"
  BY DEF CheckQuota, Drop, TypeOK
<1>2. /\ overlap => overlap'
      /\ request'[a] = "granted" =>
           /\ overlap' = (overlap \/ \E b \in Addrs : request[b] = "granted")
           /\ WithinQuota(user[a]) /\ user'[a] = user[a]
  BY DEF CheckQuota, Drop, TypeOK
<1>3. IsFiniteSet(Relays)' /\ QuotaKept'
  BY <1>1, <1>2, SameRelays DEF QuotaInv, Owned
<1>4. Owned'
  BY <1>1 DEF QuotaInv, Owned
<1>5. \A q : WithinQuota(q)' <=> WithinQuota(q)
  BY <1>1 DEF WithinQuota
<1>6. Alone'
  <2> SUFFICES ASSUME ~overlap'
               PROVE  /\ \A b, c \in Addrs : request'[b] = "granted" /\ request'[c] = "granted" => b = c
                      /\ \A b \in Addrs : request'[b] = "granted" => WithinQuota(user[b])'
    BY DEF Alone
  <2>1. CASE request'[a] = "granted"
    BY <1>1, <1>2, <1>5, <2>1
  <2>2. CASE request'[a] = "none"
    BY <1>1, <1>2, <1>5, <2>2 DEF QuotaInv, Alone
  <2> QED
    BY <1>1, <2>1, <2>2
<1> QED
  BY <1>3, <1>4, <1>6 DEF QuotaInv

LEMMA CreateKeepsQuota ==
    ASSUME TypeOK, QuotaInv, NEW a \in Addrs, Create(a)
    PROVE  QuotaInv'
<1>0. PICK p \in Peers : p = user[a]
  BY DEF Create, QuotaInv, Owned
<1>1. /\ p = user[a] /\ relay[a] = "none" /\ request[a] = "granted"
      /\ \A b \in Addrs \ {a} : relay'[b] = relay[b] /\ request'[b] = request[b]
      /\ relay'[a] = "held" /\ request'[a] = "none"
      /\ allocs'[p] = allocs[p] + 1 /\ \A q \in Peers \ {p} : allocs'[q] = allocs[q]
      /\ allocTotal' = allocTotal + 1
      /\ UNCHANGED <<user, overlap>>
  BY <1>0 DEF Create, TypeOK, QuotaInv, Owned
<1>2. /\ Relays' = Relays \cup {a} /\ a \notin Relays
      /\ RelaysOf(p)' = RelaysOf(p) \cup {a} /\ a \notin RelaysOf(p)
      /\ \A q \in Peers \ {p} : RelaysOf(q)' = RelaysOf(q)
  BY <1>1 DEF Relays, RelaysOf
<1>3. IsFiniteSet(Relays) /\ IsFiniteSet(RelaysOf(p))
  BY <1>1, RelaySets DEF QuotaInv
<1>4. /\ IsFiniteSet(Relays') /\ Cardinality(Relays') = Cardinality(Relays) + 1
      /\ Cardinality(RelaysOf(p)') = Cardinality(RelaysOf(p)) + 1
  BY <1>2, <1>3, FS_AddElement
<1>5. Owned'
  BY <1>1 DEF QuotaInv, Owned
<1>6. Alone'
  BY <1>1 DEF QuotaInv, Alone
<1>7. /\ allocTotal = Cardinality(Relays)
      /\ \A q \in Peers : allocs[q] = Cardinality(RelaysOf(q))
      /\ overlap \/ /\ MaxAllocs > 0 => Cardinality(Relays) <= MaxAllocs
                    /\ MaxPerPeer > 0 => \A q \in Peers : Cardinality(RelaysOf(q)) <= MaxPerPeer
  BY DEF QuotaInv, QuotaKept, Relays
<1>8. ~overlap => /\ MaxAllocs > 0 => allocTotal < MaxAllocs
                  /\ MaxPerPeer > 0 => allocs[p] < MaxPerPeer
  BY <1>1 DEF QuotaInv, Alone, WithinQuota
<1>9. /\ allocTotal' = Cardinality(Relays')
      /\ \A q \in Peers : allocs'[q] = Cardinality(RelaysOf(q)')
  BY <1>1, <1>2, <1>4, <1>7
<1>10. overlap \/ /\ MaxAllocs > 0 => Cardinality(Relays') <= MaxAllocs
                  /\ MaxPerPeer > 0 => \A q \in Peers : Cardinality(RelaysOf(q)') <= MaxPerPeer
  <2>1. /\ allocTotal \in Nat /\ allocs[p] \in Nat
        /\ MaxAllocs \in Nat /\ MaxPerPeer \in Nat
    BY <1>1, QuotaAssumption DEF TypeOK
  <2>2. ASSUME ~overlap, MaxAllocs > 0
        PROVE  Cardinality(Relays') <= MaxAllocs
    BY <1>4, <1>7, <1>8, <2>1, <2>2
  <2>3. ASSUME ~overlap, MaxPerPeer > 0, NEW q \in Peers
        PROVE  Cardinality(RelaysOf(q)') <= MaxPerPeer
    <3>1. CASE q = p
      BY <1>4, <1>7, <1>8, <2>1, <2>3, <3>1
    <3>2. CASE q # p
      BY <1>2, <1>7, <2>3, <3>2
    <3> QED
      BY <3>1, <3>2
  <2> QED
    BY <2>2, <2>3
<1>11. QuotaKept'
  BY <1>1, <1>9, <1>10 DEF QuotaKept, Relays
<1> QED
  BY <1>4, <1>5, <1>6, <1>11 DEF QuotaInv

LEMMA ExpireKeepsQuota ==
    ASSUME TypeOK, QuotaInv, NEW a \in Addrs, Expire(a)
    PROVE  QuotaInv' /\ allocTotal' \in Nat /\ allocs' \in [Peers -> Nat]
<1>0. PICK p \in Peers : p = user[a]
  BY DEF Expire, QuotaInv, Owned
<1>1. /\ p = user[a] /\ relay[a] # "none" /\ request[a] = "none"
      /\ \A b \in Addrs \ {a} : relay'[b] = relay[b] /\ user'[b] = user[b]
      /\ relay'[a] = "none"
      /\ allocs' = [allocs EXCEPT ![p] = @ - 1]
      /\ allocs'[p] = allocs[p] - 1 /\ \A q \in Peers \ {p} : allocs'[q] = allocs[q]
      /\ allocTotal' = allocTotal - 1
      /\ UNCHANGED <<request, overlap>>
  BY <1>0 DEF Expire, TypeOK, QuotaInv, Owned
<1>2. /\ Relays' = Relays \ {a} /\ a \in Relays
      /\ RelaysOf(p)' = RelaysOf(p) \ {a} /\ a \in RelaysOf(p)
  BY <1>1 DEF Relays, RelaysOf
<1>3. \A q \in Peers \ {p} : RelaysOf(q)' = RelaysOf(q)
  BY <1>1 DEF RelaysOf
<1>4. /\ IsFiniteSet(Relays) /\ Cardinality(Relays) \in Nat
      /\ \A q \in Peers : IsFiniteSet(RelaysOf(q)) /\ Cardinality(RelaysOf(q)) \in Nat
  BY RelaySets DEF QuotaInv
<1>5. /\ IsFiniteSet(Relays') /\ Cardinality(Relays') = Cardinality(Relays) - 1
      /\ Cardinality(Relays') \in Nat
      /\ Cardinality(RelaysOf(p)') = Cardinality(RelaysOf(p)) - 1
      /\ Cardinality(RelaysOf(p)') \in Nat
  BY <1>1, <1>2, <1>4, FS_RemoveElement, FS_CardinalityType
<1>6. /\ allocTotal = Cardinality(Relays)
      /\ \A q \in Peers : allocs[q] = Cardinality(RelaysOf(q))
      /\ overlap \/ /\ MaxAllocs > 0 => Cardinality(Relays) <= MaxAllocs
                    /\ MaxPerPeer > 0 => \A q \in Peers : Cardinality(RelaysOf(q)) <= MaxPerPeer
  BY DEF QuotaInv, QuotaKept, Relays
<1>7. /\ allocTotal' = Cardinality(Relays')
      /\ \A q \in Peers : allocs'[q] = Cardinality(RelaysOf(q)')
  BY <1>1, <1>3, <1>5, <1>6
<1>8. allocTotal' \in Nat /\ allocs' \in [Peers -> Nat]
  BY <1>1, <1>5, <1>6 DEF TypeOK
<1>9. Owned'
  BY <1>1 DEF QuotaInv, Owned
<1>10. overlap \/ /\ MaxAllocs > 0 => Cardinality(Relays') <= MaxAllocs
                  /\ MaxPerPeer > 0 => \A q \in Peers : Cardinality(RelaysOf(q)') <= MaxPerPeer
  <2>1. MaxAllocs \in Nat /\ MaxPerPeer \in Nat
    BY QuotaAssumption
  <2> QED
    BY <1>1, <1>3, <1>4, <1>5, <1>6, <2>1
<1>11. QuotaKept'
  BY <1>1, <1>7, <1>10 DEF QuotaKept, Relays
<1>12. Alone'
  <2> SUFFICES ASSUME ~overlap, NEW b \in Addrs, request[b] = "granted"
               PROVE  WithinQuota(user[b])'
    BY <1>1 DEF QuotaInv, Alone
  <2>1. b # a /\ user'[b] = user[b] /\ user[b] \in Peers /\ WithinQuota(user[b])
    BY <1>1 DEF QuotaInv, Alone, Owned
  <2>2. /\ allocTotal \in Nat /\ allocs[user[b]] \in Nat /\ allocs[p] \in Nat
        /\ MaxAllocs \in Nat /\ MaxPerPeer \in Nat
    BY <1>1, <2>1, QuotaAssumption DEF TypeOK
  <2>3. allocTotal' <= allocTotal /\ allocs'[user[b]] <= allocs[user[b]]
    BY <1>1, <2>1, <2>2
  <2>4. allocTotal' \in Nat /\ allocs'[user[b]] \in Nat
    BY <1>8, <2>1
  <2> QED
    BY <2>1, <2>2, <2>3, <2>4 DEF WithinQuota
<1> QED
  BY <1>5, <1>8, <1>9, <1>11, <1>12 DEF QuotaInv

(* Requests that begin and requests that end without a relay.               *)
LEMMA RequestKeepsQuota ==
    ASSUME TypeOK, QuotaInv, NEW a \in Addrs, relay[a] = "none",
           \/ request'[a] = "authorized" /\ user'[a] \in Peers
           \/ request'[a] = "none",
           \A b \in Addrs \ {a} : request'[b] = request[b] /\ user'[b] = user[b],
           UNCHANGED <<relay, allocs, allocTotal, overlap>>
    PROVE  QuotaInv'
<1>1. IsFiniteSet(Relays)' /\ QuotaKept'
  BY SameRelays
<1>2. Owned'
  BY DEF QuotaInv, Owned
<1>3. Alone'
  BY DEF QuotaInv, Alone, WithinQuota
<1> QED
  BY <1>1, <1>2, <1>3 DEF QuotaInv

(* A lease that runs out or is renewed.                                     *)
LEMMA LeaseKeepsQuota ==
    ASSUME TypeOK, QuotaInv, NEW a \in Addrs, relay[a] # "none", relay'[a] # "none",
           \A b \in Addrs \ {a} : relay'[b] = relay[b],
           UNCHANGED <<user, request, allocs, allocTotal, overlap>>
    PROVE  QuotaInv'
<1>1. IsFiniteSet(Relays)' /\ QuotaKept'
  BY SameRelays
<1>2. Owned'
  BY DEF QuotaInv, Owned
<1>3. Alone'
  BY DEF QuotaInv, Alone, WithinQuota
<1> QED
  BY <1>1, <1>2, <1>3 DEF QuotaInv

LEMMA StillKeepsQuota ==
    ASSUME TypeOK, QuotaInv, UNCHANGED relayVars
    PROVE  QuotaInv'
<1>1. IsFiniteSet(Relays)' /\ QuotaKept'
  BY SameRelays DEF relayVars
<1>2. Owned' /\ Alone'
  BY DEF QuotaInv, Owned, Alone, WithinQuota, relayVars
<1> QED
  BY <1>1, <1>2 DEF QuotaInv

(* Without relays, all is zero.                                             *)
NoneLeft ==
    /\ \A a \in Addrs : relay[a] = "none" /\ request[a] = "none"
    /\ allocs = [p \in Peers |-> 0]
    /\ allocTotal = 0

LEMMA NoRelays == NoneLeft => QuotaInv
<1> SUFFICES ASSUME NoneLeft PROVE QuotaInv
  OBVIOUS
<1> USE DEF NoneLeft
<1>1. Relays = {} /\ \A p \in Peers : RelaysOf(p) = {}
  BY DEF Relays, RelaysOf
<1>2. IsFiniteSet(Relays) /\ Cardinality(Relays) = 0 /\ Cardinality({}) = 0
  BY <1>1, FS_EmptySet
<1>3. QuotaKept
  BY <1>1, <1>2, QuotaAssumption DEF QuotaKept, Relays
<1> QED
  BY <1>2, <1>3 DEF QuotaInv, Owned, Alone

-----------------------------------------------------------------------------
(* Types.                                                                   *)

LEMMA LogAuthType ==
    ASSUME TypeOK, NEW p \in Peers, NEW a \in Addrs, LogAuth(p, a)
    PROVE  /\ today' = today
           /\ DOMAIN files' \subseteq Days
           /\ files' \in [DOMAIN files' -> SUBSET Entry]
           /\ openDay' \in Days \cup {None}
           /\ lost' \in SUBSET Entry
           /\ faults' \in 0..MaxFaults
           /\ recent' \in SUBSET (Peers \X Addrs)
<1>1. CASE LogLine(Line("turn_auth", p, a)) /\ recent' = recent \cup {LoggedKey(p, a)}
  BY <1>1, LineType, LogLineLemma DEF TypeOK, LoggedKey
<1>2. CASE UNCHANGED <<recent, logVars, faults>>
  BY <1>2 DEF TypeOK, logVars
<1> QED
  BY <1>1, <1>2 DEF LogAuth

LEMMA TypeStep ==
    ASSUME TypeOK, QuotaInv, Next
    PROVE  TypeOK'
<1> USE DEF TypeOK
<1>1. ASSUME NEW p \in Peers, Join(p) PROVE TypeOK'
  <2>1. waiting' \in SUBSET Entry
    BY <1>1, LineType DEF Join
  <2> QED
    BY <1>1, <2>1 DEF Join, logVars, relayVars
<1>2. ASSUME NEW p \in Peers, LogConnect(p) PROVE TypeOK'
  <2>1. PICK e \in waiting : waiting' = waiting \ {e} /\ LogLine(e)
    BY <1>2 DEF LogConnect, LogWaiting
  <2>2. e \in Entry
    OBVIOUS
  <2> QED
    BY <1>2, <2>1, <2>2, LogLineLemma DEF LogConnect, relayVars
<1>3. ASSUME NEW p \in Peers, EndSession(p) PROVE TypeOK'
  <2>1. waiting' \in SUBSET Entry
    BY <1>3, LineType DEF EndSession
  <2> QED
    BY <1>3, <2>1 DEF EndSession, logVars, relayVars
<1>4. ASSUME NEW p \in Peers, Leave(p) PROVE TypeOK'
  <2>1. PICK e \in waiting : waiting' = waiting \ {e} /\ LogLine(e)
    BY <1>4 DEF Leave, LogWaiting
  <2>2. e \in Entry
    OBVIOUS
  <2> QED
    BY <1>4, <2>1, <2>2, LogLineLemma DEF Leave, relayVars
<1>5. ASSUME NEW a \in Addrs, NEW p \in Peers, Allocate(a, p) PROVE TypeOK'
  BY <1>5, LogAuthType DEF Allocate, sessionVars
<1>6. ASSUME NEW a \in Addrs, CheckQuota(a) PROVE TypeOK'
  BY <1>6 DEF CheckQuota, Drop, logVars, sessionVars
<1>7. ASSUME NEW a \in Addrs, Create(a) PROVE TypeOK'
  <2>1. user[a] \in Peers
    BY <1>7 DEF Create, QuotaInv, Owned
  <2>2. allocs' \in [Peers -> Nat] /\ allocTotal' \in Nat
    BY <1>7, <2>1 DEF Create
  <2> QED
    BY <1>7, <2>2 DEF Create, logVars, sessionVars
<1>8. ASSUME NEW a \in Addrs, CreateFails(a) PROVE TypeOK'
  BY <1>8 DEF CreateFails, Drop, logVars, sessionVars
<1>9. ASSUME NEW a \in Addrs, LeaseRunsOut(a) PROVE TypeOK'
  BY <1>9 DEF LeaseRunsOut, logVars, sessionVars
<1>10. ASSUME NEW a \in Addrs, Refresh(a) PROVE TypeOK'
  <2>1. user[a] \in Peers
    BY <1>10 DEF Refresh, QuotaInv, Owned
  <2> QED
    BY <1>10, <2>1, LogAuthType DEF Refresh, sessionVars
<1>11. ASSUME NEW a \in Addrs, Expire(a) PROVE TypeOK'
  <2>1. allocTotal' \in Nat /\ allocs' \in [Peers -> Nat]
    BY <1>11, ExpireKeepsQuota
  <2> QED
    BY <1>11, <2>1 DEF Expire, logVars, sessionVars
<1>12. ASSUME PurgeLog PROVE TypeOK'
  <2>1. PICK stop : PurgeUpTo(stop) /\ faults' \in 0..MaxFaults
    BY <1>12, BoundsAssumption DEF PurgeLog, Purge, PurgeFails
  <2>2. /\ DOMAIN files' \subseteq Days
        /\ files' \in [DOMAIN files' -> SUBSET Entry]
        /\ openDay' \in Days \cup {None}
        /\ UNCHANGED <<today, lost>>
    BY <2>1, PurgeLemma DEF PurgeUpTo
  <2> QED
    BY <1>12, <2>1, <2>2 DEF PurgeLog, sessionVars, relayVars
<1>13. ASSUME NextDay PROVE TypeOK'
  BY <1>13, MaxDayAssumption DEF NextDay, Days, sessionVars, relayVars
<1>14. ASSUME Crash PROVE TypeOK'
  <2>1. /\ DOMAIN files' \subseteq Days
        /\ files' \in [DOMAIN files' -> SUBSET Entry]
        /\ openDay' \in Days \cup {None}
        /\ today' \in Days
        /\ lost' \in SUBSET Entry
    BY <1>14 DEF Crash, LogRestart
  <2>2. stage' \in [Peers -> {"new", "joined", "open", "leaving", "gone"}]
    BY <1>14 DEF Crash
  <2>3. /\ user' \in [Addrs -> Peers \cup {None}]
        /\ request' \in [Addrs -> {"none", "authorized", "granted"}]
        /\ relay' \in [Addrs -> {"none", "held", "due"}]
    BY <1>14 DEF Crash
  <2>4. faults' \in 0..MaxFaults
    BY <1>14, BoundsAssumption DEF Crash
  <2>5. allocs' \in [Peers -> Nat] /\ allocTotal' \in Nat
    BY <1>14 DEF Crash
  <2> QED
    BY <1>14, <2>1, <2>2, <2>3, <2>4, <2>5 DEF Crash
<1> QED
  BY <1>1, <1>2, <1>3, <1>4, <1>5, <1>6, <1>7, <1>8, <1>9, <1>10, <1>11, <1>12,
     <1>13, <1>14 DEF Next

LEMMA QuotaStep ==
    ASSUME TypeOK, QuotaInv, Next
    PROVE  QuotaInv'
<1>1. ASSUME NEW p \in Peers, Join(p) \/ LogConnect(p) \/ EndSession(p) \/ Leave(p)
      PROVE  QuotaInv'
  BY <1>1, StillKeepsQuota DEF Join, LogConnect, EndSession, Leave
<1>2. ASSUME NEW a \in Addrs, NEW p \in Peers, Allocate(a, p) PROVE QuotaInv'
  BY <1>2, RequestKeepsQuota DEF Allocate, TypeOK
<1>3. ASSUME NEW a \in Addrs, CheckQuota(a) PROVE QuotaInv'
  BY <1>3, CheckQuotaKeepsQuota
<1>4. ASSUME NEW a \in Addrs, Create(a) PROVE QuotaInv'
  BY <1>4, CreateKeepsQuota
<1>5. ASSUME NEW a \in Addrs, CreateFails(a) PROVE QuotaInv'
  <2>1. relay[a] = "none"
    BY <1>5 DEF CreateFails, QuotaInv, Owned
  <2> QED
    BY <1>5, <2>1, RequestKeepsQuota DEF CreateFails, Drop, TypeOK
<1>6. ASSUME NEW a \in Addrs, LeaseRunsOut(a) PROVE QuotaInv'
  BY <1>6, LeaseKeepsQuota DEF LeaseRunsOut, TypeOK
<1>7. ASSUME NEW a \in Addrs, Refresh(a) PROVE QuotaInv'
  BY <1>7, LeaseKeepsQuota DEF Refresh, TypeOK
<1>8. ASSUME NEW a \in Addrs, Expire(a) PROVE QuotaInv'
  BY <1>8, ExpireKeepsQuota
<1>9. ASSUME PurgeLog \/ NextDay PROVE QuotaInv'
  BY <1>9, StillKeepsQuota DEF PurgeLog, NextDay
<1>10. ASSUME Crash PROVE QuotaInv'
  <2>1. NoneLeft'
    BY <1>10 DEF Crash, NoneLeft
  <2> QED
    BY <2>1, NoRelays, PTL
<1> QED
  BY <1>1, <1>2, <1>3, <1>4, <1>5, <1>6, <1>7, <1>8, <1>9, <1>10 DEF Next

-----------------------------------------------------------------------------
(* What every step does to the log and the sessions: a line stays or is out *)
(* of retention, new lines are in their place and in time, and a session    *)
(* keeps the day it joined.                                                 *)

LogKept ==
    /\ today' \in Days /\ today <= today'
    /\ lost \subseteq lost'
    /\ \A d \in Days : \A e \in Lines(d) : e \in Lines(d)' \/ OutOfRetention(d)'
    /\ \A d \in Days : \A e \in Lines(d)' :
         \/ e \in Lines(d)
         \/ e.day = d /\ (e.event = "turn_auth" => InTime(e, d))

SessionsKept ==
    \A p \in Peers :
      /\ Issued(p) => Issued(p)'
      /\ stage[p] # "new" => stage'[p] # "new" /\ joinDay'[p] = joinDay[p]

LEMMA StillLog ==
    ASSUME TypeOK, UNCHANGED <<files, lost, today>>
    PROVE  LogKept
BY DEF LogKept, Lines, TypeOK, Days

LEMMA LogLineKept ==
    ASSUME TypeOK, NEW e \in Entry, LogLine(e),
           e.event = "turn_auth" => InTime(e, e.day)
    PROVE  LogKept
<1>1. /\ today' = today
      /\ lost \subseteq lost'
      /\ \A d \in Days : Lines(d) \subseteq Lines(d)'
      /\ \A d \in Days : \A x \in Lines(d)' : x \in Lines(d) \/ (x = e /\ d = e.day)
  BY LogLineLemma
<1> QED
  BY <1>1 DEF LogKept, TypeOK, Days

LEMMA KeptJoinDay ==
    ASSUME TypeOK, Joins, SessionsKept, NEW p \in Peers, stage[p] # "new"
    PROVE  /\ stage'[p] # "new"
           /\ joinDay'[p] = joinDay[p] /\ joinDay[p] \in Days /\ joinDay[p] <= today
           /\ ConnectLine(p)' = ConnectLine(p)
BY DEF Joins, SessionsKept, ConnectLine

LEMMA KeptOutOfRetention ==
    ASSUME TypeOK, LogKept, NEW d \in Days, NEW x \in Days, x <= d
    PROVE  /\ OutOfRetention(x) => OutOfRetention(x)'
           /\ OutOfRetention(d)' => OutOfRetention(x)'
BY RetentionAssumption DEF TypeOK, LogKept, OutOfRetention, Days

LEMMA KeptInTime ==
    ASSUME TypeOK, TypeOK', LogInv, LogKept, SessionsKept
    PROVE  LinesInPlace' /\ AuthInTime'
<1>1. ASSUME NEW d \in Days, NEW e \in Lines(d)'
      PROVE  e.day = d
  BY <1>1 DEF LogInv, LinesInPlace, LogKept
<1>2. ASSUME NEW d \in Days, NEW e \in Lines(d)', e.event = "turn_auth", e.peer \in Peers
      PROVE  InTime(e, d)'
  <2>1. InTime(e, d)
    BY <1>2 DEF LogInv, AuthInTime, LogKept
  <2>2. stage[e.peer] # "new"
    BY <2>1 DEF InTime, Issued
  <2> QED
    BY <1>2, <2>1, <2>2 DEF InTime, SessionsKept
<1>3. ASSUME NEW d \in Days, NEW e \in Lines(d)', e.event = "turn_auth"
      PROVE  e.peer \in Peers
  <2>1. e \in Entry
    BY DEF TypeOK, Lines
  <2> QED
    BY <2>1 DEF Entry
<1> QED
  BY <1>1, <1>2, <1>3 DEF LinesInPlace, AuthInTime

LEMMA KeptConnect ==
    ASSUME TypeOK, LogInv, LogKept, SessionsKept, NEW p \in Peers, Issued(p)
    PROVE  ConnectRecorded(p)'
<1>1. stage[p] # "new"
  BY DEF Issued
<1>2. /\ joinDay'[p] = joinDay[p] /\ joinDay[p] \in Days
      /\ ConnectLine(p)' = ConnectLine(p)
  BY <1>1, KeptJoinDay DEF LogInv
<1>3. ConnectRecorded(p)
  BY DEF LogInv, ConnectLogged
<1>4. OutOfRetention(joinDay[p]) => OutOfRetention(joinDay[p])'
  <2> DEFINE d == joinDay[p]
  <2>1. ASSUME NEW x \in Days, OutOfRetention(x) PROVE OutOfRetention(x)'
    BY <2>1, KeptOutOfRetention DEF Days
  <2> QED
    BY <1>2, <2>1 DEF OutOfRetention
<1>5. CASE ConnectLine(p) \in Lines(joinDay[p])
  <2>1. PICK d \in Days : d = joinDay[p]
    BY <1>2
  <2>2. ConnectLine(p) \in Lines(d)' \/ OutOfRetention(d)'
    BY <1>5, <2>1 DEF LogKept
  <2>3. joinDay'[p] = d
    BY <1>2, <2>1
  <2> QED
    BY <1>2, <2>2, <2>3 DEF ConnectRecorded, OutOfRetention, Lines
<1>6. CASE \E l \in lost : l.event = "connect" /\ l.peer = p
  BY <1>6 DEF ConnectRecorded, LogKept
<1>7. CASE OutOfRetention(joinDay[p])
  BY <1>2, <1>4, <1>7 DEF ConnectRecorded, OutOfRetention
<1> QED
  BY <1>3, <1>5, <1>6, <1>7 DEF ConnectRecorded

LEMMA KeptRecord ==
    ASSUME TypeOK, LogInv, LogKept, SessionsKept,
           NEW p \in Peers, NEW a \in Addrs, stage[p] # "new", Recorded(p, a)
    PROVE  Recorded(p, a)'
<1>1. joinDay'[p] = joinDay[p] /\ joinDay[p] \in Days
  BY KeptJoinDay DEF LogInv
<1>2. PICK j \in Days : j = joinDay[p]
  BY <1>1
<1>3. CASE \E d \in Days : \E e \in Lines(d) : IsRecord(e, p, a)
  <2>1. PICK d \in Days : \E e \in Lines(d) : IsRecord(e, p, a)
    BY <1>3
  <2>2. PICK e \in Lines(d) : IsRecord(e, p, a)
    BY <2>1
  <2>3. e \in Lines(d)' \/ OutOfRetention(d)'
    BY DEF LogKept
  <2>4. j <= d
    BY <1>2, <2>2 DEF LogInv, AuthInTime, InTime, IsRecord
  <2>5. OutOfRetention(d)' => OutOfRetention(j)'
    BY <2>4, KeptOutOfRetention
  <2>6. IsRecord(e, p, a)'
    BY <2>2 DEF IsRecord
  <2> QED
    BY <1>1, <1>2, <2>3, <2>5, <2>6 DEF Recorded, OutOfRetention, IsRecord
<1>4. CASE \E e \in lost : IsRecord(e, p, a)
  BY <1>4 DEF Recorded, LogKept, IsRecord
<1>5. CASE OutOfRetention(joinDay[p])
  <2>1. OutOfRetention(j)'
    BY <1>2, <1>5, KeptOutOfRetention DEF Days, OutOfRetention
  <2> QED
    BY <1>1, <1>2, <2>1 DEF Recorded, OutOfRetention
<1> QED
  BY <1>3, <1>4, <1>5 DEF Recorded

(* What is left to show of a step.                                          *)
LEMMA KeptLogInv ==
    ASSUME TypeOK, TypeOK', LogInv, LogKept, SessionsKept, Joins',
           \A p \in Peers : Issued(p)' /\ ~Issued(p) => ConnectRecorded(p)',
           \A p \in Peers, a \in Addrs :
             <<p, a>> \in recent' \ recent => stage'[p] # "new" /\ Recorded(p, a)',
           \A a \in Addrs :
             (request'[a] # "none" \/ relay'[a] # "none") => <<user'[a], a>> \in recent'
    PROVE  LogInv'
<1>1. LinesInPlace' /\ AuthInTime'
  BY KeptInTime
<1>2. ConnectLogged'
  BY KeptConnect DEF ConnectLogged
<1>3. ASSUME NEW p \in Peers, NEW a \in Addrs, <<p, a>> \in recent
      PROVE  stage'[p] # "new" /\ Recorded(p, a)'
  <2>1. stage[p] # "new" /\ Recorded(p, a)
    BY <1>3 DEF LogInv, RecentRecorded
  <2> QED
    BY <2>1, KeptRecord DEF SessionsKept
<1>4. RecentRecorded'
  BY <1>3 DEF RecentRecorded
<1> QED
  BY <1>1, <1>2, <1>4 DEF LogInv

-----------------------------------------------------------------------------
(* The steps.                                                               *)

(* A step that leaves the sessions alone, and the lines they wait for.      *)
LEMMA SameSessions ==
    ASSUME TypeOK, LogInv, LogKept, UNCHANGED <<sessionVars, waiting>>
    PROVE  /\ SessionsKept /\ Joins'
           /\ \A p \in Peers : Issued(p)' => Issued(p)
<1>1. /\ stage' = stage /\ joinDay' = joinDay /\ waiting' = waiting
      /\ today \in Days /\ today' \in Days /\ today <= today'
      /\ \A p : ConnectLine(p)' = ConnectLine(p)
  BY DEF sessionVars, TypeOK, LogKept, ConnectLine
<1>2. Joins'
  BY <1>1 DEF LogInv, Joins, Days
<1> QED
  BY <1>1, <1>2 DEF SessionsKept, Issued

LEMMA JoinKeepsLog ==
    ASSUME TypeOK, TypeOK', LogInv, NEW p \in Peers, Join(p)
    PROVE  LogInv'
<1>1. /\ stage[p] = "new" /\ stage' = [stage EXCEPT ![p] = "joined"]
      /\ joinDay' = [joinDay EXCEPT ![p] = today]
      /\ waiting' = waiting \cup {Line("connect", p, None)}
      /\ UNCHANGED <<files, lost, today, recent, user, request, relay>>
  BY DEF Join, logVars, relayVars
<1>2. LogKept
  BY <1>1, StillLog
<1>3. /\ \A q \in Peers \ {p} : stage'[q] = stage[q] /\ joinDay'[q] = joinDay[q]
      /\ stage'[p] = "joined" /\ joinDay'[p] = today
  BY <1>1 DEF TypeOK
<1>4. SessionsKept /\ \A q \in Peers : Issued(q)' => Issued(q)
  BY <1>1, <1>3 DEF SessionsKept, Issued
<1>5. Joins'
  <2>1. ConnectLine(p)' = Line("connect", p, None)
    BY <1>1, <1>3 DEF ConnectLine, Line
  <2>2. \A q \in Peers \ {p} : ConnectLine(q)' = ConnectLine(q)
    BY <1>3 DEF ConnectLine
  <2>3. Line("connect", p, None).peer = p
    BY DEF Line
  <2>4. \A q \in Peers : /\ stage'[q] # "new" => joinDay'[q] \in Days /\ joinDay'[q] <= today'
                         /\ stage'[q] = "joined" => ConnectLine(q)' \in waiting'
    BY <1>1, <1>3, <2>1, <2>2 DEF LogInv, Joins, TypeOK, Days
  <2>5. ASSUME NEW e \in waiting, e.event = "connect"
        PROVE  stage'[e.peer] # "new" /\ e = ConnectLine(e.peer)'
    <3>1. e.peer \in Peers
      BY DEF TypeOK, Entry
    <3>2. e.peer # p /\ stage[e.peer] # "new" /\ e = ConnectLine(e.peer)
      BY <1>1, <2>5 DEF LogInv, Joins
    <3> QED
      BY <1>3, <2>2, <3>1, <3>2
  <2> QED
    BY <1>1, <1>3, <2>1, <2>3, <2>4, <2>5 DEF Joins
<1>6. \A a \in Addrs :
        (request'[a] # "none" \/ relay'[a] # "none") => <<user'[a], a>> \in recent'
  BY <1>1 DEF LogInv, RecentRecorded
<1> QED
  BY <1>1, <1>2, <1>4, <1>5, <1>6, KeptLogInv

LEMMA LogConnectKeepsLog ==
    ASSUME TypeOK, TypeOK', LogInv, NEW p \in Peers, LogConnect(p)
    PROVE  LogInv'
<1>1. PICK e \in waiting : /\ e.peer = p /\ e.event = "connect"
                           /\ waiting' = waiting \ {e} /\ LogLine(e)
  BY DEF LogConnect, LogWaiting
<1>2. /\ stage[p] = "joined" /\ stage' = [stage EXCEPT ![p] = "open"]
      /\ UNCHANGED <<joinDay, recent, user, request, relay>>
  BY DEF LogConnect, relayVars
<1>3. e \in Entry /\ e = ConnectLine(p)
  BY <1>1 DEF TypeOK, LogInv, Joins
<1>4. LogKept
  BY <1>1, <1>3, LogLineKept
<1>5. /\ \A q \in Peers \ {p} : stage'[q] = stage[q]
      /\ stage'[p] = "open"
      /\ \A q : ConnectLine(q)' = ConnectLine(q)
  BY <1>2 DEF TypeOK, ConnectLine
<1>6. SessionsKept
  BY <1>2, <1>5 DEF SessionsKept, Issued
<1>7. Joins'
  <2>1. today' = today
    BY <1>1, <1>3, LogLineLemma
  <2>2. \A q \in Peers \ {p} : ConnectLine(q) # e
    BY <1>1 DEF ConnectLine
  <2> QED
    BY <1>1, <1>2, <1>5, <2>1, <2>2 DEF LogInv, Joins
<1>8. \A q \in Peers : Issued(q)' /\ ~Issued(q) => ConnectRecorded(q)'
  <2>1. \A q \in Peers : Issued(q)' /\ ~Issued(q) => q = p
    BY <1>5 DEF Issued
  <2>2. e \in Lines(e.day)' \/ e \in lost'
    BY <1>1, <1>3, LogLineLemma
  <2>3. e.day = joinDay'[p] /\ e = ConnectLine(p)'
    BY <1>2, <1>3, <1>5 DEF ConnectLine
  <2>4. ConnectRecorded(p)'
    BY <1>1, <2>2, <2>3 DEF ConnectRecorded, Lines
  <2> QED
    BY <2>1, <2>4
<1>9. \A a \in Addrs :
        (request'[a] # "none" \/ relay'[a] # "none") => <<user'[a], a>> \in recent'
  BY <1>2 DEF LogInv, RecentRecorded
<1> QED
  BY <1>2, <1>4, <1>6, <1>7, <1>8, <1>9, KeptLogInv

LEMMA EndSessionKeepsLog ==
    ASSUME TypeOK, TypeOK', LogInv, NEW p \in Peers, EndSession(p)
    PROVE  LogInv'
<1>1. /\ stage[p] = "open" /\ stage' = [stage EXCEPT ![p] = "leaving"]
      /\ waiting' = waiting \cup {Line("disconnect", p, None)}
      /\ UNCHANGED <<files, lost, today, joinDay, recent, user, request, relay>>
  BY DEF EndSession, logVars, relayVars
<1>2. LogKept
  BY <1>1, StillLog
<1>3. /\ \A q \in Peers \ {p} : stage'[q] = stage[q]
      /\ stage'[p] = "leaving"
      /\ \A q : ConnectLine(q)' = ConnectLine(q)
  BY <1>1 DEF TypeOK, ConnectLine
<1>4. SessionsKept /\ \A q \in Peers : Issued(q)' => Issued(q)
  BY <1>1, <1>3 DEF SessionsKept, Issued
<1>5. Joins'
  <2>1. Line("disconnect", p, None).event # "connect"
    BY DEF Line
  <2> QED
    BY <1>1, <1>3, <2>1 DEF LogInv, Joins
<1>6. \A a \in Addrs :
        (request'[a] # "none" \/ relay'[a] # "none") => <<user'[a], a>> \in recent'
  BY <1>1 DEF LogInv, RecentRecorded
<1> QED
  BY <1>1, <1>2, <1>4, <1>5, <1>6, KeptLogInv

LEMMA LeaveKeepsLog ==
    ASSUME TypeOK, TypeOK', LogInv, NEW p \in Peers, Leave(p)
    PROVE  LogInv'
<1>1. PICK e \in waiting : /\ e.peer = p /\ e.event = "disconnect"
                           /\ waiting' = waiting \ {e} /\ LogLine(e)
  BY DEF Leave, LogWaiting
<1>2. /\ stage[p] = "leaving" /\ stage' = [stage EXCEPT ![p] = "gone"]
      /\ UNCHANGED <<joinDay, recent, user, request, relay>>
  BY DEF Leave, relayVars
<1>3. e \in Entry
  BY DEF TypeOK
<1>4. LogKept
  BY <1>1, <1>3, LogLineKept
<1>5. /\ \A q \in Peers \ {p} : stage'[q] = stage[q]
      /\ stage'[p] = "gone"
      /\ \A q : ConnectLine(q)' = ConnectLine(q)
  BY <1>2 DEF TypeOK, ConnectLine
<1>6. SessionsKept /\ \A q \in Peers : Issued(q)' => Issued(q)
  BY <1>2, <1>5 DEF SessionsKept, Issued
<1>7. Joins'
  <2>1. today' = today
    BY <1>1, <1>3, LogLineLemma
  <2>2. \A q : ConnectLine(q) # e
    BY <1>1 DEF ConnectLine
  <2> QED
    BY <1>1, <1>2, <1>5, <2>1, <2>2 DEF LogInv, Joins
<1>8. \A a \in Addrs :
        (request'[a] # "none" \/ relay'[a] # "none") => <<user'[a], a>> \in recent'
  BY <1>2 DEF LogInv, RecentRecorded
<1> QED
  BY <1>2, <1>4, <1>6, <1>7, <1>8, KeptLogInv

(* Once a credential was seen at an address, there is a record of it.       *)
LEMMA LogAuthRecords ==
    ASSUME TypeOK, LogInv, NEW p \in Peers, NEW a \in Addrs,
           Authorized(p), LogAuth(p, a)
    PROVE  /\ LogKept
           /\ recent \subseteq recent' /\ <<p, a>> \in recent'
           /\ \A q \in Peers, b \in Addrs :
                <<q, b>> \in recent' \ recent => q = p /\ b = a /\ Recorded(p, a)'
<1>1. CASE LogLine(Line("turn_auth", p, a)) /\ recent' = recent \cup {<<p, a>>}
  <2> DEFINE e == Line("turn_auth", p, a)
  <2>1. /\ e \in Entry /\ e.event = "turn_auth" /\ e.peer = p /\ e.addr = a
        /\ e.day = today /\ today \in Days
    BY LineType DEF Line, TypeOK
  <2>2. Issued(p) /\ today <= joinDay[p] + 1
    BY DEF Authorized
  <2>3. joinDay[p] <= today
    BY <2>2 DEF LogInv, Joins, Issued
  <2>4. LogLine(e)
    BY <1>1
  <2> HIDE DEF e
  <2>5. InTime(e, e.day)
    BY <2>1, <2>2, <2>3 DEF InTime
  <2>6. LogKept
    BY <2>1, <2>4, <2>5, LogLineKept
  <2>7. PICK x \in Entry : x = e
    BY <2>1
  <2>8. x \in Lines(x.day)' \/ x \in lost'
    BY <2>4, <2>7, LogLineLemma
  <2>9. x.day \in Days /\ IsRecord(x, p, a)'
    BY <2>1, <2>7 DEF IsRecord
  <2>10. Recorded(p, a)'
    BY <2>8, <2>9 DEF Recorded, IsRecord, Lines
  <2> QED
    BY <1>1, <2>6, <2>10
<1>2. CASE <<p, a>> \in recent /\ UNCHANGED <<recent, logVars>>
  BY <1>2, StillLog DEF logVars
<1> QED
  BY <1>1, <1>2 DEF LogAuth, LoggedKey

LEMMA AllocateKeepsLog ==
    ASSUME TypeOK, TypeOK', LogInv, NEW a \in Addrs, NEW p \in Peers, Allocate(a, p)
    PROVE  LogInv'
<1>1. /\ Authorized(p) /\ LogAuth(p, a)
      /\ user' = [user EXCEPT ![a] = p]
      /\ request' = [request EXCEPT ![a] = "authorized"]
      /\ UNCHANGED <<sessionVars, waiting, relay>>
  BY DEF Allocate
<1>2. /\ LogKept
      /\ recent \subseteq recent' /\ <<p, a>> \in recent'
      /\ \A q \in Peers, b \in Addrs :
           <<q, b>> \in recent' \ recent => q = p /\ b = a /\ Recorded(p, a)'
  BY <1>1, LogAuthRecords
<1>3. /\ SessionsKept /\ Joins'
      /\ \A q \in Peers : Issued(q)' => Issued(q)
  BY <1>1, <1>2, SameSessions
<1>4. stage'[p] # "new"
  BY <1>1 DEF Authorized, Issued, sessionVars
<1>5. \A b \in Addrs :
        (request'[b] # "none" \/ relay'[b] # "none") => <<user'[b], b>> \in recent'
  BY <1>1, <1>2 DEF TypeOK, LogInv, RecentRecorded
<1> QED
  BY <1>2, <1>3, <1>4, <1>5, KeptLogInv

LEMMA RefreshKeepsLog ==
    ASSUME TypeOK, TypeOK', QuotaInv, LogInv, NEW a \in Addrs, Refresh(a)
    PROVE  LogInv'
<1>1. PICK p \in Peers : p = user[a]
  BY DEF Refresh, QuotaInv, Owned
<1>2. /\ Authorized(p) /\ LogAuth(p, a) /\ relay[a] = "due"
      /\ relay' = [relay EXCEPT ![a] = "held"]
      /\ UNCHANGED <<sessionVars, waiting, user, request>>
  BY <1>1 DEF Refresh
<1>3. /\ LogKept
      /\ recent \subseteq recent'
      /\ \A q \in Peers, b \in Addrs :
           <<q, b>> \in recent' \ recent => q = p /\ b = a /\ Recorded(p, a)'
  BY <1>2, LogAuthRecords
<1>4. /\ SessionsKept /\ Joins'
      /\ \A q \in Peers : Issued(q)' => Issued(q)
  BY <1>2, <1>3, SameSessions
<1>5. stage'[p] # "new"
  BY <1>2 DEF Authorized, Issued, sessionVars
<1>6. \A b \in Addrs :
        (request'[b] # "none" \/ relay'[b] # "none") => <<user'[b], b>> \in recent'
  BY <1>2, <1>3 DEF TypeOK, LogInv, RecentRecorded
<1> QED
  BY <1>3, <1>4, <1>5, <1>6, KeptLogInv

(* Steps of a request or a relay that log nothing.                          *)
LEMMA RelayStepKeepsLog ==
    ASSUME TypeOK, TypeOK', QuotaInv, LogInv, NEW a \in Addrs,
           CheckQuota(a) \/ Create(a) \/ CreateFails(a) \/ LeaseRunsOut(a) \/ Expire(a)
    PROVE  LogInv'
<1>1. UNCHANGED <<logVars, sessionVars, waiting, recent>>
  BY DEF CheckQuota, Create, CreateFails, LeaseRunsOut, Expire
<1>2. LogKept
  BY <1>1, StillLog DEF logVars
<1>3. /\ SessionsKept /\ Joins'
      /\ \A q \in Peers : Issued(q)' => Issued(q)
  BY <1>1, <1>2, SameSessions
<1>4. \A b \in Addrs :
        (request'[b] # "none" \/ relay'[b] # "none") =>
          (request[b] # "none" \/ relay[b] # "none") /\ user'[b] = user[b]
  <2>1. CASE CheckQuota(a)
    BY <2>1 DEF CheckQuota, Drop, TypeOK, QuotaInv, Owned
  <2>2. CASE Create(a)
    BY <2>2 DEF Create, TypeOK
  <2>3. CASE CreateFails(a)
    BY <2>3 DEF CreateFails, Drop, TypeOK, QuotaInv, Owned
  <2>4. CASE LeaseRunsOut(a)
    BY <2>4 DEF LeaseRunsOut, TypeOK
  <2>5. CASE Expire(a)
    BY <2>5 DEF Expire, TypeOK
  <2> QED
    BY <2>1, <2>2, <2>3, <2>4, <2>5
<1>5. \A b \in Addrs :
        (request'[b] # "none" \/ relay'[b] # "none") => <<user'[b], b>> \in recent'
  BY <1>1, <1>4 DEF LogInv, RecentRecorded
<1> QED
  BY <1>1, <1>2, <1>3, <1>5, KeptLogInv

LEMMA PurgeKeepsLog ==
    ASSUME TypeOK, TypeOK', LogInv, PurgeLog
    PROVE  LogInv'
<1>1. /\ UNCHANGED <<sessionVars, relayVars, waiting, recent>>
      /\ \E stop : PurgeUpTo(stop)
  BY DEF PurgeLog, Purge, PurgeFails
<1>2. PICK stop : PurgeUpTo(stop)
  BY <1>1
<1>3. UNCHANGED <<today, lost>>
  BY <1>2 DEF PurgeUpTo
<1>4. \A d \in Days : \/ Lines(d)' = Lines(d)
                      \/ Lines(d)' = {} /\ OutOfRetention(d)'
  BY <1>2, <1>3, PurgeLemma DEF OutOfRetention
<1>5. LogKept
  BY <1>3, <1>4 DEF LogKept, TypeOK, Days
<1>6. /\ SessionsKept /\ Joins'
      /\ \A q \in Peers : Issued(q)' => Issued(q)
  BY <1>1, <1>5, SameSessions
<1>7. \A b \in Addrs :
        (request'[b] # "none" \/ relay'[b] # "none") => <<user'[b], b>> \in recent'
  BY <1>1 DEF LogInv, RecentRecorded, relayVars
<1> QED
  BY <1>1, <1>5, <1>6, <1>7, KeptLogInv

LEMMA NextDayKeepsLog ==
    ASSUME TypeOK, TypeOK', LogInv, NextDay
    PROVE  LogInv'
<1>1. /\ today' = today + 1
      /\ UNCHANGED <<files, lost, sessionVars, relayVars, waiting, recent>>
  BY DEF NextDay
<1>2. LogKept
  <2>1. \A d : Lines(d)' = Lines(d)
    BY <1>1 DEF Lines
  <2> QED
    BY <1>1, <2>1 DEF LogKept, TypeOK, Days
<1>3. /\ SessionsKept /\ Joins'
      /\ \A q \in Peers : Issued(q)' => Issued(q)
  BY <1>1, <1>2, SameSessions
<1>4. \A b \in Addrs :
        (request'[b] # "none" \/ relay'[b] # "none") => <<user'[b], b>> \in recent'
  BY <1>1 DEF LogInv, RecentRecorded, relayVars
<1> QED
  BY <1>1, <1>2, <1>3, <1>4, KeptLogInv

LEMMA CrashKeepsLog ==
    ASSUME TypeOK, TypeOK', LogInv, Crash
    PROVE  LogInv'
<1>1. /\ UNCHANGED <<files, today, joinDay>>
      /\ lost' = lost \cup waiting /\ waiting' = {} /\ recent' = {}
      /\ stage' = [p \in Peers |-> IF stage[p] = "new" THEN "new" ELSE "gone"]
      /\ \A a \in Addrs : request'[a] = "none" /\ relay'[a] = "none"
  BY DEF Crash, LogRestart
<1>2. LogKept
  <2>1. \A d : Lines(d)' = Lines(d)
    BY <1>1 DEF Lines
  <2> QED
    BY <1>1, <2>1 DEF LogKept, TypeOK, Days
<1>3. SessionsKept
  BY <1>1 DEF SessionsKept, Issued
<1>4. Joins'
  BY <1>1 DEF LogInv, Joins
<1>5. ASSUME NEW p \in Peers, Issued(p)', ~Issued(p)
      PROVE  ConnectRecorded(p)'
  <2>1. stage[p] = "joined"
    BY <1>1, <1>5 DEF Issued, TypeOK
  <2>2. ConnectLine(p) \in lost'
    BY <1>1, <2>1 DEF LogInv, Joins
  <2>3. ConnectLine(p).event = "connect" /\ ConnectLine(p).peer = p
    BY DEF ConnectLine
  <2> QED
    BY <2>2, <2>3 DEF ConnectRecorded
<1> QED
  BY <1>1, <1>2, <1>3, <1>4, <1>5, KeptLogInv

LEMMA LogStep ==
    ASSUME TypeOK, TypeOK', QuotaInv, LogInv, Next
    PROVE  LogInv'
BY JoinKeepsLog, LogConnectKeepsLog, EndSessionKeepsLog, LeaveKeepsLog,
   AllocateKeepsLog, RefreshKeepsLog, RelayStepKeepsLog, PurgeKeepsLog,
   NextDayKeepsLog, CrashKeepsLog DEF Next

-----------------------------------------------------------------------------
(* The theorems.                                                            *)

(* Every reachable state satisfies the invariant, of the counters that the  *)
(* quota callbacks of Start keep and of the lines they and ServeWS log.     *)
THEOREM Invariance == Spec => []Inv
<1>1. Init => Inv
  <2> SUFFICES ASSUME Init PROVE Inv
    OBVIOUS
  <2>1. /\ DOMAIN files = {} /\ files \in [DOMAIN files -> SUBSET Entry]
        /\ openDay = None /\ today = 1 /\ lost = {}
    BY DEF Init, LogInit
  <2>2. TypeOK
    <3>1. openDay \in Days \cup {None} /\ today \in Days /\ lost \in SUBSET Entry
      BY <2>1, MaxDayAssumption DEF Days
    <3>2. faults \in 0..MaxFaults
      BY BoundsAssumption DEF Init
    <3> QED
      BY <2>1, <3>1, <3>2 DEF Init, TypeOK
  <2>3. QuotaInv
    BY NoRelays DEF Init, NoneLeft
  <2>4. \A d : Lines(d) = {}
    BY <2>1 DEF Lines
  <2>5. LogInv
    BY <2>4 DEF Init, LogInv, Joins, LinesInPlace, ConnectLogged, AuthInTime,
                RecentRecorded, Issued
  <2> QED
    BY <2>2, <2>3, <2>5 DEF Inv
<1>2. Inv /\ [Next]_vars => Inv'
  <2> SUFFICES ASSUME Inv, [Next]_vars PROVE Inv'
    OBVIOUS
  <2>1. CASE Next
    <3>1. TypeOK' /\ QuotaInv'
      BY <2>1, TypeStep, QuotaStep DEF Inv
    <3> QED
      BY <2>1, <3>1, LogStep DEF Inv
  <2>2. CASE UNCHANGED vars
    <3>1. TypeOK'
      BY <2>2 DEF Inv, TypeOK, vars, logVars, sessionVars, relayVars
    <3>2. QuotaInv'
      BY <2>2, StillKeepsQuota DEF Inv, vars
    <3>3. UNCHANGED <<files, lost, today, sessionVars, relayVars, waiting, recent>>
      BY <2>2 DEF vars, logVars
    <3>4. LogKept
      BY <3>3, StillLog DEF Inv
    <3>5. /\ SessionsKept /\ Joins'
          /\ \A q \in Peers : Issued(q)' => Issued(q)
      BY <3>3, <3>4, SameSessions DEF Inv
    <3>6. \A b \in Addrs :
            (request'[b] # "none" \/ relay'[b] # "none") => <<user'[b], b>> \in recent'
      BY <3>3 DEF Inv, LogInv, RecentRecorded, relayVars
    <3>7. LogInv'
      BY <3>1, <3>3, <3>4, <3>5, <3>6, KeptLogInv DEF Inv
    <3> QED
      BY <3>1, <3>2, <3>7 DEF Inv
  <2> QED
    BY <2>1, <2>2
<1> QED
  BY <1>1, <1>2, PTL DEF Spec

(* Every variable of the callbacks of Start, of the sessions of ServeWS and *)
(* of the log holds a value of its kind.                                    *)
THEOREM TypeCorrect == Spec => []TypeOK
BY Invariance, PTL DEF Inv

(* The counters the QuotaHandler checks are the relays that exist, and      *)
(* these exceed no cap unless requests were checked at the same time.       *)
THEOREM QuotaKeptHolds == Spec => []QuotaKept
<1>1. Inv => QuotaKept
  BY DEF Inv, QuotaInv
<1> QED
  BY <1>1, Invariance, PTL

(* A turn_auth line of the log leads to the join of its session: Search     *)
(* reads the file of the line's day and of the day before, and one of them  *)
(* has the connect line.                                                    *)
THEOREM TurnLinesTraceableHolds == Spec => []TurnLinesTraceable
<1>1. Inv => TurnLinesTraceable
  <2> SUFFICES ASSUME Inv PROVE TurnLinesTraceable
    OBVIOUS
  <2> SUFFICES ASSUME NEW d \in Days, NEW e \in Lines(d), e.event = "turn_auth"
               PROVE  \/ e \in Search(e.day, e.day + 1)
                      \/ \E l \in lost : l.event = "connect" /\ l.peer = e.peer
                      \/ OutOfRetention(joinDay[e.peer])
    BY DEF TurnLinesTraceable
  <2> DEFINE p == e.peer
  <2>1. e.day = d /\ p \in Peers
    BY LinesType DEF Inv, LogInv, LinesInPlace, Entry
  <2>2. Issued(p) /\ joinDay[p] <= d /\ d <= joinDay[p] + 1
    BY DEF Inv, LogInv, AuthInTime, InTime
  <2>3. joinDay[p] \in Days
    BY <2>1, <2>2 DEF Inv, LogInv, Joins, Issued
  <2>4. CASE ConnectLine(p) \in Lines(joinDay[p])
    <3>1. d \in DaysRead(d, d + 1) /\ joinDay[p] \in DaysRead(d, d + 1)
      BY <2>2, <2>3 DEF DaysRead, Days
    <3>2. ConnectLine(p).event \in RoomEvents /\ ConnectLine(p).peer = p
      BY DEF ConnectLine, RoomEvents
    <3>3. d >= d /\ d < d + 1
      BY DEF Days
    <3> DEFINE all == UNION {Lines(x) : x \in DaysRead(d, d + 1)}
               peers == {x.peer : x \in {l \in all : l.event \in RoomEvents}}
    <3>4. e \in all /\ ConnectLine(p) \in all
      BY <2>4, <3>1
    <3>5. p \in peers
      BY <3>2, <3>4
    <3>6. Search(d, d + 1) =
            {x \in all : /\ x.day >= d /\ x.day < d + 1
                         /\ x.event \in RoomEvents \/ x.peer \in peers}
      BY DEF Search
    <3> HIDE DEF all, peers
    <3> QED
      BY <2>1, <3>3, <3>4, <3>5, <3>6
  <2> QED
    BY <2>1, <2>2, <2>4 DEF Inv, LogInv, ConnectLogged, ConnectRecorded
<1> QED
  BY <1>1, Invariance, PTL

(* AuthHandler logs before a relay exists: for each relay there is a line   *)
(* with its address and session, or that line was lost, or is old.          *)
THEOREM RelayLoggedHolds == Spec => []RelayLogged
<1>1. Inv => RelayLogged
  <2> SUFFICES ASSUME Inv PROVE RelayLogged
    OBVIOUS
  <2> SUFFICES ASSUME NEW a \in Addrs, relay[a] # "none"
               PROVE  \/ \E e \in UNION {Lines(d) : d \in Days} : IsRecord(e, user[a], a)
                      \/ \E e \in lost : IsRecord(e, user[a], a)
                      \/ OutOfRetention(joinDay[user[a]])
    BY DEF RelayLogged, IsRecord
  <2>1. user[a] \in Peers /\ <<user[a], a>> \in recent
    BY DEF Inv, QuotaInv, Owned, LogInv, RecentRecorded
  <2>2. Recorded(user[a], a)
    BY <2>1 DEF Inv, LogInv, RecentRecorded
  <2> QED
    BY <2>2 DEF Recorded
<1> QED
  BY <1>1, Invariance, PTL
=============================================================================
