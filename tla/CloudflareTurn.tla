--------------------------- MODULE CloudflareTurn ---------------------------
(***************************************************************************)
(* Cloudflare's TURN service as a backup relay (src/internal/cfturn).       *)
(* Run calls Tick every UsageEvery; Tick asks Cloudflare for the month's    *)
(* usage, decides under Provider.mu what to offer, and then revokes or      *)
(* mints a credential.  Browsers are sent whatever ICEServers returns at    *)
(* the moment they join.                                                    *)
(*                                                                          *)
(* The unit of time is UsageEvery; the requests of one Tick (at most 15     *)
(* seconds each) take no time on that scale.  Usage is either under the     *)
(* monthly limit or at it.  Cloudflare is modelled from what the code       *)
(* relies on: a credential works for its lifetime unless it is revoked, and *)
(* a request that fails may have been carried out all the same.             *)
(***************************************************************************)
EXTENDS Integers

CONSTANTS
    Credentials,    \* credentials Cloudflare can issue
    None,           \* the empty user name, no servers
    RefreshEvery,   \* Config.RefreshEvery
    CredentialTTL,  \* Config.CredentialTTL
    ApiMayFail,     \* whether requests to Cloudflare can fail
    MaxRestarts     \* bound of the model: restarts of the server

ASSUME TimesAssumption ==
    /\ RefreshEvery \in Nat \ {0}
    /\ CredentialTTL \in Nat
    /\ RefreshEvery < CredentialTTL
ASSUME NamesAssumption == None \notin Credentials
ASSUME ApiAssumption == ApiMayFail \in BOOLEAN /\ MaxRestarts \in Nat

VARIABLES
    servers,   \* Provider.servers, by the credential in it
    username,  \* Provider.username
    minted,    \* time since Provider.minted
    usageOK,   \* Provider.usageOK
    step,      \* where Run and Tick are
    reading,   \* what monthUsage last returned
    revoking,  \* Tick's local variable revoke
    issued,    \* at Cloudflare: what has become of each credential
    age,       \* at Cloudflare: time since it was issued
    overLimit, \* at Cloudflare: this month's usage has reached MonthlyLimit
    apiUp,     \* requests to Cloudflare succeed
    restarts   \* the number of restarts so far

provider == <<servers, username, minted, usageOK>>
cloud == <<issued, age>>
world == <<overLimit, apiUp, restarts>>
vars == <<servers, username, minted, usageOK, step, reading, revoking,
          issued, age, overLimit, apiUp, restarts>>

Init ==
    /\ servers = None
    /\ username = None
    /\ minted = RefreshEvery
    /\ usageOK = FALSE
    /\ step = "usage"
    /\ reading = "error"
    /\ revoking = None
    /\ issued = [c \in Credentials |-> "unused"]
    /\ age = [c \in Credentials |-> 0]
    /\ overLimit \in BOOLEAN
    /\ apiUp = TRUE
    /\ restarts = 0

Live == {c \in Credentials : issued[c] = "live"}

(* ICEServers                                                               *)
Offered == IF usageOK THEN servers ELSE None

-----------------------------------------------------------------------------
(* Time passes until the next tick; old credentials stop working.           *)

Older(c) == IF age[c] < CredentialTTL THEN age[c] + 1 ELSE age[c]

NextTick ==
    /\ step = "waiting"
    /\ step' = "usage"
    /\ minted' = IF minted < RefreshEvery THEN minted + 1 ELSE minted
    /\ age' = [c \in Credentials |-> IF c \in Live THEN Older(c) ELSE 0]
    /\ issued' = [c \in Credentials |->
                    IF c \in Live /\ age[c] = CredentialTTL THEN "expired" ELSE issued[c]]
    /\ UNCHANGED <<servers, username, usageOK, reading, revoking, world>>

(* monthUsage.                                                              *)
ReadUsage ==
    /\ step = "usage"
    /\ step' = "decide"
    /\ reading' = IF ~apiUp THEN "error" ELSE IF overLimit THEN "over" ELSE "under"
    /\ UNCHANGED <<provider, revoking, cloud, world>>

(* Mutant of UsageOKAfter: an error leaves things as they are.              *)
UsageAssumed == IF reading = "error" THEN usageOK ELSE reading = "under"

UsageOKAfter == reading = "under"

(* Mutant of NeedMint: a credential is never replaced.                      *)
MintOnce == UsageOKAfter /\ servers = None

NeedMint == UsageOKAfter /\ (servers = None \/ minted >= RefreshEvery)

NeedRevoke == reading = "over" /\ username # None

(* Mutant of ServersAfter: the servers of a revoked credential are kept.    *)
ServersKept == servers

ServersAfter == IF NeedRevoke THEN None ELSE servers

(* The critical section of Tick.  (On an error the credential is "only      *)
(* withheld, not revoked".)                                                 *)
Decide ==
    /\ step = "decide"
    /\ usageOK' = UsageOKAfter
    /\ servers' = ServersAfter
    /\ IF NeedRevoke
         THEN revoking' = username /\ username' = None
         ELSE UNCHANGED <<revoking, username>>
    /\ step' = IF NeedRevoke THEN "revoke" ELSE IF NeedMint THEN "mint" ELSE "waiting"
    /\ UNCHANGED <<minted, reading, cloud, world>>

(* Revocation is tried once; when the request fails the credential has been *)
(* revoked or not.                                                          *)
Revoke ==
    /\ step = "revoke"
    /\ \/ /\ issued' = [issued EXCEPT ![revoking] = IF @ = "live" THEN "revoked" ELSE @]
       \/ /\ ~apiUp
          /\ UNCHANGED issued
    /\ revoking' = None
    /\ step' = "waiting"
    /\ UNCHANGED <<provider, reading, age, world>>

(* Every credential is a new one; which name it has here does not matter.   *)
Fresh == Credentials \ (Live \cup {servers, username})
NewCredential == CHOOSE c \in Fresh : TRUE

Issue ==
    /\ Fresh # {}
    /\ issued' = [issued EXCEPT ![NewCredential] = "live"]
    /\ age' = [age EXCEPT ![NewCredential] = 0]

Mint ==
    /\ step = "mint"
    /\ apiUp
    /\ Issue
    /\ servers' = NewCredential
    /\ username' = NewCredential
    /\ minted' = 0
    /\ step' = "waiting"
    /\ UNCHANGED <<usageOK, reading, revoking, world>>

(* The request fails, or its answer is lost or holds nothing to offer: then *)
(* a credential exists that the provider does not know.                     *)
MintFails ==
    /\ step = "mint"
    /\ ~apiUp
    /\ UNCHANGED cloud \/ Issue
    /\ step' = "waiting"
    /\ UNCHANGED <<provider, reading, revoking, world>>

(* The server is restarted and forgets its credentials.                     *)
Restart ==
    /\ restarts < MaxRestarts
    /\ restarts' = restarts + 1
    /\ servers' = None
    /\ username' = None
    /\ minted' = RefreshEvery
    /\ usageOK' = FALSE
    /\ step' = "usage"
    /\ reading' = "error"
    /\ revoking' = None
    /\ UNCHANGED <<cloud, overLimit, apiUp>>

-----------------------------------------------------------------------------
(* Cloudflare: usage reaches the limit, a month begins, the API goes away   *)
(* and comes back.                                                          *)

UsageChanges == overLimit' = ~overLimit /\ UNCHANGED apiUp
ApiChanges == ApiMayFail /\ apiUp' = ~apiUp /\ UNCHANGED overLimit

World ==
    /\ UsageChanges \/ ApiChanges
    /\ UNCHANGED <<restarts, provider, step, reading, revoking, cloud>>

Tick == ReadUsage \/ Decide \/ Revoke \/ Mint \/ MintFails

Next == NextTick \/ Tick \/ Restart \/ World

Spec == Init /\ [][Next]_vars

(* Run goes on: its ticker fires and every request ends, answered or timed  *)
(* out.                                                                     *)
FairSpec == Spec /\ WF_vars(NextTick) /\ WF_vars(Tick)

-----------------------------------------------------------------------------
(* Every variable holds a value of its kind, and what is offered is always  *)
(* what would be revoked.                                                   *)
TypeOK ==
    /\ servers \in Credentials \cup {None}
    /\ username = servers
    /\ minted \in 0..RefreshEvery
    /\ usageOK \in BOOLEAN
    /\ step \in {"waiting", "usage", "decide", "revoke", "mint"}
    /\ reading \in {"under", "over", "error"}
    /\ revoking \in Credentials \cup {None}
    /\ issued \in [Credentials -> {"unused", "live", "expired", "revoked"}]
    /\ age \in [Credentials -> 0..CredentialTTL]
    /\ overLimit \in BOOLEAN
    /\ apiUp \in BOOLEAN
    /\ restarts \in 0..MaxRestarts

(* No browser is given a credential that was revoked or is about to be,     *)
(* however outages, new months and restarts follow each other.              *)
OfferedNotRevoked ==
    Offered # None => issued[Offered] # "revoked" /\ Offered # revoking

(* "If usage cannot be read ... Cloudflare TURN is withheld: the cap is     *)
(* never assumed": from the decision of a tick that did not read a usage    *)
(* under the limit until the decision of one that did, nothing is offered   *)
(* and nothing is minted.                                                   *)
CapNeverAssumed ==
    [][ /\ (step = "decide" /\ step' # "decide" /\ reading # "under") =>
             (step' # "mint" /\ Offered' = None)
        /\ Live' \subseteq Live \/ reading = "under"
        /\ (Offered = None /\ Offered' # None) => reading = "under" ]_vars

(* Once Cloudflare answers and usage stays under the limit, browsers end up *)
(* being offered a credential that works, always: it is replaced before it  *)
(* expires, and one that outlived an outage does not stay.                  *)
ServiceReturns ==
    <>[](apiUp /\ ~overLimit) => <>[](Offered # None /\ Offered \in Live)

(* Once usage stays at the limit, whatever requests fail: eventually        *)
(* nothing is offered and every credential ever minted has stopped working, *)
(* those a failed revocation or a lost answer left behind included.         *)
CapTakesEffect == <>[]overLimit => <>[](Offered = None /\ Live = {})

-----------------------------------------------------------------------------
(* What a comment promises and the code does not do.                        *)

(* cfturn.go: "when it reaches the limit, Cloudflare servers are withheld   *)
(* and the live credential is revoked, stopping relays in use".  Only the   *)
(* newest credential is revoked; the ones minted before it work on until    *)
(* they expire, and so do the relays that use them.                         *)
CapStopsRelays == (step = "waiting" /\ reading = "over") => Live = {}
=============================================================================
