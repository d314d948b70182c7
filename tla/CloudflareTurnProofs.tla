------------------------ MODULE CloudflareTurnProofs ------------------------
(***************************************************************************)
(* Theorems about CloudflareTurn for any refresh interval and lifetime,     *)
(* any number of restarts and whether or not requests fail.                 *)
(***************************************************************************)
EXTENDS CloudflareTurn, TLAPS

(* The inductive invariant.  That no revoked credential is offered rests on *)
(* three facts: a credential being revoked is no longer in servers, there   *)
(* is one only between the decision and the end of the revocation, and a    *)
(* credential is minted only after a usage under the limit was read.        *)
Separate ==
    servers # None => issued[servers] # "revoked" /\ servers # revoking

Steps ==
    /\ revoking # None => step = "revoke"
    /\ step = "mint" => reading = "under"

Inv == TypeOK /\ Separate /\ Steps

LEMMA InitInv == Init => Inv
<1> SUFFICES ASSUME Init PROVE Inv
  OBVIOUS
<1>1. RefreshEvery \in 0..RefreshEvery /\ 0 \in 0..CredentialTTL
  BY TimesAssumption
<1>2. 0 \in 0..MaxRestarts
  BY ApiAssumption
<1>3. TypeOK
  BY <1>1, <1>2 DEF Init, TypeOK
<1>4. Separate /\ Steps
  BY DEF Init, Separate, Steps
<1> QED
  BY <1>3, <1>4 DEF Inv

(* A new credential is not one the provider remembers.                      *)
LEMMA NewCredentialLemma ==
    ASSUME Fresh # {}
    PROVE  /\ NewCredential \in Credentials
           /\ NewCredential \notin Live
           /\ NewCredential # servers
BY DEF Fresh, NewCredential

LEMMA NextTickInv == ASSUME Inv, NextTick PROVE Inv'
<1>1. TypeOK'
  <2>1. issued' \in [Credentials -> {"unused", "live", "expired", "revoked"}]
    BY DEF Inv, TypeOK, NextTick
  <2>2. age' \in [Credentials -> 0..CredentialTTL]
    BY TimesAssumption DEF Inv, TypeOK, NextTick, Older
  <2>3. minted' \in 0..RefreshEvery
    BY TimesAssumption DEF Inv, TypeOK, NextTick
  <2> QED
    BY <2>1, <2>2, <2>3 DEF Inv, TypeOK, NextTick, world
<1>2. Separate'
  <2>1. \A c \in Credentials : issued'[c] = issued[c] \/ issued'[c] = "expired"
    BY DEF NextTick
  <2> QED
    BY <2>1 DEF Inv, TypeOK, Separate, NextTick
<1>3. Steps'
  BY DEF Inv, Steps, NextTick
<1> QED
  BY <1>1, <1>2, <1>3 DEF Inv

LEMMA DecideInv == ASSUME Inv, Decide PROVE Inv'
<1>1. revoking = None
  BY DEF Inv, Steps, Decide
<1>2. TypeOK'
  BY DEF Inv, TypeOK, Decide, ServersAfter, NeedRevoke, UsageOKAfter, cloud, world
<1>3. Separate'
  BY <1>1, NamesAssumption
  DEF Inv, TypeOK, Separate, Decide, ServersAfter, NeedRevoke, cloud
<1>4. Steps'
  BY <1>1 DEF Inv, Steps, Decide, NeedRevoke, NeedMint, UsageOKAfter
<1> QED
  BY <1>2, <1>3, <1>4 DEF Inv

LEMMA RevokeInv == ASSUME Inv, Revoke PROVE Inv'
<1>1. issued' \in [Credentials -> {"unused", "live", "expired", "revoked"}]
  BY DEF Inv, TypeOK, Revoke
<1>2. TypeOK'
  BY <1>1 DEF Inv, TypeOK, Revoke, provider, world
<1>3. Separate'
  BY NamesAssumption DEF Inv, TypeOK, Separate, Revoke, provider
<1>4. Steps'
  BY DEF Inv, Steps, Revoke
<1> QED
  BY <1>2, <1>3, <1>4 DEF Inv

(* What issuing a credential does at Cloudflare.                            *)
LEMMA IssueLemma ==
    ASSUME TypeOK, Issue
    PROVE  /\ NewCredential \in Credentials
           /\ NewCredential # servers
           /\ issued' = [issued EXCEPT ![NewCredential] = "live"]
           /\ issued' \in [Credentials -> {"unused", "live", "expired", "revoked"}]
           /\ age' \in [Credentials -> 0..CredentialTTL]
<1>1. NewCredential \in Credentials /\ NewCredential # servers
  BY NewCredentialLemma DEF Issue
<1> QED
  BY <1>1, TimesAssumption DEF TypeOK, Issue

LEMMA MintInv == ASSUME Inv, Mint PROVE Inv'
<1>1. /\ NewCredential \in Credentials
      /\ issued' = [issued EXCEPT ![NewCredential] = "live"]
      /\ issued' \in [Credentials -> {"unused", "live", "expired", "revoked"}]
      /\ age' \in [Credentials -> 0..CredentialTTL]
  BY IssueLemma DEF Inv, Mint
<1>2. revoking = None
  BY DEF Inv, Steps, Mint
<1>3. TypeOK'
  BY <1>1, TimesAssumption DEF Inv, TypeOK, Mint, world
<1>4. Separate'
  BY <1>1, <1>2, NamesAssumption DEF Inv, TypeOK, Separate, Mint
<1>5. Steps'
  BY <1>2 DEF Steps, Mint
<1> QED
  BY <1>3, <1>4, <1>5 DEF Inv

LEMMA MintFailsInv == ASSUME Inv, MintFails PROVE Inv'
<1>1. /\ issued' \in [Credentials -> {"unused", "live", "expired", "revoked"}]
      /\ age' \in [Credentials -> 0..CredentialTTL]
      /\ servers # None => issued'[servers] = issued[servers]
  <2>1. CASE UNCHANGED cloud
    BY <2>1 DEF Inv, TypeOK, cloud
  <2>2. CASE Issue
    BY <2>2, IssueLemma DEF Inv, TypeOK
  <2> QED
    BY <2>1, <2>2 DEF MintFails
<1>2. TypeOK'
  BY <1>1 DEF Inv, TypeOK, MintFails, provider, world
<1>3. Separate'
  BY <1>1 DEF Inv, Separate, MintFails, provider
<1>4. Steps'
  BY DEF Inv, Steps, MintFails
<1> QED
  BY <1>2, <1>3, <1>4 DEF Inv

LEMMA RestartInv == ASSUME Inv, Restart PROVE Inv'
<1>1. RefreshEvery \in 0..RefreshEvery /\ restarts' \in 0..MaxRestarts
  BY TimesAssumption, ApiAssumption DEF Inv, TypeOK, Restart
<1>2. TypeOK'
  BY <1>1 DEF Inv, TypeOK, Restart, cloud
<1>3. Separate' /\ Steps'
  BY DEF Separate, Steps, Restart
<1> QED
  BY <1>2, <1>3 DEF Inv

LEMMA NextInv == Inv /\ [Next]_vars => Inv'
<1> SUFFICES ASSUME Inv, [Next]_vars PROVE Inv'
  OBVIOUS
<1>1. CASE NextTick
  BY <1>1, NextTickInv
<1>2. CASE ReadUsage
  BY <1>2 DEF Inv, TypeOK, Separate, Steps, ReadUsage, provider, cloud, world
<1>3. CASE Decide
  BY <1>3, DecideInv
<1>4. CASE Revoke
  BY <1>4, RevokeInv
<1>5. CASE Mint
  BY <1>5, MintInv
<1>6. CASE MintFails
  BY <1>6, MintFailsInv
<1>7. CASE Restart
  BY <1>7, RestartInv
<1>8. CASE World
  BY <1>8 DEF Inv, TypeOK, Separate, Steps, World, UsageChanges, ApiChanges, provider, cloud
<1>9. CASE UNCHANGED vars
  BY <1>9 DEF Inv, TypeOK, Separate, Steps, vars
<1> QED
  BY <1>1, <1>2, <1>3, <1>4, <1>5, <1>6, <1>7, <1>8, <1>9 DEF Next, Tick

THEOREM Invariance == Spec => []Inv
<1> QED
  BY InitInv, NextInv, PTL DEF Spec

-----------------------------------------------------------------------------
(* Whatever Tick, Cloudflare and the operator do, the provider's state is   *)
(* well-formed and what is offered is what would be revoked at the cap.     *)
THEOREM TypeCorrect == Spec => []TypeOK
<1>1. Inv => TypeOK
  BY DEF Inv
<1> QED
  BY <1>1, Invariance, PTL

(* ICEServers never returns a credential that Tick has revoked or is about  *)
(* to revoke.                                                               *)
THEOREM OfferedNotRevokedHolds == Spec => []OfferedNotRevoked
<1>1. Inv => OfferedNotRevoked
  BY DEF Inv, Separate, OfferedNotRevoked, Offered
<1> QED
  BY <1>1, Invariance, PTL

(* No step of any Tick offers or mints anything after a usage that could    *)
(* not be read or that had reached the limit.                               *)
CapKept ==
    /\ (step = "decide" /\ step' # "decide" /\ reading # "under") =>
         (step' # "mint" /\ Offered' = None)
    /\ Live' \subseteq Live \/ reading = "under"
    /\ (Offered = None /\ Offered' # None) => reading = "under"

LEMMA StepKeepsCap == ASSUME Inv, [Next]_vars PROVE CapKept
<1>1. CASE NextTick
  BY <1>1 DEF CapKept, NextTick, Live, Offered
<1>2. CASE ReadUsage
  BY <1>2 DEF CapKept, ReadUsage, Live, Offered, provider, cloud
<1>3. CASE Decide
  BY <1>3 DEF CapKept, Decide, NeedRevoke, NeedMint, UsageOKAfter, Live, Offered, cloud
<1>4. CASE Revoke
  <2>1. \A c \in Credentials : issued'[c] = issued[c] \/ issued'[c] = "revoked"
    BY <1>4 DEF Inv, TypeOK, Revoke
  <2> QED
    BY <1>4, <2>1 DEF CapKept, Revoke, Live, Offered, provider
<1>5. CASE Mint \/ MintFails
  BY <1>5 DEF CapKept, Inv, Steps, Mint, MintFails
<1>6. CASE Restart
  BY <1>6 DEF CapKept, Restart, Live, Offered, cloud
<1>7. CASE World
  BY <1>7 DEF CapKept, World, Live, Offered, provider, cloud
<1>8. CASE UNCHANGED vars
  BY <1>8 DEF CapKept, vars, Live, Offered
<1> QED
  BY <1>1, <1>2, <1>3, <1>4, <1>5, <1>6, <1>7, <1>8 DEF Next, Tick

(* The cap is never assumed.                                                *)
THEOREM CapNeverAssumedHolds == Spec => CapNeverAssumed
<1>1. Inv /\ [Next]_vars => [CapKept]_vars
  BY StepKeepsCap
<1> QED
  BY <1>1, Invariance, PTL DEF Spec, CapNeverAssumed, CapKept
=============================================================================
