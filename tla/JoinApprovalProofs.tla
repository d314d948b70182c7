-------------------------- MODULE JoinApprovalProofs --------------------------
(***************************************************************************)
(* Theorems about JoinApproval for every set of members, applicants'        *)
(* connections and keys: it keeps the promise of Admission, and what the    *)
(* applicant and the members are shown is true once everything has arrived. *)
(***************************************************************************)
EXTENDS JoinApprovalLemmas

-----------------------------------------------------------------------------
(* Connections.                                                             *)

LEMMA ConnectStep ==
    ASSUME Inv, NEW c \in Conns, Connect(c)
    PROVE  Inv'
<1> USE DEF Inv
<1>1. /\ c \notin online /\ online' = online \cup {c}
      /\ UNCHANGED <<pubOf, storeVars, reqID, task, queue, clientVars, history>>
  BY DEF Connect
<1>2. StoreInv' /\ \A p \in Pubs : Decision(p)' = Decision(p)
  BY <1>1, UnchangedStore
<1>3. PendingNow' = PendingNow
  BY <1>2 DEF PendingNow
<1>4. Steady
  BY <1>1, <1>2, SteadyStep DEF clientVars, Approved
<1>5. PICK m : /\ m = [type |-> IF hasKey[c] THEN "claim" ELSE "join-request"]
               /\ todo' = [todo EXCEPT ![c] = <<m>>]
  BY DEF Connect
<1>6. m \in CommandType /\ m.type = IF hasKey[c] THEN "claim" ELSE "join-request"
  BY <1>5 DEF CommandType
<1>7. ~IsDecision(m)
  BY <1>6 DEF IsDecision
<1>8. /\ <<m>> \in Seq(CommandType) /\ Range(<<m>>) = {m}
      /\ Asks(<<m>>) <=> ~hasKey[c]
      /\ AskOnce(<<m>>) /\ ~Decides(<<m>>) /\ Decisions(<<m>>) = {}
      /\ ~hasKey[c] => ClaimAfterDone(<<m>>)
  BY <1>6, <1>7, OneCommand
<1>9. todo' \in [Conns -> Seq(CommandType)] /\ todo'[c] = <<m>>
      /\ \A x \in Conns \ {c} : todo'[x] = todo[x]
  BY <1>5, <1>8 DEF TypeOK
<1>10. TypeOK'
  BY <1>1, <1>9 DEF TypeOK, storeVars, clientVars, history, Store!TypeOK, Store!Rooms
<1>11. \A x \in Conns \ {c} : Still(x)
  BY <1>1, <1>3, <1>9 DEF Still, Kept, clientVars, history
<1>12. Sound(c)'
  <2>1. /\ queue[c] = <<>> /\ task[c] = Idle /\ reqID[c] = None /\ claimed[c] = FALSE
        /\ todo[c] = <<>>
    BY <1>1 DEF Sound, OfflineAt
  <2>2. HonestAt(c)'
    BY <1>1, <1>6, <1>8, <1>9, <2>1, EmptyQueue
    DEF Sound, HonestAt, HonestCommand, HonestTask, Idle, Conns, clientVars
  <2>3. AsksFirstAt(c)'
    BY <1>1, <1>8, <1>9, <2>1, EmptyQueue DEF AsksFirstAt, clientVars
  <2>4. SeesAsMemberAt(c)'
    BY <1>1, <1>8, <1>9, <2>1, EmptyQueue
    DEF Sound, HonestAt, SeesAsMemberAt, Joining, Idle, clientVars
  <2>5. ClicksArriveAt(c)'
    BY <1>1, <1>8, <1>9, <2>1, EmptyQueue DEF Sound, ClicksArriveAt, clientVars, history
  <2>6. OfflineAt(c)'
    BY <1>1 DEF OfflineAt
  <2> QED
    BY <2>2, <2>3, <2>4, <2>5, <2>6 DEF Sound
<1>13. \A x \in Conns : Sound(x)'
  BY <1>4, <1>11, <1>12, StillSound
<1>14. ASSUME NEW x \in Applicants PROVE WaitsAt(x)'
  <2>1. CASE x = c
    BY <1>1, <1>8, <1>9, <2>1 DEF Sound, OfflineAt, WaitsAt, Idle, Conns, clientVars
  <2>2. CASE x # c
    BY <1>1, <1>2, <1>4, <1>11, <2>2, StillWaits DEF Conns, clientVars, history
  <2> QED
    BY <2>1, <2>2
<1>15. ASSUME NEW x \in Conns PROVE CardsFollowAt(x)'
  <2>1. CASE x = c
    BY <1>1, <2>1, EmptyQueue DEF Sound, OfflineAt, CardsFollowAt, clientVars
  <2>2. CASE x # c
    BY <1>1, <1>3, <1>11, <2>2, StillFollows DEF Telling, history
  <2> QED
    BY <2>1, <2>2
<1> QED
  BY <1>2, <1>10, <1>13, <1>14, <1>15

(* The connections in cs are dropped, without a change to the requests; the *)
(* pages show what they showed, or are loaded again.                        *)
LEMMA DropStep ==
    ASSUME Inv, NEW cs \in SUBSET Conns, Drop(cs),
           StoreInv', \A p \in Pubs : Decision(p)' = Decision(p),
           cs = Conns \/ \E c \in Conns : cs = {c} /\ task[c] = Idle,
           pubOf' = pubOf,
           hasKey' \in [Conns -> BOOLEAN],
           banner' \in [Conns -> {"none", "pending", "rejected", "error"}],
           shown' \in [Conns -> SUBSET Pubs], clicked' \in [Conns -> SUBSET Pubs],
           spent' \in [Conns -> SUBSET Pubs],
           \A x \in Conns : hasKey[x] => hasKey'[x],
           \A x \in Conns :
             /\ shown'[x] \in {shown[x], {}}
             /\ clicked'[x] \subseteq spent'[x] \cup (IF x \in cs THEN {} ELSE Decisions(todo[x])),
           \A x \in Conns \ cs : /\ hasKey'[x] = hasKey[x] /\ banner'[x] = banner[x]
                                 /\ shown'[x] = shown[x] /\ clicked'[x] = clicked[x]
                                 /\ spent'[x] = spent[x]
    PROVE  Inv'
<1> USE DEF Inv
<1>1. PendingNow' = PendingNow
  BY DEF PendingNow
<1>2. Steady
  BY SteadyStep DEF Approved
<1>3. /\ drops' \in 0..MaxDrops
      /\ online' = online \ cs
      /\ \A x \in Conns \ cs :
           /\ reqID'[x] = reqID[x] /\ task'[x] = task[x] /\ queue'[x] = queue[x]
           /\ todo'[x] = todo[x] /\ claimed'[x] = claimed[x] /\ window'[x] = window[x]
           /\ behind'[x] = behind[x]
      /\ \A x \in cs :
           /\ reqID'[x] = None /\ task'[x] = Idle /\ queue'[x] = <<>>
           /\ todo'[x] = <<>> /\ claimed'[x] = FALSE
  <2>1. drops' \in 0..MaxDrops /\ online' = online \ cs
    BY BoundsAssumption DEF Drop, TypeOK
  <2>2. \A x \in Conns \ cs :
           /\ reqID'[x] = reqID[x] /\ task'[x] = task[x] /\ queue'[x] = queue[x]
           /\ todo'[x] = todo[x] /\ claimed'[x] = claimed[x] /\ window'[x] = window[x]
           /\ behind'[x] = behind[x]
    BY DEF Drop
  <2>3. \A x \in cs :
           /\ reqID'[x] = None /\ task'[x] = Idle /\ queue'[x] = <<>>
           /\ todo'[x] = <<>> /\ claimed'[x] = FALSE
    BY DEF Drop
  <2> QED
    BY <2>1, <2>2, <2>3
<1>4. TypeOK'
  <2>1. /\ reqID' \in [Conns -> Pubs \cup {None}] /\ task' \in [Conns -> TaskType]
        /\ online' \in SUBSET Conns
    BY NewTasks DEF Drop, TypeOK, TaskType
  <2>2. queue' \in [Conns -> Seq(AnswerType)] /\ todo' \in [Conns -> Seq(CommandType)]
    BY EmptyQueue DEF Drop, TypeOK
  <2>3. /\ claimed' \in [Conns -> BOOLEAN] /\ window' \in [Conns -> BOOLEAN]
        /\ behind' \in [Conns -> {"none", "result", "broadcast"}]
    BY DEF Drop, TypeOK
  <2> QED
    BY <1>3, <2>1, <2>2, <2>3 DEF TypeOK, StoreInv, Store!TypeOK, Store!Rooms
<1>5. \A x \in Conns \ cs : Still(x)
  BY <1>1, <1>3 DEF Still, Kept
<1>6. \A x \in Conns \ cs : Sound(x)'
  BY <1>2, <1>5, StillSound
<1>7. ASSUME NEW x \in cs PROVE Sound(x)'
  <2>1. /\ reqID'[x] = None /\ task'[x] = Idle /\ queue'[x] = <<>>
        /\ todo'[x] = <<>> /\ claimed'[x] = FALSE /\ x \in Conns
    BY <1>3
  <2>2. (x \in Members => hasKey'[x]) /\ (shown'[x] # {} => hasKey'[x])
    BY <2>1 DEF Sound, HonestAt
  <2>3. HonestAt(x)'
    BY <2>1, <2>2, EmptyQueue DEF HonestAt, HonestTask, Idle
  <2>4. OfflineAt(x)' /\ AsksFirstAt(x)'
    BY <2>1, EmptyQueue DEF OfflineAt, AsksFirstAt
  <2>5. SeesAsMemberAt(x)'
    BY <2>1, EmptyQueue DEF SeesAsMemberAt, Joining, Idle
  <2>6. ClicksArriveAt(x)'
    BY <2>1, EmptyQueue DEF ClicksArriveAt
  <2> QED
    BY <2>3, <2>4, <2>5, <2>6 DEF Sound
<1>8. ASSUME NEW x \in Applicants PROVE WaitsAt(x)'
  <2>1. CASE x \in cs
    BY <1>3, <2>1 DEF WaitsAt
  <2>2. CASE x \notin cs
    <3>1. \A y \in Conns : task[y].step = "notify" => task'[y] = task[y]
      BY <1>3, <2>2 DEF Idle, Conns
    <3> QED
      BY <1>2, <1>3, <1>5, <2>2, <3>1, StillWaits DEF Conns
  <2> QED
    BY <2>1, <2>2
<1>9. ASSUME NEW x \in Conns PROVE CardsFollowAt(x)'
  <2>1. CASE x \in cs
    BY <1>3, <2>1 DEF CardsFollowAt
  <2>2. CASE x \notin cs
    <3>1. Telling => Telling'
      BY <1>3, <2>2 DEF Telling, Tells, Idle
    <3> QED
      BY <1>1, <1>3, <1>5, <2>2, <3>1, StillFollows
  <2> QED
    BY <2>1, <2>2
<1> QED
  BY <1>4, <1>6, <1>7, <1>8, <1>9

LEMMA DisconnectStep ==
    ASSUME Inv, NEW c \in Conns, Disconnect(c)
    PROVE  Inv'
<1>1. /\ Drop({c}) /\ ClicksLost({c}) /\ task[c] = Idle
      /\ UNCHANGED <<pubOf, storeVars, hasKey, banner, shown, clicked>>
  BY DEF Disconnect
<1>2. StoreInv' /\ \A p \in Pubs : Decision(p)' = Decision(p)
  BY <1>1, UnchangedStore DEF Inv
<1>3. \A x \in Conns : spent'[x] = spent[x] \cup IF x = c THEN Decisions(todo[x]) ELSE {}
  BY <1>1 DEF ClicksLost
<1>4. \A x \in Conns : Decisions(todo[x]) \in SUBSET Pubs
  BY DecisionIDs DEF Inv, TypeOK
<1>5. spent' \in [Conns -> SUBSET Pubs]
  BY <1>1, <1>4 DEF ClicksLost, Inv, TypeOK
<1>6. \A x \in Conns : clicked[x] \subseteq spent[x] \cup Decisions(todo[x])
  BY DEF Inv, Sound, ClicksArriveAt
<1>7. \A x \in Conns :
        /\ hasKey[x] => hasKey'[x]
        /\ shown'[x] \in {shown[x], {}}
        /\ clicked'[x] \subseteq spent'[x] \cup (IF x \in {c} THEN {} ELSE Decisions(todo[x]))
  BY <1>1, <1>3, <1>6
<1>8. \A x \in Conns \ {c} : /\ hasKey'[x] = hasKey[x] /\ banner'[x] = banner[x]
                             /\ shown'[x] = shown[x] /\ clicked'[x] = clicked[x]
                             /\ spent'[x] = spent[x]
  BY <1>1, <1>3
<1>9. /\ hasKey' \in [Conns -> BOOLEAN]
      /\ banner' \in [Conns -> {"none", "pending", "rejected", "error"}]
      /\ shown' \in [Conns -> SUBSET Pubs] /\ clicked' \in [Conns -> SUBSET Pubs]
  BY <1>1 DEF Inv, TypeOK
<1> QED
  BY <1>1, <1>2, <1>5, <1>7, <1>8, <1>9, DropStep

LEMMA ReloadStep ==
    ASSUME Inv, NEW c \in Conns, Reload(c)
    PROVE  Inv'
<1>1. /\ Drop({c}) /\ task[c] = Idle
      /\ hasKey' = [hasKey EXCEPT ![c] = KeyStored(c)]
      /\ banner' = [banner EXCEPT ![c] = "none"]
      /\ shown' = [shown EXCEPT ![c] = {}]
      /\ clicked' = [clicked EXCEPT ![c] = {}]
      /\ spent' = [spent EXCEPT ![c] = {}]
      /\ UNCHANGED <<pubOf, storeVars>>
  BY DEF Reload
<1>2. StoreInv' /\ \A p \in Pubs : Decision(p)' = Decision(p)
  BY <1>1, UnchangedStore DEF Inv
<1>3. hasKey[c] => KeyStored(c) = TRUE
  BY DEF KeyStored
<1>4. KeyStored(c) \in BOOLEAN
  BY DEF KeyStored, Inv, TypeOK
<1>5. \A x \in Conns : clicked[x] \subseteq spent[x] \cup Decisions(todo[x])
  BY DEF Inv, Sound, ClicksArriveAt
<1>6. /\ hasKey' \in [Conns -> BOOLEAN]
      /\ banner' \in [Conns -> {"none", "pending", "rejected", "error"}]
      /\ shown' \in [Conns -> SUBSET Pubs] /\ clicked' \in [Conns -> SUBSET Pubs]
      /\ spent' \in [Conns -> SUBSET Pubs]
  BY <1>1, <1>4 DEF Inv, TypeOK
<1>7. /\ \A x \in Conns : hasKey[x] => hasKey'[x]
      /\ shown'[c] = {} /\ clicked'[c] = {}
      /\ \A x \in Conns \ {c} : /\ hasKey'[x] = hasKey[x] /\ banner'[x] = banner[x]
                                 /\ shown'[x] = shown[x] /\ clicked'[x] = clicked[x]
                                 /\ spent'[x] = spent[x]
  BY <1>1, <1>3 DEF Inv, TypeOK
<1> QED
  BY <1>1, <1>2, <1>5, <1>6, <1>7, DropStep

LEMMA RestartStep ==
    ASSUME Inv, ServerRestart
    PROVE  Inv'
<1>1. /\ Store!Restart /\ Drop(Conns) /\ ClicksLost(Conns)
      /\ UNCHANGED <<pubOf, hasKey, banner, shown, clicked>>
  BY DEF ServerRestart
<1>2. StoreInv' /\ \A p \in Pubs : Decision(p)' = Decision(p)
  BY <1>1, RestartStore DEF Inv
<1>3. \A x \in Conns : spent'[x] = spent[x] \cup Decisions(todo[x])
  BY <1>1 DEF ClicksLost
<1>4. \A x \in Conns : Decisions(todo[x]) \in SUBSET Pubs
  BY DecisionIDs DEF Inv, TypeOK
<1>5. spent' \in [Conns -> SUBSET Pubs]
  BY <1>1, <1>4 DEF ClicksLost, Inv, TypeOK
<1>6. \A x \in Conns : clicked[x] \subseteq spent[x] \cup Decisions(todo[x])
  BY DEF Inv, Sound, ClicksArriveAt
<1>7. \A x \in Conns :
        /\ hasKey[x] => hasKey'[x]
        /\ shown'[x] \in {shown[x], {}}
        /\ clicked'[x] \subseteq spent'[x] \cup (IF x \in Conns THEN {} ELSE Decisions(todo[x]))
  BY <1>1, <1>3, <1>6
<1>8. /\ hasKey' \in [Conns -> BOOLEAN]
      /\ banner' \in [Conns -> {"none", "pending", "rejected", "error"}]
      /\ shown' \in [Conns -> SUBSET Pubs] /\ clicked' \in [Conns -> SUBSET Pubs]
  BY <1>1 DEF Inv, TypeOK
<1>9. Conns \ Conns = {}
  OBVIOUS
<1> QED
  BY <1>1, <1>2, <1>5, <1>7, <1>8, <1>9, DropStep

-----------------------------------------------------------------------------
(* A member's claim.                                                        *)

LEMMA HandleClaimStep ==
    ASSUME Inv, NEW c \in Conns, HandleClaim(c)
    PROVE  Inv'
<1> USE DEF Inv
<1>0. PICK t : t = [step |-> "result", list |-> PendingNow, late |-> FALSE]
  OBVIOUS
<1>1. /\ Begins(c, "claim") /\ Store!Claim(Room, FALSE, "inbox")
      /\ UNCHANGED <<pubOf, online, reqID, queue, clientVars, history>>
  BY DEF HandleClaim
<1>2. StoreInv' /\ \A p \in Pubs : Decision(p)' = Decision(p)
  BY <1>1, ClaimStore
<1>3. PendingNow' = PendingNow
  BY <1>2 DEF PendingNow
<1>4. Steady
  BY <1>1, <1>2, SteadyStep DEF clientVars, Approved
<1>5. GoTo(c, t)
  BY <1>0, StorePending DEF HandleClaim
<1>6. t \in TaskType
  BY <1>0 DEF TaskType, PendingNow
<1>7. t.step = "result" /\ t.list = PendingNow
  BY <1>0
<1>8. /\ task' \in [Conns -> TaskType] /\ task'[c] = t
      /\ \A x \in Conns \ {c} : task'[x] = task[x]
  BY <1>5, <1>6, Went
<1>9. /\ c \in online /\ task[c] = Idle /\ todo' \in [Conns -> Seq(CommandType)]
      /\ \A x \in Conns \ {c} : todo'[x] = todo[x]
      /\ Head(todo[c]).type = "claim"
  BY <1>1, Begun
<1>10. /\ HonestCommand(c, Head(todo[c])) /\ \A m \in Range(todo'[c]) : HonestCommand(c, m)
       /\ ~Asks(todo'[c]) /\ AskOnce(todo'[c])
       /\ Decisions(todo[c]) = Decisions(todo'[c]) /\ ~Joining(c)
  BY <1>1, Taken
<1>11. TypeOK'
  BY <1>1, <1>2, <1>8, <1>9 DEF TypeOK, clientVars, history, StoreInv, Store!TypeOK, Store!Rooms
<1>12. \A x \in Conns \ {c} :
         /\ Still(x) /\ banner'[x] = banner[x]
         /\ window'[x] = window[x] /\ behind'[x] = behind[x]
  BY <1>1, <1>3, <1>8, <1>9 DEF Still, Kept, clientVars, history
<1>13. hasKey'[c] /\ hasKey[c]
  BY <1>1, <1>9, <1>10 DEF HonestCommand, clientVars
<1>14. Sound(c)'
  <2>1. HonestAt(c)'
    <3>1. \A m \in Range(todo'[c]) : HonestCommand(c, m)'
      BY <1>1, <1>4, <1>10 DEF HonestCommand, Steady
    <3>2. \A m \in Range(queue[c]) : HonestAnswer(c, m)'
      BY <1>4, MessagesStayHonest DEF Sound
    <3>3. HonestTask(c, t)'
      BY <1>3, <1>7, <1>13 DEF HonestTask
    <3> QED
      BY <1>1, <1>8, <1>13, <3>1, <3>2, <3>3 DEF Sound, HonestAt
  <2>2. ~Joining(c)'
    BY <1>1, <1>7, <1>8, <1>10 DEF Joining
  <2> QED
    BY <1>1, <1>9, <1>10, <2>1, <2>2
    DEF Sound, OfflineAt, AsksFirstAt, SeesAsMemberAt, ClicksArriveAt, clientVars, history
<1>15. WaitsAt(c)'
  BY <1>13 DEF WaitsAt
<1>16. Telling => Telling'
  BY <1>8, <1>9 DEF Telling, Tells, Idle
<1>17. CardsFollowAt(c)'
  BY <1>1, <1>3, <1>16 DEF CardsFollowAt, Telling, clientVars, history
<1>18. task[c].step # "notify" /\ ~Tells(task[c])
  BY <1>9 DEF Idle, Tells
<1> QED
  BY <1>2, <1>3, <1>4, <1>11, <1>12, <1>14, <1>15, <1>17, <1>18, LocalStep

LEMMA SendClaimResultStep ==
    ASSUME Inv, NEW c \in Conns, SendClaimResult(c)
    PROVE  Inv'
<1> USE DEF Inv
<1>0. PICK m : m = [type |-> "claim-result", list |-> task[c].list]
  OBVIOUS
<1>1. /\ task[c].step = "result" /\ SendTo({c}, m) /\ GoTo(c, Idle)
      /\ behind' = [behind EXCEPT ![c] = Lateness(task[c])]
      /\ UNCHANGED <<pubOf, storeVars, online, reqID, todo, clientVars, window, spent, drops>>
  BY <1>0 DEF SendClaimResult, At
<1>2. StoreInv' /\ \A p \in Pubs : Decision(p)' = Decision(p)
  BY <1>1, UnchangedStore
<1>3. PendingNow' = PendingNow
  BY <1>2 DEF PendingNow
<1>4. Steady
  BY <1>1, <1>2, SteadyStep DEF clientVars, Approved
<1>5. task[c] \in TaskType /\ task[c].list \in SUBSET Pubs /\ task[c].late \in BOOLEAN
  <2>1. task[c] \in TaskType
    BY DEF TypeOK
  <2> QED
    BY <1>1, <2>1, TaskTypes
<1>6. m \in AnswerType
  BY <1>0, <1>5 DEF AnswerType
<1>7. m.type = "claim-result" /\ m.list = task[c].list /\ ~IsStatus(m) /\ IsList(m)
  BY <1>0 DEF IsStatus, IsList
<1>8. /\ task' \in [Conns -> TaskType] /\ task'[c] = Idle
      /\ \A x \in Conns \ {c} : task'[x] = task[x]
  BY <1>1, Went DEF TaskType
<1>9. /\ queue' \in [Conns -> Seq(AnswerType)] /\ queue'[c] = Append(queue[c], m)
      /\ Range(queue'[c]) = Range(queue[c]) \cup {m}
      /\ \A x \in Conns \ {c} : queue'[x] = queue[x]
  BY <1>1, <1>6, Sent
<1>10. queue[c] \in Seq(AnswerType)
  BY DEF TypeOK
<1>11. behind' \in [Conns -> {"none", "result", "broadcast"}]
  BY <1>1, <1>5 DEF TypeOK, Lateness
<1>12. TypeOK'
  BY <1>1, <1>2, <1>8, <1>9, <1>11
  DEF TypeOK, clientVars, StoreInv, Store!TypeOK, Store!Rooms
<1>13. \A x \in Conns \ {c} :
         /\ Still(x) /\ banner'[x] = banner[x]
         /\ window'[x] = window[x] /\ behind'[x] = behind[x]
  BY <1>1, <1>3, <1>8, <1>9 DEF Still, Kept, clientVars, TypeOK
<1>14. hasKey[c] /\ hasKey'[c] /\ ~Joining(c) /\ c \in online
  BY <1>1, <1>5, TaskTypes
  DEF Sound, HonestAt, HonestTask, SeesAsMemberAt, OfflineAt, Idle, clientVars
<1>15. Sound(c)'
  <2>1. HonestAt(c)'
    <3>1. \A k \in Range(todo[c]) : HonestCommand(c, k)'
      BY <1>1, <1>4 DEF Sound, HonestAt, HonestCommand, Steady
    <3>2. \A k \in Range(queue[c]) : HonestAnswer(c, k)'
      BY <1>4, MessagesStayHonest DEF Sound
    <3>3. HonestAnswer(c, m)'
      BY <1>7, <1>14 DEF HonestAnswer
    <3>4. HonestTask(c, Idle)'
      BY DEF HonestTask, Idle
    <3> QED
      BY <1>1, <1>8, <1>9, <1>14, <3>1, <3>2, <3>3, <3>4 DEF Sound, HonestAt
  <2>2. ~Joining(c)'
    BY <1>1, <1>8, <1>14 DEF Joining, Idle
  <2> QED
    BY <1>1, <1>7, <1>8, <1>9, <1>14, <2>1, <2>2
    DEF Sound, OfflineAt, AsksFirstAt, SeesAsMemberAt, ClicksArriveAt, clientVars
<1>16. WaitsAt(c)'
  BY <1>14 DEF WaitsAt
<1>17. CardsFollowAt(c)'
  <2>1. LastLists(queue'[c], shown'[c]) = {task[c].list}
    BY <1>6, <1>7, <1>9, <1>10, AddedLast
  <2>2. behind'[c] = "none" => task[c].list = PendingNow
    BY <1>1, <1>5 DEF Lateness, Sound, HonestAt, HonestTask, TypeOK
  <2> QED
    BY <1>3, <2>1, <2>2 DEF CardsFollowAt
<1>18. task[c].step # "notify" /\ ~Tells(task[c])
  BY <1>1 DEF Tells
<1> QED
  BY <1>2, <1>3, <1>4, <1>12, <1>13, <1>15, <1>16, <1>17, <1>18, LocalStep

-----------------------------------------------------------------------------
(* An applicant's request.                                                  *)

LEMMA HandleRequestStep ==
    ASSUME Inv, NEW c \in Conns, HandleRequest(c)
    PROVE  Inv'
<1> USE DEF Inv
<1>1. /\ Begins(c, "join-request") /\ pubOf' = pubOf
      /\ window' = [window EXCEPT ![c] = FALSE]
      /\ UNCHANGED <<online, reqID, queue, clientVars, behind, spent, drops>>
  BY DEF HandleRequest
<1>2. /\ c \in online /\ task[c] = Idle /\ todo' \in [Conns -> Seq(CommandType)]
      /\ \A x \in Conns \ {c} : todo'[x] = todo[x]
      /\ Head(todo[c]).type = "join-request"
  BY <1>1, Begun
<1>3. /\ HonestCommand(c, Head(todo[c])) /\ \A m \in Range(todo'[c]) : HonestCommand(c, m)
      /\ Asks(todo[c]) /\ ~Asks(todo'[c]) /\ AskOnce(todo'[c])
      /\ Decides(todo'[c]) => Decides(todo[c])
      /\ Decisions(todo[c]) = Decisions(todo'[c])
      /\ Joining(c) => ClaimAfterDone(todo'[c])
  BY <1>1, Taken
<1>4. /\ Joining(c) /\ reqID[c] = None /\ c \in Applicants
      /\ ~claimed[c] /\ ~ClaimResultIn(queue[c]) /\ shown[c] = {} /\ ~Decides(todo[c])
  BY <1>2, <1>3 DEF Sound, AsksFirstAt, SeesAsMemberAt, Joining, HonestCommand
<1>5. PICK p \in Pubs : p = pubOf[c] /\ p = pubOf'[c]
  BY <1>1, <1>4 DEF TypeOK
<1>6. Store!Submit(Room, p)
  BY <1>5 DEF HandleRequest
<1>7. /\ StoreInv' /\ Decision(p)' = IF Decision(p) = "none" THEN "pending" ELSE Decision(p)
      /\ \A o \in Pubs \ {p} : Decision(o)' = Decision(o)
      /\ StatusOf(p)' = Decision(p)'
  BY <1>6, SubmitStore
<1>8. PICK t : t = [step |-> "register", id |-> p, status |-> Decision(p)']
  OBVIOUS
<1>9. GoToAndOvertake(c, t)
  <2>1. StatusOf(pubOf[c])' = StatusOf(p)'
    BY <1>5 DEF StatusOf
  <2> QED
    BY <1>5, <1>7, <1>8, <2>1 DEF HandleRequest
<1>10. Decision(p)' \in Store!Status
  BY <1>7, StoreRequest DEF Store!Status
<1>11. t \in TaskType /\ t.step = "register" /\ t.id = p /\ t.status = Decision(p)'
  BY <1>8, <1>10 DEF TaskType
<1>12. task' \in [Conns -> TaskType] /\ task'[c] = t /\ \A x \in Conns \ {c} : Kept(x)
  BY <1>7, <1>9, <1>11, WentOvertaking
<1>13. Steady
  BY <1>1, <1>7, SteadyStep DEF clientVars, Approved
<1>14. TypeOK'
  <2>1. window' \in [Conns -> BOOLEAN]
    BY <1>1 DEF TypeOK
  <2> QED
    BY <1>1, <1>2, <1>7, <1>12, <2>1
    DEF TypeOK, clientVars, StoreInv, Store!TypeOK, Store!Rooms
<1>15. \A x \in Conns \ {c} :
         /\ Still(x) /\ banner'[x] = banner[x]
         /\ window'[x] = window[x] /\ behind'[x] = behind[x]
  BY <1>1, <1>2, <1>12 DEF Still, clientVars, TypeOK
<1>16. Sound(c)'
  <2>1. HonestAt(c)'
    <3>1. \A m \in Range(todo'[c]) : HonestCommand(c, m)'
      BY <1>1, <1>3 DEF HonestCommand, clientVars
    <3>2. \A m \in Range(queue[c]) : HonestAnswer(c, m)'
      BY <1>13, MessagesStayHonest DEF Sound
    <3>3. HonestTask(c, t)'
      BY <1>4, <1>5, <1>11 DEF HonestTask, Approved
    <3> QED
      BY <1>1, <1>12, <3>1, <3>2, <3>3 DEF Sound, HonestAt, clientVars
  <2>2. SeesAsMemberAt(c)'
    BY <1>1, <1>3, <1>4, <1>11, <1>12 DEF SeesAsMemberAt, clientVars
  <2> QED
    BY <1>1, <1>2, <1>3, <2>1, <2>2
    DEF Sound, OfflineAt, AsksFirstAt, ClicksArriveAt, clientVars
<1>17. WaitsAt(c)'
  BY <1>5, <1>11, <1>12 DEF WaitsAt
<1>18. CardsFollowAt(c)'
  BY <1>1, <1>4 DEF CardsFollowAt, clientVars
<1>19. task[c].step # "notify" /\ ~Tells(task[c])
  BY <1>2 DEF Idle, Tells
<1>20. \A o \in Pubs : Decision(o) = "pending" => Decision(o)' = "pending"
  BY <1>7
<1>21. PendingNow' = PendingNow \/ Telling'
  <2>1. CASE Decision(p) = "none"
    BY <1>7, <1>11, <1>12, <2>1 DEF Telling, Tells
  <2>2. CASE Decision(p) # "none"
    BY <1>7, <2>2 DEF PendingNow
  <2> QED
    BY <2>1, <2>2
<1> QED
  BY <1>7, <1>13, <1>14, <1>15, <1>16, <1>17, <1>18, <1>19, <1>20, <1>21, LocalStep

LEMMA RefuseRequestStep ==
    ASSUME Inv, NEW c \in Conns, RefuseRequest(c)
    PROVE  Inv'
<1> USE DEF Inv
<1>0. PICK m : m = [type |-> "join-status", error |-> "too many pending requests"]
  OBVIOUS
<1>1. /\ Begins(c, "join-request") /\ SendTo({c}, m)
      /\ UNCHANGED <<pubOf, storeVars, online, reqID, task, clientVars, history>>
  BY <1>0 DEF RefuseRequest
<1>2. /\ c \in online /\ task[c] = Idle /\ todo' \in [Conns -> Seq(CommandType)]
      /\ \A x \in Conns \ {c} : todo'[x] = todo[x]
  BY <1>1, Begun
<1>3. /\ \A k \in Range(todo'[c]) : HonestCommand(c, k)
      /\ Asks(todo[c]) /\ ~Asks(todo'[c]) /\ AskOnce(todo'[c])
      /\ Decisions(todo[c]) = Decisions(todo'[c])
  BY <1>1, Taken
<1>4. /\ reqID[c] = None /\ ~claimed[c] /\ ~ClaimResultIn(queue[c])
  BY <1>2, <1>3 DEF Sound, AsksFirstAt, SeesAsMemberAt, Joining
<1>5. StoreInv' /\ \A p \in Pubs : Decision(p)' = Decision(p)
  BY <1>1, UnchangedStore
<1>6. PendingNow' = PendingNow
  BY <1>5 DEF PendingNow
<1>7. Steady
  BY <1>1, <1>5, SteadyStep DEF clientVars, Approved
<1>8. m \in AnswerType /\ m.type = "join-status" /\ ~IsStatus(m)
  BY <1>0 DEF AnswerType, IsStatus
<1>9. /\ queue' \in [Conns -> Seq(AnswerType)] /\ queue'[c] = Append(queue[c], m)
      /\ Range(queue'[c]) = Range(queue[c]) \cup {m}
      /\ \A x \in Conns \ {c} : queue'[x] = queue[x]
  BY <1>1, <1>8, Sent
<1>10. queue[c] \in Seq(AnswerType)
  BY DEF TypeOK
<1>11. TypeOK'
  BY <1>1, <1>2, <1>5, <1>9
  DEF TypeOK, clientVars, history, StoreInv, Store!TypeOK, Store!Rooms
<1>12. \A x \in Conns \ {c} :
         /\ Still(x) /\ banner'[x] = banner[x]
         /\ window'[x] = window[x] /\ behind'[x] = behind[x]
  BY <1>1, <1>2, <1>6, <1>9 DEF Still, Kept, clientVars, history
<1>13. Sound(c)'
  <2>1. HonestAt(c)'
    <3>1. \A k \in Range(todo'[c]) : HonestCommand(c, k)'
      BY <1>1, <1>3 DEF HonestCommand, clientVars
    <3>2. \A k \in Range(queue[c]) : HonestAnswer(c, k)'
      BY <1>7, MessagesStayHonest DEF Sound
    <3>3. HonestAnswer(c, m)'
      BY <1>8 DEF HonestAnswer
    <3>4. HonestTask(c, Idle)'
      BY DEF HonestTask, Idle
    <3> QED
      BY <1>1, <1>2, <1>9, <3>1, <3>2, <3>3, <3>4 DEF Sound, HonestAt, clientVars
  <2>2. ~Joining(c)'
    BY <1>1, <1>2, <1>3, <1>4 DEF Joining, Idle
  <2> QED
    BY <1>1, <1>2, <1>3, <2>1, <2>2
    DEF Sound, OfflineAt, AsksFirstAt, SeesAsMemberAt, ClicksArriveAt, clientVars, history
<1>14. WaitsAt(c)'
  <2>1. ~PendingLast(queue'[c], banner'[c])
    BY <1>8, <1>9, <1>10, AddedLast
  <2> QED
    BY <1>1, <1>2, <2>1 DEF WaitsAt, Idle
<1>15. CardsFollowAt(c)'
  <2>1. ~ClaimResultIn(queue'[c])
    BY <1>4, <1>8, <1>9, <1>10, AddedLast
  <2> QED
    BY <1>1, <1>4, <2>1 DEF CardsFollowAt, clientVars
<1>16. task[c].step # "notify" /\ ~Tells(task[c])
  BY <1>2 DEF Idle, Tells
<1> QED
  BY <1>5, <1>6, <1>7, <1>11, <1>12, <1>13, <1>14, <1>15, <1>16, LocalStep

LEMMA RegisterStep ==
    ASSUME Inv, NEW c \in Conns, Register(c)
    PROVE  Inv'
<1> USE DEF Inv
<1>1. PICK t : t = [task[c] EXCEPT !.step = "reply"]
  OBVIOUS
<1>2. /\ task[c].step = "register" /\ GoTo(c, t)
      /\ reqID' = [reqID EXCEPT ![c] = task[c].id]
      /\ UNCHANGED <<pubOf, storeVars, online, queue, todo, clientVars, history>>
  BY <1>1 DEF Register, At
<1>3. task[c] \in TaskType
  BY DEF TypeOK
<1>4. /\ t \in TaskType /\ t.step = "reply" /\ t.id = task[c].id
      /\ t.status = task[c].status /\ task[c].id \in Pubs
  BY <1>1, <1>2, <1>3, TaskTypes
<1>5. /\ task' \in [Conns -> TaskType] /\ task'[c] = t
      /\ \A x \in Conns \ {c} : task'[x] = task[x]
  BY <1>2, <1>4, Went
<1>6. /\ reqID' \in [Conns -> Pubs \cup {None}] /\ reqID'[c] = t.id
      /\ \A x \in Conns \ {c} : reqID'[x] = reqID[x]
  BY <1>2, <1>4 DEF TypeOK
<1>7. StoreInv' /\ \A p \in Pubs : Decision(p)' = Decision(p)
  BY <1>2, UnchangedStore
<1>8. PendingNow' = PendingNow
  BY <1>7 DEF PendingNow
<1>9. Steady
  BY <1>2, <1>7, SteadyStep DEF clientVars, Approved
<1>10. /\ Joining(c) /\ c \in Applicants /\ t.id = pubOf[c] /\ t.id # None
       /\ t.status = "approved" => Approved(t.id)
       /\ ~Asks(todo[c]) /\ c \in online
       /\ ~claimed[c] /\ ~ClaimResultIn(queue[c]) /\ shown[c] = {} /\ ~Decides(todo[c])
  BY <1>2, <1>3, <1>4, ConnsAssumption
  DEF Sound, HonestAt, HonestTask, AsksFirstAt, SeesAsMemberAt, OfflineAt, Joining, Idle
<1>11. TypeOK'
  BY <1>2, <1>5, <1>6, <1>7
  DEF TypeOK, clientVars, history, StoreInv, Store!TypeOK, Store!Rooms
<1>12. \A x \in Conns \ {c} :
         /\ Still(x) /\ banner'[x] = banner[x]
         /\ window'[x] = window[x] /\ behind'[x] = behind[x]
  BY <1>2, <1>5, <1>6, <1>8 DEF Still, Kept, clientVars, history
<1>13. Sound(c)'
  <2>1. HonestAt(c)'
    <3>1. \A k \in Range(todo[c]) : HonestCommand(c, k)'
      BY <1>2, <1>10 DEF Sound, HonestAt, HonestCommand, clientVars
    <3>2. \A k \in Range(queue[c]) : HonestAnswer(c, k)'
      BY <1>9, MessagesStayHonest DEF Sound
    <3>3. Approved(t.id) => Approved(t.id)'
      BY <1>4, <1>9 DEF Steady
    <3>4. HonestTask(c, t)'
      BY <1>2, <1>4, <1>6, <1>10, <3>3 DEF HonestTask
    <3> QED
      BY <1>2, <1>4, <1>5, <1>6, <1>10, <3>1, <3>2, <3>4 DEF Sound, HonestAt, clientVars
  <2>2. SeesAsMemberAt(c)'
    BY <1>2, <1>4, <1>5, <1>10 DEF Sound, SeesAsMemberAt, clientVars
  <2> QED
    BY <1>2, <1>10, <2>1, <2>2
    DEF Sound, OfflineAt, AsksFirstAt, ClicksArriveAt, clientVars, history
<1>14. WaitsAt(c)'
  BY <1>2, <1>4, <1>5, <1>7, <1>10 DEF WaitsAt, TypeOK, clientVars, history
<1>15. CardsFollowAt(c)'
  BY <1>2, <1>10 DEF CardsFollowAt, clientVars
<1>16. task[c].step # "notify" /\ (Tells(task[c]) => Telling')
  BY <1>2, <1>4, <1>5 DEF Tells, Telling
<1> QED
  BY <1>7, <1>8, <1>9, <1>11, <1>12, <1>13, <1>14, <1>15, <1>16, LocalStep

LEMMA ReplyStep ==
    ASSUME Inv, NEW c \in Conns, Reply(c)
    PROVE  Inv'
<1> USE DEF Inv
<1>0. PICK m : m = [type |-> "join-status", id |-> task[c].id, status |-> task[c].status]
  OBVIOUS
<1>1. PICK t : t = IF task[c].status = "pending" THEN [step |-> "list"] ELSE Idle
  OBVIOUS
<1>2. /\ task[c].step = "reply" /\ GoTo(c, t) /\ SendTo({c}, m)
      /\ UNCHANGED <<pubOf, storeVars, online, reqID, todo, clientVars, history>>
  BY <1>0, <1>1 DEF Reply, At
<1>3. task[c] \in TaskType /\ queue[c] \in Seq(AnswerType)
  BY DEF TypeOK
<1>4. task[c].id \in Pubs /\ task[c].status \in Store!Status
  BY <1>2, <1>3, TaskTypes
<1>5. /\ t \in TaskType /\ t.step \in {"list", "idle"}
      /\ task[c].status = "pending" => t.step = "list"
  BY <1>1 DEF TaskType, Idle
<1>6. /\ m \in AnswerType /\ m.type = "join-status" /\ IsStatus(m)
      /\ m.id = task[c].id /\ m.status = task[c].status
  BY <1>0, <1>4 DEF AnswerType, IsStatus
<1>7. /\ task' \in [Conns -> TaskType] /\ task'[c] = t
      /\ \A x \in Conns \ {c} : task'[x] = task[x]
  BY <1>2, <1>5, Went
<1>8. /\ queue' \in [Conns -> Seq(AnswerType)] /\ queue'[c] = Append(queue[c], m)
      /\ Range(queue'[c]) = Range(queue[c]) \cup {m}
      /\ \A x \in Conns \ {c} : queue'[x] = queue[x]
  <2>1. SendTo({c}, m) /\ m \in AnswerType
    BY <1>2, <1>6
  <2> QED
    BY SMTT(30), <2>1, Sent
<1>9. StoreInv' /\ \A p \in Pubs : Decision(p)' = Decision(p)
  BY <1>2, UnchangedStore
<1>10. PendingNow' = PendingNow
  BY <1>9 DEF PendingNow
<1>11. Steady
  BY <1>2, <1>9, SteadyStep DEF clientVars, Approved
<1>12. /\ reqID[c] = pubOf[c] /\ reqID[c] # None /\ c \in Applicants
       /\ m.id = pubOf[c] /\ (m.status = "approved" => Approved(m.id))
       /\ ~Asks(todo[c]) /\ c \in online
  BY <1>2, <1>4, <1>6, ConnsAssumption
  DEF Sound, HonestAt, HonestTask, AsksFirstAt, OfflineAt, Idle
<1>13. /\ Joining(c) /\ Joining(c)'
       /\ ~claimed[c] /\ ~ClaimResultIn(queue[c]) /\ shown[c] = {} /\ ~Decides(todo[c])
  BY <1>2, <1>12 DEF Sound, SeesAsMemberAt, Joining
<1>14. TypeOK'
  BY <1>2, <1>7, <1>8, <1>9
  DEF TypeOK, clientVars, history, StoreInv, Store!TypeOK, Store!Rooms
<1>15. \A x \in Conns \ {c} :
         /\ Still(x) /\ banner'[x] = banner[x]
         /\ window'[x] = window[x] /\ behind'[x] = behind[x]
  BY <1>2, <1>7, <1>8, <1>10 DEF Still, Kept, clientVars, history
<1>16. ~ClaimResultIn(queue'[c])
  BY <1>3, <1>6, <1>8, <1>13, AddedLast
<1>17. Sound(c)'
  <2>1. HonestAt(c)'
    <3>1. \A k \in Range(todo[c]) : HonestCommand(c, k)'
      BY <1>2 DEF Sound, HonestAt, HonestCommand, clientVars
    <3>2. \A k \in Range(queue[c]) : HonestAnswer(c, k)'
      BY <1>11, MessagesStayHonest DEF Sound
    <3>3. HonestAnswer(c, m)'
      <4>1. Approved(m.id) => Approved(m.id)'
        BY <1>4, <1>6, <1>11 DEF Steady
      <4> QED
        BY <1>2, <1>6, <1>12, <4>1 DEF HonestAnswer
    <3>4. HonestTask(c, t)'
      BY <1>5 DEF HonestTask
    <3> QED
      BY <1>2, <1>7, <1>8, <3>1, <3>2, <3>3, <3>4 DEF Sound, HonestAt, clientVars
  <2>2. SeesAsMemberAt(c)'
    BY <1>2, <1>5, <1>7, <1>13, <1>16 DEF Sound, SeesAsMemberAt, clientVars
  <2> QED
    BY <1>2, <1>12, <2>1, <2>2
    DEF Sound, OfflineAt, AsksFirstAt, ClicksArriveAt, clientVars, history
<1>18. WaitsAt(c)'
  <2>1. PendingLast(queue'[c], banner'[c]) => m.status = "pending"
    BY <1>3, <1>6, <1>8, AddedLast
  <2>2. PICK p \in Pubs : p = pubOf[c] /\ p = pubOf'[c]
    BY <1>2, <1>12 DEF TypeOK
  <2>3. Decision(p)' = Decision(p)
    BY <1>9
  <2>4. (~hasKey[c] /\ ~window[c] /\ m.status = "pending") => Decision(p) = "pending"
    BY <1>2, <1>6, <1>12, <2>2 DEF WaitsAt
  <2> QED
    BY <1>2, <1>5, <1>7, <1>12, <2>1, <2>2, <2>3, <2>4 DEF WaitsAt, clientVars, history
<1>19. CardsFollowAt(c)'
  BY <1>2, <1>13, <1>16 DEF CardsFollowAt, clientVars
<1>20. task[c].step # "notify" /\ (Tells(task[c]) => Telling')
  BY <1>2, <1>5, <1>7 DEF Tells, Telling
<1> QED
  BY <1>9, <1>10, <1>11, <1>14, <1>15, <1>17, <1>18, <1>19, <1>20, LocalStep

-----------------------------------------------------------------------------
(* join-done.                                                               *)

LEMMA HandleDoneStep ==
    ASSUME Inv, NEW c \in Conns, HandleDone(c)
    PROVE  Inv'
<1> USE DEF Inv
<1>0. PICK p : p = Head(todo[c]).id
  OBVIOUS
<1>1. /\ Begins(c, "join-done")
      /\ UNCHANGED <<pubOf, storeVars, online, queue, clientVars, history>>
  BY DEF HandleDone
<1>2. /\ c \in online /\ task[c] = Idle /\ todo' \in [Conns -> Seq(CommandType)]
      /\ \A x \in Conns \ {c} : todo'[x] = todo[x]
      /\ Head(todo[c]) \in CommandType /\ Head(todo[c]).type = "join-done"
  BY <1>1, Begun
<1>3. /\ HonestCommand(c, Head(todo[c])) /\ Head(todo[c]) \in Range(todo[c])
      /\ \A k \in Range(todo'[c]) : HonestCommand(c, k)
      /\ ~Asks(todo'[c]) /\ AskOnce(todo'[c])
      /\ Decides(todo'[c]) => Decides(todo[c])
      /\ Decisions(todo[c]) = Decisions(todo'[c])
  BY <1>1, Begun, Taken
<1>4. /\ p \in Pubs /\ p = pubOf[c] /\ c \in Applicants /\ hasKey[c]
      /\ ~Asks(todo[c])
  BY <1>0, <1>2, <1>3, CommandTypes DEF HonestCommand, Sound, AsksFirstAt
<1>5. reqID[c] \in {p, None}
  BY <1>4 DEF Sound, HonestAt
<1>6. PICK t : t = [step |-> "done", id |-> p]
  OBVIOUS
<1>7. t \in TaskType /\ t.step = "done" /\ t.id = p
  BY <1>4, <1>6 DEF TaskType
<1>8. /\ reqID' \in [Conns -> Pubs \cup {None}] /\ reqID'[c] = None
      /\ \A x \in Conns \ {c} : reqID'[x] = reqID[x]
      /\ task' \in [Conns -> TaskType] /\ task'[c] \in {t, Idle}
      /\ \A x \in Conns \ {c} : task'[x] = task[x]
  <2>1. CASE reqID[c] = p
    <3>1. reqID' = [reqID EXCEPT ![c] = None] /\ GoTo(c, t)
      BY <1>0, <1>6, <2>1 DEF HandleDone
    <3> QED
      BY <1>7, <3>1, Went DEF TypeOK
  <2>2. CASE reqID[c] # p
    <3>1. reqID' = reqID /\ task' = task /\ reqID[c] = None
      BY <1>0, <1>5, <2>2 DEF HandleDone
    <3> QED
      BY <1>2, <3>1 DEF TypeOK
  <2> QED
    BY <2>1, <2>2
<1>9. StoreInv' /\ \A o \in Pubs : Decision(o)' = Decision(o)
  BY <1>1, UnchangedStore
<1>10. PendingNow' = PendingNow
  BY <1>9 DEF PendingNow
<1>11. Steady
  BY <1>1, <1>9, SteadyStep DEF clientVars, Approved
<1>12. TypeOK'
  BY <1>1, <1>2, <1>8, <1>9
  DEF TypeOK, clientVars, history, StoreInv, Store!TypeOK, Store!Rooms
<1>13. \A x \in Conns \ {c} :
         /\ Still(x) /\ banner'[x] = banner[x]
         /\ window'[x] = window[x] /\ behind'[x] = behind[x]
  BY <1>1, <1>2, <1>8, <1>10 DEF Still, Kept, clientVars, history
<1>14. task'[c].step \in {"done", "idle"}
  BY <1>7, <1>8 DEF Idle
<1>15. Sound(c)'
  <2>1. HonestAt(c)'
    <3>1. \A k \in Range(todo'[c]) : HonestCommand(c, k)'
      BY <1>1, <1>3 DEF HonestCommand, clientVars
    <3>2. \A k \in Range(queue[c]) : HonestAnswer(c, k)'
      BY <1>11, MessagesStayHonest DEF Sound
    <3>3. HonestTask(c, t)' /\ HonestTask(c, Idle)'
      BY <1>1, <1>4, <1>7 DEF HonestTask, Idle, clientVars
    <3> QED
      BY <1>1, <1>8, <3>1, <3>2, <3>3 DEF Sound, HonestAt, clientVars
  <2>2. ~Joining(c)'
    BY <1>3, <1>8, <1>14 DEF Joining
  <2> QED
    BY <1>1, <1>2, <1>3, <2>1, <2>2
    DEF Sound, OfflineAt, AsksFirstAt, SeesAsMemberAt, ClicksArriveAt, clientVars, history
<1>16. WaitsAt(c)'
  BY <1>1, <1>4 DEF WaitsAt, clientVars
<1>17. Telling => Telling'
  BY <1>2, <1>8 DEF Telling, Tells, Idle
<1>18. CardsFollowAt(c)'
  BY <1>1, <1>10, <1>17 DEF CardsFollowAt, Telling, clientVars, history
<1>19. task[c].step # "notify" /\ ~Tells(task[c])
  BY <1>2 DEF Idle, Tells
<1> QED
  BY <1>9, <1>10, <1>11, <1>12, <1>13, <1>15, <1>16, <1>18, <1>19, LocalStep

LEMMA ForgetRequestStep ==
    ASSUME Inv, NEW c \in Conns, ForgetRequest(c)
    PROVE  Inv'
<1> USE DEF Inv
<1>0. PICK p : p = task[c].id
  OBVIOUS
<1>1. /\ task[c].step = "done" /\ GoTo(c, Idle)
      /\ UNCHANGED <<pubOf, online, reqID, queue, todo, clientVars, history>>
  BY DEF ForgetRequest, At
<1>2. task[c] \in TaskType
  BY DEF TypeOK
<1>3. /\ p \in Pubs /\ c \in Applicants /\ p = pubOf[c] /\ hasKey[c] /\ c \in online
      /\ task[c] # Idle
  BY <1>0, <1>1, <1>2, TaskTypes DEF Sound, HonestAt, HonestTask, OfflineAt
<1>4. /\ StoreInv'
      /\ \A o \in Pubs : \/ Decision(o)' = Decision(o)
                         \/ o = p /\ Decision(o) = "approved" /\ Decision(o)' = "none"
  <2>1. CASE Store!DoneOK(Room, p)
    <3>1. Store!Done(Room, p)
      BY <1>0, <2>1 DEF ForgetRequest
    <3> QED
      BY <1>3, <3>1, DoneStore
  <2>2. CASE ~Store!DoneOK(Room, p)
    <3>1. UNCHANGED storeVars
      BY <1>0, <2>2 DEF ForgetRequest
    <3> QED
      BY <3>1, UnchangedStore
  <2> QED
    BY <2>1, <2>2
<1>5. PendingNow' = PendingNow
  BY <1>4 DEF PendingNow
<1>6. Steady
  <2>1. \A o \in Pubs : Decision(o) = "approved" => Approved(o)'
    BY <1>1, <1>3, <1>4 DEF Approved, clientVars
  <2> QED
    BY <1>1, <2>1, SteadyStep DEF clientVars
<1>7. /\ task' \in [Conns -> TaskType] /\ task'[c] = Idle
      /\ \A x \in Conns \ {c} : task'[x] = task[x]
  BY <1>1, Went DEF TaskType
<1>8. TypeOK'
  BY <1>1, <1>4, <1>7
  DEF TypeOK, clientVars, history, StoreInv, Store!TypeOK, Store!Rooms
<1>9. \A x \in Conns \ {c} :
         /\ Still(x) /\ banner'[x] = banner[x]
         /\ window'[x] = window[x] /\ behind'[x] = behind[x]
  BY <1>1, <1>5, <1>7 DEF Still, Kept, clientVars, history
<1>10. Sound(c)'
  <2>1. HonestAt(c)'
    <3>1. /\ \A k \in Range(todo[c]) : HonestCommand(c, k)'
          /\ \A k \in Range(queue[c]) : HonestAnswer(c, k)'
      BY <1>6, MessagesStayHonest DEF Sound
    <3>2. HonestTask(c, Idle)'
      BY DEF HonestTask, Idle
    <3> QED
      BY <1>1, <1>7, <3>1, <3>2 DEF Sound, HonestAt, clientVars
  <2>2. Joining(c)' => Joining(c)
    BY <1>1, <1>7 DEF Joining, Idle
  <2>3. ~Asks(todo[c])
    BY <1>3 DEF Sound, AsksFirstAt
  <2>4. SeesAsMemberAt(c)'
    BY <1>1, <1>7, <2>2 DEF Sound, SeesAsMemberAt, Idle, clientVars
  <2> QED
    BY <1>1, <1>3, <2>1, <2>3, <2>4
    DEF Sound, OfflineAt, AsksFirstAt, ClicksArriveAt, clientVars, history
<1>11. WaitsAt(c)'
  BY <1>1, <1>3 DEF WaitsAt, clientVars
<1>12. Telling => Telling'
  BY <1>1, <1>7 DEF Telling, Tells
<1>13. CardsFollowAt(c)'
  BY <1>1, <1>5, <1>12 DEF CardsFollowAt, Telling, clientVars, history
<1>14. task[c].step # "notify" /\ ~Tells(task[c])
  BY <1>1 DEF Tells
<1>15. \A o \in Pubs : Decision(o) = "pending" => Decision(o)' = "pending"
  BY <1>4
<1> QED
  BY <1>4, <1>5, <1>6, <1>8, <1>9, <1>10, <1>11, <1>13, <1>14, <1>15, LocalStep

-----------------------------------------------------------------------------
(* Telling the room.                                                        *)

LEMMA ReadListStep ==
    ASSUME Inv, NEW c \in Conns, ReadList(c)
    PROVE  Inv'
<1> USE DEF Inv
<1>0. PICK t : t = [step |-> "broadcast", list |-> PendingNow, late |-> FALSE]
  OBVIOUS
<1>1. /\ task[c].step = "list" /\ GoTo(c, t)
      /\ UNCHANGED <<pubOf, storeVars, online, reqID, queue, todo, clientVars, history>>
  BY <1>0, StorePending DEF ReadList, At
<1>2. t \in TaskType /\ t.step = "broadcast" /\ t.list = PendingNow
  BY <1>0 DEF TaskType, PendingNow
<1>3. StoreInv' /\ \A o \in Pubs : Decision(o)' = Decision(o)
  BY <1>1, UnchangedStore
<1>4. PendingNow' = PendingNow
  BY <1>3 DEF PendingNow
<1>5. Steady
  BY <1>1, <1>3, SteadyStep DEF clientVars, Approved
<1>6. /\ task' \in [Conns -> TaskType] /\ task'[c] = t
      /\ \A x \in Conns \ {c} : task'[x] = task[x]
  BY <1>1, <1>2, Went
<1>7. TypeOK'
  BY <1>1, <1>3, <1>6
  DEF TypeOK, clientVars, history, StoreInv, Store!TypeOK, Store!Rooms
<1>8. \A x \in Conns \ {c} :
         /\ Still(x) /\ banner'[x] = banner[x]
         /\ window'[x] = window[x] /\ behind'[x] = behind[x]
  BY <1>1, <1>4, <1>6 DEF Still, Kept, clientVars, history
<1>9. c \in online /\ task[c] # Idle
  BY <1>1 DEF Sound, OfflineAt, Idle
<1>10. Sound(c)'
  <2>1. HonestAt(c)'
    <3>1. /\ \A k \in Range(todo[c]) : HonestCommand(c, k)'
          /\ \A k \in Range(queue[c]) : HonestAnswer(c, k)'
      BY <1>5, MessagesStayHonest DEF Sound
    <3>2. HonestTask(c, t)'
      BY <1>2, <1>4 DEF HonestTask
    <3> QED
      BY <1>1, <1>6, <3>1, <3>2 DEF Sound, HonestAt, clientVars
  <2>2. Joining(c)' <=> Joining(c)
    BY <1>1, <1>2, <1>6 DEF Joining
  <2>3. ~Asks(todo[c])
    BY <1>9 DEF Sound, AsksFirstAt
  <2>4. SeesAsMemberAt(c)'
    BY <1>1, <1>2, <1>6, <2>2 DEF Sound, SeesAsMemberAt, clientVars
  <2> QED
    BY <1>1, <1>9, <2>1, <2>3, <2>4
    DEF Sound, OfflineAt, AsksFirstAt, ClicksArriveAt, clientVars, history
<1>11. task[c].step # "notify" /\ Telling'
  BY <1>1, <1>2, <1>6 DEF Tells, Telling
<1>12. ASSUME c \in Applicants PROVE WaitsAt(c)'
  <2>1. PICK p \in Pubs : p = pubOf[c] /\ p = pubOf'[c]
    BY <1>1, <1>12 DEF TypeOK
  <2>2. Decision(p)' = Decision(p) /\ (Notifying(p) => Notifying(p)')
    BY <1>1, <1>3, <1>6 DEF Notifying
  <2>3. (PendingLast(queue[c], banner[c]) /\ ~Asks(todo[c]) /\ ~hasKey[c] /\ ~window[c]) =>
           reqID[c] = p /\ (Decision(p) = "pending" \/ Notifying(p))
    BY <1>1, <1>9, <1>12, <2>1 DEF WaitsAt
  <2> QED
    BY <1>1, <1>2, <1>6, <2>1, <2>2, <2>3 DEF WaitsAt, clientVars, history
<1>13. CardsFollowAt(c)'
  BY <1>11 DEF CardsFollowAt, Telling
<1> QED
  BY <1>3, <1>4, <1>5, <1>7, <1>8, <1>10, <1>11, <1>12, <1>13, LocalStep

LEMMA BroadcastStep ==
    ASSUME Inv, NEW c \in Conns, Broadcast(c)
    PROVE  Inv'
<1> USE DEF Inv
<1>0. PICK m : m = [type |-> "join-requests", list |-> task[c].list]
  OBVIOUS
<1>1. /\ task[c].step = "broadcast" /\ SendTo(online, m) /\ GoTo(c, Idle)
      /\ behind' = [x \in Conns |-> IF x \in online THEN Lateness(task[c]) ELSE behind[x]]
      /\ UNCHANGED <<pubOf, storeVars, online, reqID, todo, clientVars, window, spent, drops>>
  BY <1>0 DEF Broadcast, At
<1>2. task[c] \in TaskType /\ task[c].list \in SUBSET Pubs /\ task[c].late \in BOOLEAN
  <2>1. task[c] \in TaskType
    BY DEF TypeOK
  <2> QED
    BY <1>1, <2>1, TaskTypes
<1>3. /\ m \in AnswerType /\ m.type = "join-requests" /\ m.list = task[c].list
      /\ ~IsStatus(m) /\ IsList(m)
  BY <1>0, <1>2 DEF AnswerType, IsStatus, IsList
<1>4. /\ task' \in [Conns -> TaskType] /\ task'[c] = Idle
      /\ \A x \in Conns \ {c} : task'[x] = task[x]
  BY <1>1, Went DEF TaskType
<1>5. /\ queue' \in [Conns -> Seq(AnswerType)]
      /\ \A x \in Conns : x \in online =>
           queue'[x] = Append(queue[x], m) /\ Range(queue'[x]) = Range(queue[x]) \cup {m}
      /\ \A x \in Conns : x \notin online => queue'[x] = queue[x]
  BY <1>1, <1>3, Sent
<1>6. StoreInv' /\ \A o \in Pubs : Decision(o)' = Decision(o)
  BY <1>1, UnchangedStore
<1>7. PendingNow' = PendingNow
  BY <1>6 DEF PendingNow
<1>8. Steady
  BY <1>1, <1>6, SteadyStep DEF clientVars, Approved
<1>9. TypeOK'
  <2>1. behind' \in [Conns -> {"none", "result", "broadcast"}]
    BY <1>1, <1>2 DEF TypeOK, Lateness
  <2> QED
    BY <1>1, <1>4, <1>5, <1>6, <2>1
    DEF TypeOK, clientVars, StoreInv, Store!TypeOK, Store!Rooms
<1>10. ASSUME NEW x \in Conns
       PROVE  /\ ClaimResultIn(queue'[x]) <=> ClaimResultIn(queue[x])
              /\ PendingLast(queue'[x], banner[x]) <=> PendingLast(queue[x], banner[x])
              /\ \A k \in Range(queue'[x]) : k \in Range(queue[x]) \/ k = m
  <2>1. queue[x] \in Seq(AnswerType)
    BY DEF TypeOK
  <2>2. CASE x \in online
    <3>1. queue'[x] = Append(queue[x], m) /\ Range(queue'[x]) = Range(queue[x]) \cup {m}
      BY <1>5, <2>2
    <3>2. /\ ClaimResultIn(Append(queue[x], m)) <=> ClaimResultIn(queue[x])
          /\ \A b : PendingLast(Append(queue[x], m), b) <=> PendingLast(queue[x], b)
      BY <1>3, <2>1, AddedLast
    <3> QED
      BY <3>1, <3>2
  <2>3. CASE x \notin online
    BY <1>5, <2>3
  <2> QED
    BY <2>2, <2>3
<1>11. ASSUME NEW x \in Conns PROVE Sound(x)'
  <2>1. HonestAt(x)'
    <3>1. /\ \A k \in Range(todo[x]) : HonestCommand(x, k)'
          /\ \A k \in Range(queue[x]) : HonestAnswer(x, k)'
      BY <1>8, MessagesStayHonest DEF Sound
    <3>2. HonestAnswer(x, m)'
      BY <1>3 DEF HonestAnswer
    <3>3. HonestTask(x, task[x])'
      <4>1. CASE x = c
        BY <1>4, <4>1 DEF HonestTask, Idle
      <4>2. CASE x # c
        <5>1. Kept(x) /\ reqID'[x] = reqID[x] /\ task[x] \in TaskType
          BY <1>1, <1>4, <1>7, <4>2 DEF Kept, TypeOK
        <5> QED
          BY <1>8, <5>1, TaskStaysHonest DEF Sound
      <4> QED
        BY <4>1, <4>2
    <3> QED
      BY <1>1, <1>10, <3>1, <3>2, <3>3 DEF Sound, HonestAt, clientVars
  <2>2. OfflineAt(x)'
    BY <1>1, <1>4, <1>5 DEF Sound, OfflineAt, clientVars
  <2>3. task[x] = Idle => task'[x] = Idle
    BY <1>4
  <2>4. AsksFirstAt(x)'
    BY <1>1, <1>3, <1>10, <2>3 DEF Sound, AsksFirstAt, clientVars
  <2>5. (task'[x].step = task[x].step \/ task'[x].step = "idle") /\ (Joining(x)' => Joining(x))
    BY <1>1, <1>4 DEF Joining, Idle
  <2>6. SeesAsMemberAt(x)'
    BY <1>1, <1>10, <2>5 DEF Sound, SeesAsMemberAt, clientVars
  <2>7. ClicksArriveAt(x)'
    BY <1>1 DEF Sound, ClicksArriveAt, clientVars
  <2> QED
    BY <2>1, <2>2, <2>4, <2>6, <2>7 DEF Sound
<1>12. ASSUME NEW x \in Applicants PROVE WaitsAt(x)'
  <2>1. PICK p \in Pubs : p = pubOf[x] /\ p = pubOf'[x]
    BY <1>1 DEF TypeOK
  <2>2. Decision(p)' = Decision(p) /\ (Notifying(p) => Notifying(p)')
    BY <1>1, <1>4, <1>6 DEF Notifying
  <2>3. x \in Conns /\ (task'[x] = task[x] \/ (task'[x].step = "idle" /\ task[x].step = "broadcast"))
    BY <1>1, <1>4 DEF Idle, Conns
  <2>4. PendingLast(queue'[x], banner'[x]) <=> PendingLast(queue[x], banner[x])
    BY <1>1, <1>10, <2>3 DEF clientVars
  <2>5. CASE task'[x].step \in {"register", "reply"}
    BY <1>1, <2>1, <2>2, <2>3, <2>5 DEF WaitsAt, clientVars
  <2>6. CASE task'[x].step \notin {"register", "reply"}
    <3>1. (x \in online /\ ~hasKey[x] /\ ~window[x] /\ PendingLast(queue[x], banner[x])
             /\ ~Asks(todo[x])) => reqID[x] = p /\ (Decision(p) = "pending" \/ Notifying(p))
      BY <2>1, <2>3, <2>6 DEF WaitsAt
    <3> QED
      BY <1>1, <2>1, <2>2, <2>4, <2>6, <3>1 DEF WaitsAt, clientVars
  <2> QED
    BY <2>5, <2>6
<1>13. ASSUME NEW x \in Conns PROVE CardsFollowAt(x)'
  <2>1. CASE x \in online
    <3>1. LastLists(queue'[x], shown'[x]) = {task[c].list}
      <4>1. queue[x] \in Seq(AnswerType)
        BY DEF TypeOK
      <4> QED
        BY <1>3, <1>5, <2>1, <4>1, AddedLast
    <3>2. behind'[x] = "none" => ~task[c].late
      BY <1>1, <1>2, <2>1 DEF Lateness
    <3>3. ~task[c].late => task[c].list = PendingNow
      BY <1>1 DEF Sound, HonestAt, HonestTask
    <3> QED
      BY <1>7, <3>1, <3>2, <3>3 DEF CardsFollowAt
  <2>2. CASE x \notin online
    BY <1>1, <2>2 DEF CardsFollowAt
  <2> QED
    BY <2>1, <2>2
<1> QED
  BY <1>6, <1>9, <1>11, <1>12, <1>13

(* The applicant is told, and the room will be.                             *)
LEMMA NotifyApplicantStep ==
    ASSUME Inv, NEW c \in Conns, NotifyApplicant(c)
    PROVE  Inv'
<1> USE DEF Inv
<1>0. PICK p, status : p = task[c].id /\ status = task[c].status
  OBVIOUS
<1>1. PICK m : m = [type |-> "join-status", id |-> p, status |-> status]
  OBVIOUS
<1>2. /\ task[c].step = "notify" /\ SendTo(Addressees(p), m) /\ GoTo(c, [step |-> "list"])
      /\ UNCHANGED <<pubOf, storeVars, online, reqID, todo, clientVars, history>>
  BY <1>0, <1>1 DEF NotifyApplicant, At, AfterDecision
<1>3. task[c] \in TaskType
  BY DEF TypeOK
<1>4. /\ p \in Pubs /\ p # None /\ status \in Store!Status /\ status # "pending"
      /\ status = "approved" => Approved(p)
  <2>1. p \in Pubs /\ status \in Store!Status
    BY <1>0, <1>2, <1>3, TaskTypes
  <2>2. HonestTask(c, task[c])
    BY DEF Sound, HonestAt
  <2>3. status # "pending" /\ (status = "approved" => Approved(p))
    BY <1>0, <1>2, <2>2 DEF HonestTask
  <2> QED
    BY <2>1, <2>3, ConnsAssumption
<1>5. /\ m \in AnswerType /\ m.type = "join-status" /\ m.id = p /\ m.status = status
      /\ ~IsList(m)
  BY <1>1, <1>4 DEF AnswerType, IsList
<1>6. /\ task' \in [Conns -> TaskType] /\ task'[c].step = "list"
      /\ \A x \in Conns \ {c} : task'[x] = task[x]
  BY <1>2, Went DEF TaskType
<1>7. /\ queue' \in [Conns -> Seq(AnswerType)]
      /\ \A x \in Conns : x \in Addressees(p) =>
           queue'[x] = Append(queue[x], m) /\ Range(queue'[x]) = Range(queue[x]) \cup {m}
      /\ \A x \in Conns : x \notin Addressees(p) => queue'[x] = queue[x]
  BY <1>2, <1>5, Sent
<1>8. StoreInv' /\ \A o \in Pubs : Decision(o)' = Decision(o)
  BY <1>2, UnchangedStore
<1>9. PendingNow' = PendingNow
  BY <1>8 DEF PendingNow
<1>10. Steady
  BY <1>2, <1>8, SteadyStep DEF clientVars, Approved
<1>11. TypeOK'
  BY <1>2, <1>6, <1>7, <1>8
  DEF TypeOK, clientVars, history, StoreInv, Store!TypeOK, Store!Rooms
<1>12. ASSUME NEW x \in Conns
       PROVE  /\ ClaimResultIn(queue'[x]) <=> ClaimResultIn(queue[x])
              /\ x \in Addressees(p) => ~PendingLast(queue'[x], banner[x])
              /\ \A k \in Range(queue'[x]) :
                   k \in Range(queue[x]) \/ (k = m /\ x \in Addressees(p))
  <2>1. queue[x] \in Seq(AnswerType)
    BY DEF TypeOK
  <2>2. CASE x \in Addressees(p)
    <3>1. queue'[x] = Append(queue[x], m) /\ Range(queue'[x]) = Range(queue[x]) \cup {m}
      BY <1>7, <2>2
    <3>2. /\ ClaimResultIn(Append(queue[x], m)) <=> ClaimResultIn(queue[x])
          /\ \A b : ~PendingLast(Append(queue[x], m), b)
      BY <1>4, <1>5, <2>1, AddedLast
    <3> QED
      BY <2>2, <3>1, <3>2
  <2>3. CASE x \notin Addressees(p)
    BY <1>7, <2>3
  <2> QED
    BY <2>2, <2>3
<1>13. ASSUME NEW x \in Conns PROVE Sound(x)'
  <2>1. x \in Addressees(p) => /\ x \in online /\ reqID[x] = p /\ x \in Applicants
                              /\ pubOf[x] = p /\ ~Asks(todo[x])
    BY <1>4 DEF Addressees, Sound, HonestAt, AsksFirstAt
  <2>2. HonestAt(x)'
    <3>1. /\ \A k \in Range(todo[x]) : HonestCommand(x, k)'
          /\ \A k \in Range(queue[x]) : HonestAnswer(x, k)'
      BY <1>10, MessagesStayHonest DEF Sound
    <3>2. x \in Addressees(p) => HonestAnswer(x, m)'
      <4>1. Approved(p) => Approved(p)'
        BY <1>4, <1>10 DEF Steady
      <4>2. Approved(m.id)' = Approved(p)'
        BY <1>5
      <4> QED
        BY <1>2, <1>4, <1>5, <2>1, <4>1, <4>2 DEF HonestAnswer
    <3>3. HonestTask(x, task[x])'
      <4>1. CASE x = c
        BY <1>6, <4>1 DEF HonestTask
      <4>2. CASE x # c
        <5>1. Kept(x) /\ reqID'[x] = reqID[x] /\ task[x] \in TaskType
          BY <1>2, <1>6, <1>9, <4>2 DEF Kept, TypeOK
        <5> QED
          BY <1>10, <5>1, TaskStaysHonest DEF Sound
      <4> QED
        BY <4>1, <4>2
    <3> QED
      BY <1>2, <1>12, <3>1, <3>2, <3>3 DEF Sound, HonestAt, clientVars
  <2>3. OfflineAt(x)'
    BY SMTT(30), <1>2, <1>6, <1>7, <2>1 DEF Sound, OfflineAt, Idle, clientVars
  <2>4. task[x] = Idle => task'[x] = task[x]
    BY <1>2, <1>6 DEF Idle
  <2>5. AsksFirstAt(x)'
    BY <1>2, <1>12, <2>1, <2>4 DEF Sound, AsksFirstAt, clientVars
  <2>6. /\ task'[x].step = task[x].step \/ task'[x].step = "list"
        /\ Joining(x)' => Joining(x)
    BY <1>2, <1>6 DEF Joining
  <2>7. SeesAsMemberAt(x)'
    BY <1>2, <1>12, <2>6 DEF Sound, SeesAsMemberAt, clientVars
  <2>8. ClicksArriveAt(x)'
    BY <1>2 DEF Sound, ClicksArriveAt, clientVars, history
  <2> QED
    BY <2>2, <2>3, <2>5, <2>7, <2>8 DEF Sound
<1>14. ASSUME NEW x \in Applicants PROVE WaitsAt(x)'
  <2>1. PICK o \in Pubs : o = pubOf[x] /\ o = pubOf'[x]
    BY <1>2 DEF TypeOK
  <2>2. Decision(o)' = Decision(o) /\ (o # p /\ Notifying(o) => Notifying(o)')
    BY <1>0, <1>2, <1>6, <1>8 DEF Notifying
  <2>3. x \in Conns /\ (task'[x] = task[x] \/ (task'[x].step = "list" /\ task[x].step = "notify"))
    BY <1>2, <1>6 DEF Conns
  <2>4. CASE task'[x].step \in {"register", "reply"}
    BY <1>2, <2>1, <2>2, <2>3, <2>4 DEF WaitsAt, clientVars, history
  <2>5. CASE task'[x].step \notin {"register", "reply"} /\ x \in Addressees(p)
    BY <1>2, <1>12, <2>3, <2>5 DEF WaitsAt, clientVars
  <2>6. CASE task'[x].step \notin {"register", "reply"} /\ x \notin Addressees(p)
    <3>1. (x \in online /\ ~hasKey[x] /\ ~window[x] /\ PendingLast(queue[x], banner[x])
             /\ ~Asks(todo[x])) => reqID[x] = o /\ (Decision(o) = "pending" \/ Notifying(o))
      BY <2>1, <2>3, <2>6 DEF WaitsAt
    <3>2. x \in online /\ reqID[x] = o => o # p
      BY <2>6 DEF Addressees
    <3>3. queue'[x] = queue[x]
      BY <1>7, <2>3, <2>6
    <3> QED
      BY <1>2, <2>1, <2>2, <2>6, <3>1, <3>2, <3>3 DEF WaitsAt, clientVars, history
  <2> QED
    BY <2>4, <2>5, <2>6
<1>15. \A x \in Conns : CardsFollowAt(x)'
  BY <1>6 DEF CardsFollowAt, Tells
<1> QED
  BY <1>8, <1>11, <1>13, <1>14, <1>15

-----------------------------------------------------------------------------
(* A member's decision.                                                     *)

LEMMA DecideActs ==
    ASSUME StoreInv, NEW c \in Conns, NEW p \in Pubs, Decide(c, p)
    PROVE  /\ reqID[c] = None /\ p = Head(todo[c]).id
           /\ \E type \in {"join-approve", "join-reject"} : Begins(c, type)
           /\ \E status \in {"approved", "rejected"} :
                /\ StoreInv' /\ Decision(p) = "pending" /\ Decision(p)' = status
                /\ \A o \in Pubs \ {p} : Decision(o)' = Decision(o)
                /\ GoToAndOvertake(c, [step |-> "notify", id |-> p, status |-> status])
           /\ window' = [x \in Conns |-> window[x] \/ InWindow(task[x], p)]
           /\ spent' = [x \in Conns |-> spent[x] \cup (clicked[x] \cap {p})]
           /\ UNCHANGED <<pubOf, online, reqID, queue, clientVars, behind, drops>>
<1>1. PICK status : DecidesAs(p, status)
  BY DEF Decide, DecidesAs
<1>2. /\ StoreInv' /\ Decision(p) = "pending" /\ Decision(p)' = status
      /\ status \in {"approved", "rejected"}
      /\ \A o \in Pubs \ {p} : Decision(o)' = Decision(o)
      /\ StatusOf(p)' = status
  BY <1>1, DecideStore
<1>3. GoToAndOvertake(c, [step |-> "notify", id |-> p, status |-> status])
  BY <1>2 DEF Decide
<1>4. \E type \in {"join-approve", "join-reject"} : Begins(c, type)
  BY DEF Decide
<1> QED
  BY <1>2, <1>3, <1>4 DEF Decide

LEMMA DecideStep ==
    ASSUME Inv, NEW c \in Conns, NEW p \in Pubs, Decide(c, p)
    PROVE  Inv'
<1> USE DEF Inv
<1>1. /\ reqID[c] = None /\ p = Head(todo[c]).id
      /\ window' = [x \in Conns |-> window[x] \/ InWindow(task[x], p)]
      /\ spent' = [x \in Conns |-> spent[x] \cup (clicked[x] \cap {p})]
      /\ UNCHANGED <<pubOf, online, reqID, queue, clientVars, behind, drops>>
  BY DecideActs
<1>2. PICK type \in {"join-approve", "join-reject"} : Begins(c, type)
  BY DecideActs
<1>3. PICK status \in {"approved", "rejected"} :
        /\ StoreInv' /\ Decision(p) = "pending" /\ Decision(p)' = status
        /\ \A o \in Pubs \ {p} : Decision(o)' = Decision(o)
        /\ GoToAndOvertake(c, [step |-> "notify", id |-> p, status |-> status])
  BY DecideActs
<1>4. PICK t : t = [step |-> "notify", id |-> p, status |-> status]
  OBVIOUS
<1>5. t \in TaskType /\ t.step = "notify" /\ t.id = p /\ t.status = status
  BY <1>4 DEF TaskType, Store!Status
<1>6. task' \in [Conns -> TaskType] /\ task'[c] = t /\ \A x \in Conns \ {c} : Kept(x)
  BY <1>3, <1>4, <1>5, WentOvertaking
<1>7. /\ c \in online /\ task[c] = Idle /\ todo' \in [Conns -> Seq(CommandType)]
      /\ \A x \in Conns \ {c} : todo'[x] = todo[x]
  BY <1>2, Begun
<1>8. /\ \A k \in Range(todo'[c]) : HonestCommand(c, k)
      /\ ~Asks(todo'[c]) /\ AskOnce(todo'[c])
      /\ Decides(todo[c])
      /\ Decisions(todo[c]) = Decisions(todo'[c]) \cup {p}
  BY <1>1, <1>2, Taken
<1>9. ~Joining(c) /\ ~Joining(c)'
  <2>1. ~Joining(c)
    BY <1>8 DEF Sound, SeesAsMemberAt
  <2> QED
    BY <1>1, <1>5, <1>6, <1>8, <2>1 DEF Joining
<1>10. Steady
  <2>1. \A o \in Pubs : Decision(o) = "approved" => Decision(o)' = "approved"
    BY <1>3
  <2> QED
    BY <1>1, <2>1, SteadyStep DEF clientVars, Approved
<1>11. TypeOK'
  <2>1. \A x \in Conns : task[x] \in TaskType
    BY DEF TypeOK
  <2>2. window' \in [Conns -> BOOLEAN] /\ spent' \in [Conns -> SUBSET Pubs]
    BY <1>1 DEF TypeOK, InWindow
  <2> QED
    BY <1>1, <1>3, <1>6, <1>7, <2>2
    DEF TypeOK, clientVars, StoreInv, Store!TypeOK, Store!Rooms
<1>12. \A x \in Conns \ {c} : Sound(x)'
  <2>1. \A x \in Conns \ {c} : Still(x)
    BY <1>1, <1>6, <1>7 DEF Still, clientVars
  <2> QED
    BY <1>10, <2>1, StillSound
<1>13. Sound(c)'
  <2>1. HonestAt(c)'
    <3>1. \A k \in Range(todo'[c]) : HonestCommand(c, k)'
      BY <1>1, <1>8 DEF HonestCommand, clientVars
    <3>2. \A k \in Range(queue[c]) : HonestAnswer(c, k)'
      BY <1>10, MessagesStayHonest DEF Sound
    <3>3. HonestTask(c, t)'
      BY <1>3, <1>5 DEF HonestTask, Approved
    <3> QED
      BY <1>1, <1>6, <3>1, <3>2, <3>3 DEF Sound, HonestAt, clientVars
  <2>2. ClicksArriveAt(c)'
    <3>1. spent'[c] = spent[c] \cup (clicked[c] \cap {p}) /\ clicked'[c] = clicked[c]
      BY <1>1 DEF clientVars
    <3> QED
      BY <1>8, <3>1 DEF Sound, ClicksArriveAt
  <2> QED
    BY <1>1, <1>7, <1>8, <1>9, <2>1, <2>2
    DEF Sound, OfflineAt, AsksFirstAt, SeesAsMemberAt, clientVars
<1>14. ASSUME NEW x \in Applicants PROVE WaitsAt(x)'
  <2>1. PICK o \in Pubs : o = pubOf[x] /\ o = pubOf'[x]
    BY <1>1 DEF TypeOK
  <2>2. x \in Conns /\ o # None
    BY ConnsAssumption DEF Conns
  <2>3. SUFFICES ASSUME x \in online, ~hasKey[x], ~window[x], ~InWindow(task[x], p)
                 PROVE  IF task'[x].step \in {"register", "reply"}
                          THEN task'[x].status = "pending" => Decision(o)' = "pending"
                          ELSE (PendingLast(queue'[x], banner'[x]) /\ ~Asks(todo'[x])) =>
                                 reqID'[x] = o /\ (Decision(o)' = "pending" \/ Notifying(o)')
    BY <1>1, <2>1, <2>2 DEF WaitsAt, clientVars
  <2>4. \A y \in Conns \ {c} : /\ task'[y].step = task[y].step
                               /\ task[y].step \in {"register", "reply", "notify"} =>
                                    task'[y] = task[y]
    BY <1>6, KeptTask DEF TypeOK
  <2>5. CASE task'[x].step \in {"register", "reply"}
    <3>1. x # c /\ task'[x] = task[x]
      BY <1>5, <1>6, <2>2, <2>4, <2>5
    <3>2. task[x].id = o
      BY <2>1, <2>2, <2>5, <3>1 DEF Sound, HonestAt, HonestTask
    <3>3. o # p
      BY <2>3, <2>5, <3>1, <3>2 DEF InWindow
    <3>4. task[x].status = "pending" => Decision(o) = "pending"
      BY <2>1, <2>3, <2>5, <3>1 DEF WaitsAt
    <3> QED
      BY <1>3, <2>5, <3>1, <3>3, <3>4
  <2>6. CASE task'[x].step \notin {"register", "reply"}
    <3>1. task[x].step \notin {"register", "reply"}
      BY <1>7, <2>2, <2>4, <2>6 DEF Idle
    <3>2. Asks(todo'[x]) <=> Asks(todo[x])
      BY <1>7, <1>8, <1>9, <2>2 DEF Joining
    <3>3. (PendingLast(queue[x], banner[x]) /\ ~Asks(todo[x])) =>
             reqID[x] = o /\ (Decision(o) = "pending" \/ Notifying(o))
      BY <2>1, <2>3, <3>1 DEF WaitsAt
    <3>4. o = p => Notifying(o)'
      BY <1>5, <1>6 DEF Notifying
    <3>5. Notifying(o) => Notifying(o)'
      BY <1>7, <2>4 DEF Notifying, Idle
    <3>6. o # p => Decision(o)' = Decision(o)
      BY <1>3
    <3> QED
      BY <1>1, <2>6, <3>2, <3>3, <3>4, <3>5, <3>6 DEF clientVars
  <2> QED
    BY <2>5, <2>6
<1>15. \A x \in Conns : CardsFollowAt(x)'
  BY <1>5, <1>6 DEF CardsFollowAt, Tells
<1> QED
  BY <1>3, <1>11, <1>12, <1>13, <1>14, <1>15

LEMMA IgnoreDecisionStep ==
    ASSUME Inv, NEW c \in Conns, IgnoreDecision(c)
    PROVE  Inv'
<1> USE DEF Inv
<1>0. PICK p : p = Head(todo[c]).id
  OBVIOUS
<1>1. /\ reqID[c] # None \/ ~Store!DecideOK(Room, p)
      /\ spent' = IF Store!DecideOK(Room, p) THEN spent ELSE [spent EXCEPT ![c] = @ \cup {p}]
      /\ UNCHANGED <<pubOf, storeVars, online, reqID, task, queue, clientVars, window,
                     behind, drops>>
  BY <1>0 DEF IgnoreDecision
<1>2. PICK type \in {"join-approve", "join-reject"} : Begins(c, type)
  BY DEF IgnoreDecision
<1>3. /\ c \in online /\ task[c] = Idle /\ todo' \in [Conns -> Seq(CommandType)]
      /\ \A x \in Conns \ {c} : todo'[x] = todo[x]
      /\ Head(todo[c]) \in CommandType /\ Head(todo[c]).type = type
  BY <1>2, Begun
<1>4. /\ \A k \in Range(todo'[c]) : HonestCommand(c, k)
      /\ ~Asks(todo'[c]) /\ AskOnce(todo'[c])
      /\ Decides(todo[c])
      /\ Decisions(todo[c]) = Decisions(todo'[c]) \cup {p}
  BY <1>0, <1>2, Taken
<1>5. ~Joining(c) /\ reqID[c] = None /\ ~Asks(todo[c])
  <2>1. ~Joining(c)
    BY <1>4 DEF Sound, SeesAsMemberAt
  <2> QED
    BY <2>1 DEF Joining
<1>6. p \in Pubs
  BY <1>0, <1>3, CommandTypes
<1>7. spent' = [spent EXCEPT ![c] = @ \cup {p}]
  BY <1>1, <1>5
<1>8. /\ spent' \in [Conns -> SUBSET Pubs] /\ spent'[c] = spent[c] \cup {p}
      /\ \A x \in Conns \ {c} : spent'[x] = spent[x]
  BY <1>6, <1>7 DEF TypeOK
<1>9. StoreInv' /\ \A o \in Pubs : Decision(o)' = Decision(o)
  BY <1>1, UnchangedStore
<1>10. PendingNow' = PendingNow
  BY <1>9 DEF PendingNow
<1>11. Steady
  BY <1>1, <1>9, SteadyStep DEF clientVars, Approved
<1>12. TypeOK'
  BY <1>1, <1>3, <1>8, <1>9
  DEF TypeOK, clientVars, StoreInv, Store!TypeOK, Store!Rooms
<1>13. \A x \in Conns \ {c} :
         /\ Still(x) /\ banner'[x] = banner[x]
         /\ window'[x] = window[x] /\ behind'[x] = behind[x]
  BY <1>1, <1>3, <1>8, <1>10 DEF Still, Kept, clientVars
<1>14. Sound(c)'
  <2>1. HonestAt(c)'
    <3>1. \A k \in Range(todo'[c]) : HonestCommand(c, k)'
      BY <1>1, <1>4 DEF HonestCommand, clientVars
    <3>2. \A k \in Range(queue[c]) : HonestAnswer(c, k)'
      BY <1>11, MessagesStayHonest DEF Sound
    <3>3. HonestTask(c, Idle)'
      BY DEF HonestTask, Idle
    <3> QED
      BY <1>1, <1>3, <3>1, <3>2, <3>3 DEF Sound, HonestAt, clientVars
  <2>2. ~Joining(c)'
    BY <1>1, <1>4, <1>5 DEF Joining
  <2>3. ClicksArriveAt(c)'
    BY <1>1, <1>4, <1>8 DEF Sound, ClicksArriveAt, clientVars
  <2> QED
    BY <1>1, <1>3, <1>4, <2>1, <2>2, <2>3
    DEF Sound, OfflineAt, AsksFirstAt, SeesAsMemberAt, clientVars
<1>15. ASSUME c \in Applicants PROVE WaitsAt(c)'
  <2>1. pubOf[c] \in Pubs /\ pubOf[c] # None
    BY <1>15, ConnsAssumption DEF TypeOK
  <2>2. (c \in online /\ ~hasKey[c] /\ ~window[c]) => ~PendingLast(queue[c], banner[c])
    BY <1>3, <1>5, <1>15, <2>1 DEF WaitsAt, Idle
  <2> QED
    BY <1>1, <1>3, <2>2 DEF WaitsAt, Idle, clientVars
<1>16. CardsFollowAt(c)'
  BY <1>1, <1>10 DEF CardsFollowAt, clientVars
<1>17. task[c].step # "notify" /\ ~Tells(task[c])
  BY <1>3 DEF Idle, Tells
<1> QED
  BY <1>9, <1>10, <1>11, <1>12, <1>13, <1>14, <1>15, <1>16, <1>17, LocalStep

-----------------------------------------------------------------------------
(* The browser.                                                             *)

LEMMA ReceiveClaimResultStep ==
    ASSUME Inv, NEW c \in Conns, ReceiveClaimResult(c)
    PROVE  Inv'
<1> USE DEF Inv
<1>0. PICK m : m = Head(queue[c])
  OBVIOUS
<1>1. /\ Receives(c, "claim-result")
      /\ claimed' = [claimed EXCEPT ![c] = TRUE]
      /\ shown' = [shown EXCEPT ![c] = m.list]
      /\ clicked' = [clicked EXCEPT ![c] = @ \cap m.list]
      /\ spent' = [spent EXCEPT ![c] = @ \cap m.list]
      /\ UNCHANGED <<pubOf, storeVars, online, reqID, task, todo, hasKey, banner,
                     window, behind, drops>>
  BY <1>0 DEF ReceiveClaimResult, Render
<1>2. /\ c \in online /\ queue[c] # <<>> /\ queue[c] \in Seq(AnswerType)
      /\ m \in AnswerType /\ m \in Range(queue[c])
      /\ Range(Tail(queue[c])) \subseteq Range(queue[c])
      /\ m.type = "claim-result"
      /\ queue' \in [Conns -> Seq(AnswerType)] /\ queue'[c] = Tail(queue[c])
      /\ \A x \in Conns \ {c} : queue'[x] = queue[x]
  BY <1>0, <1>1, Received
<1>3. m.list \in SUBSET Pubs /\ IsList(m)
  BY <1>2, AnswerTypes
<1>4. ClaimResultIn(queue[c]) /\ ~Joining(c) /\ hasKey[c]
  BY <1>2 DEF Sound, HonestAt, HonestAnswer, SeesAsMemberAt, ClaimResultIn
<1>5. StoreInv' /\ \A o \in Pubs : Decision(o)' = Decision(o)
  BY <1>1, UnchangedStore
<1>6. PendingNow' = PendingNow
  BY <1>5 DEF PendingNow
<1>7. Steady
  BY <1>1, <1>5, SteadyStep DEF Approved
<1>8. TypeOK'
  <2>1. /\ claimed' \in [Conns -> BOOLEAN]
        /\ shown' \in [Conns -> SUBSET Pubs] /\ clicked' \in [Conns -> SUBSET Pubs]
        /\ spent' \in [Conns -> SUBSET Pubs]
    BY <1>1, <1>3 DEF TypeOK
  <2> QED
    BY <1>1, <1>2, <1>5, <2>1 DEF TypeOK, StoreInv, Store!TypeOK, Store!Rooms
<1>9. \A x \in Conns \ {c} :
         /\ Still(x) /\ banner'[x] = banner[x]
         /\ window'[x] = window[x] /\ behind'[x] = behind[x]
  BY <1>1, <1>2, <1>6 DEF Still, Kept, TypeOK
<1>10. /\ claimed'[c] = TRUE /\ shown'[c] = m.list /\ clicked'[c] = clicked[c] \cap m.list
       /\ spent'[c] = spent[c] \cap m.list
  BY <1>1 DEF TypeOK
<1>11. Sound(c)'
  <2>1. HonestAt(c)'
    <3>1. /\ \A k \in Range(todo[c]) : HonestCommand(c, k)'
          /\ \A k \in Range(queue[c]) : HonestAnswer(c, k)'
      BY <1>7, MessagesStayHonest DEF Sound
    <3>2. HonestTask(c, task[c])'
      BY <1>1, <1>6, <1>7, TaskStaysHonest DEF Sound, Kept, TypeOK
    <3> QED
      BY <1>1, <1>2, <1>4, <3>1, <3>2 DEF Sound, HonestAt
  <2>2. ~Joining(c)'
    BY <1>1, <1>4 DEF Joining
  <2>3. ClicksArriveAt(c)'
    BY <1>1, <1>10 DEF Sound, ClicksArriveAt
  <2> QED
    BY <1>1, <1>2, <2>1, <2>2, <2>3 DEF Sound, OfflineAt, AsksFirstAt, SeesAsMemberAt
<1>12. WaitsAt(c)'
  BY <1>1, <1>4 DEF WaitsAt
<1>13. Telling => Telling'
  BY <1>1 DEF Telling
<1>14. CardsFollowAt(c)'
  <2>1. LastLists(queue'[c], shown'[c]) = LastLists(queue[c], shown[c])
    BY <1>0, <1>2, <1>3, <1>10, RemainsLast
  <2> QED
    BY <1>1, <1>2, <1>4, <1>6, <1>13, <2>1 DEF CardsFollowAt, Telling
<1>15. task'[c] = task[c] /\ (Tells(task[c]) => Telling')
  BY <1>1 DEF Telling
<1> QED
  BY <1>5, <1>6, <1>7, <1>8, <1>9, <1>11, <1>12, <1>14, <1>15, LocalStep

LEMMA ReceiveListStep ==
    ASSUME Inv, NEW c \in Conns, ReceiveList(c)
    PROVE  Inv'
<1> USE DEF Inv
<1>0. PICK m : m = Head(queue[c])
  OBVIOUS
<1>1. PICK list : list = IF hasKey[c] /\ claimed[c] THEN m.list ELSE {}
  OBVIOUS
<1>2. /\ Receives(c, "join-requests")
      /\ shown' = [shown EXCEPT ![c] = list]
      /\ clicked' = [clicked EXCEPT ![c] = @ \cap list]
      /\ spent' = [spent EXCEPT ![c] = @ \cap list]
      /\ UNCHANGED <<pubOf, storeVars, online, reqID, task, todo, hasKey, claimed, banner,
                     window, behind, drops>>
  BY <1>0, <1>1 DEF ReceiveList, Render
<1>3. /\ c \in online /\ queue[c] # <<>> /\ queue[c] \in Seq(AnswerType)
      /\ m \in AnswerType /\ Range(Tail(queue[c])) \subseteq Range(queue[c])
      /\ m.type = "join-requests"
      /\ queue' \in [Conns -> Seq(AnswerType)] /\ queue'[c] = Tail(queue[c])
      /\ \A x \in Conns \ {c} : queue'[x] = queue[x]
  BY <1>0, <1>2, Received
<1>4. m.list \in SUBSET Pubs /\ IsList(m) /\ list \in SUBSET Pubs
  <2>1. m.list \in SUBSET Pubs /\ IsList(m)
    BY <1>3, AnswerTypes
  <2> QED
    BY <1>1, <2>1
<1>5. StoreInv' /\ \A o \in Pubs : Decision(o)' = Decision(o)
  BY <1>2, UnchangedStore
<1>6. PendingNow' = PendingNow
  BY <1>5 DEF PendingNow
<1>7. Steady
  BY <1>2, <1>5, SteadyStep DEF Approved
<1>8. TypeOK'
  <2>1. /\ shown' \in [Conns -> SUBSET Pubs] /\ clicked' \in [Conns -> SUBSET Pubs]
        /\ spent' \in [Conns -> SUBSET Pubs]
    BY <1>2, <1>4 DEF TypeOK
  <2> QED
    BY <1>2, <1>3, <1>5, <2>1 DEF TypeOK, StoreInv, Store!TypeOK, Store!Rooms
<1>9. \A x \in Conns \ {c} :
         /\ Still(x) /\ banner'[x] = banner[x]
         /\ window'[x] = window[x] /\ behind'[x] = behind[x]
  BY <1>2, <1>3, <1>6 DEF Still, Kept, TypeOK
<1>10. /\ shown'[c] = list /\ clicked'[c] = clicked[c] \cap list
       /\ spent'[c] = spent[c] \cap list
  BY <1>2 DEF TypeOK
<1>11. list # {} => hasKey[c] /\ claimed[c]
  BY <1>1
<1>12. /\ PendingLast(queue'[c], banner[c]) <=> PendingLast(queue[c], banner[c])
       /\ ClaimResultIn(queue'[c]) => ClaimResultIn(queue[c])
       /\ ClaimResultIn(queue'[c]) => LastLists(queue'[c], list) = LastLists(queue[c], shown[c])
       /\ LastLists(queue'[c], m.list) = LastLists(queue[c], shown[c])
  BY <1>0, <1>3, <1>4, RemainsLast
<1>13. Sound(c)'
  <2>1. HonestAt(c)'
    <3>1. /\ \A k \in Range(todo[c]) : HonestCommand(c, k)'
          /\ \A k \in Range(queue[c]) : HonestAnswer(c, k)'
      BY <1>7, MessagesStayHonest DEF Sound
    <3>2. HonestTask(c, task[c])'
      BY <1>2, <1>6, <1>7, TaskStaysHonest DEF Sound, Kept, TypeOK
    <3> QED
      BY <1>2, <1>3, <1>10, <1>11, <3>1, <3>2 DEF Sound, HonestAt
  <2>2. Joining(c)' <=> Joining(c)
    BY <1>2 DEF Joining
  <2>3. ClicksArriveAt(c)'
    BY <1>2, <1>10 DEF Sound, ClicksArriveAt
  <2>4. SeesAsMemberAt(c)'
    BY <1>2, <1>10, <1>11, <1>12, <2>2 DEF Sound, SeesAsMemberAt
  <2> QED
    BY <1>2, <1>3, <2>1, <2>3, <2>4 DEF Sound, OfflineAt, AsksFirstAt
<1>14. ASSUME c \in Applicants PROVE WaitsAt(c)'
  <2>1. PICK p \in Pubs : p = pubOf[c] /\ p = pubOf'[c]
    BY <1>2, <1>14 DEF TypeOK
  <2>2. Decision(p)' = Decision(p) /\ (Notifying(p) => Notifying(p)')
    BY <1>2, <1>5 DEF Notifying
  <2>3. WaitsAt(c)
    BY <1>14
  <2>4. CASE task[c].step \in {"register", "reply"}
    BY <1>2, <2>1, <2>2, <2>3, <2>4 DEF WaitsAt
  <2>5. CASE task[c].step \notin {"register", "reply"}
    <3>1. (c \in online /\ ~hasKey[c] /\ ~window[c] /\ PendingLast(queue[c], banner[c])
             /\ ~Asks(todo[c])) => reqID[c] = p /\ (Decision(p) = "pending" \/ Notifying(p))
      BY <2>1, <2>3, <2>5 DEF WaitsAt
    <3> QED
      BY <1>2, <1>12, <2>1, <2>2, <2>5, <3>1 DEF WaitsAt
  <2> QED
    BY <2>4, <2>5
<1>15. Telling => Telling'
  BY <1>2 DEF Telling
<1>16. CardsFollowAt(c)'
  <2>1. claimed[c] => list = m.list
    BY <1>1 DEF Sound, HonestAt
  <2>2. CASE claimed[c]
    BY <1>2, <1>3, <1>6, <1>10, <1>12, <1>15, <2>1, <2>2 DEF CardsFollowAt, Telling
  <2>3. CASE ~claimed[c]
    BY <1>2, <1>3, <1>6, <1>10, <1>12, <1>15, <2>3 DEF CardsFollowAt, Telling
  <2> QED
    BY <2>2, <2>3
<1>17. task'[c] = task[c] /\ (Tells(task[c]) => Telling')
  BY <1>2 DEF Telling
<1> QED
  BY <1>5, <1>6, <1>7, <1>8, <1>9, <1>13, <1>14, <1>16, <1>17, LocalStep

(* What the browser does with a status, unless it has the key already.      *)
LEMMA ReceiveStatusActs ==
    ASSUME Inv, NEW c \in Conns, ReceiveStatus(c), NEW m, m = Head(queue[c])
    PROVE  /\ UNCHANGED <<pubOf, storeVars, online, reqID, task, claimed, shown, clicked,
                          history>>
           /\ hasKey' \in [Conns -> BOOLEAN]
           /\ banner' \in [Conns -> {"none", "pending", "rejected", "error"}]
           /\ \A x \in Conns \ {c} : hasKey'[x] = hasKey[x] /\ banner'[x] = banner[x]
           /\ todo' \in [Conns -> Seq(CommandType)]
           /\ \A x \in Conns \ {c} : todo'[x] = todo[x]
           /\ hasKey[c] => hasKey'[c]
           /\ hasKey'[c] /\ ~hasKey[c] =>
                /\ IsStatus(m) /\ m.status = "approved"
                /\ todo'[c] = Append(Append(todo[c], [type |-> "join-done", id |-> m.id]),
                                     [type |-> "claim"])
           /\ ~hasKey'[c] =>
                \/ banner'[c] = "error"
                \/ IsStatus(m) /\ m.status # "approved" /\ banner'[c] = m.status
           /\ hasKey'[c] = hasKey[c] => todo'[c] = todo[c]
<1> USE DEF Inv
<1>1. /\ Receives(c, "join-status")
      /\ UNCHANGED <<pubOf, storeVars, online, reqID, task, claimed, shown, clicked, history>>
  BY DEF ReceiveStatus
<1>2. m \in AnswerType /\ m.type = "join-status"
  BY <1>1, Received
<1>3. /\ hasKey \in [Conns -> BOOLEAN] /\ todo \in [Conns -> Seq(CommandType)]
      /\ banner \in [Conns -> {"none", "pending", "rejected", "error"}]
  BY DEF TypeOK
<1>4. CASE hasKey[c]
  <2>1. hasKey' = hasKey /\ banner' = banner /\ todo' = todo
    BY <1>4 DEF ReceiveStatus
  <2> QED
    BY <1>1, <1>3, <1>4, <2>1
<1>5. CASE ~hasKey[c] /\ "error" \in DOMAIN m
  <2>1. hasKey' = hasKey /\ banner' = [banner EXCEPT ![c] = "error"] /\ todo' = todo
    BY <1>5 DEF ReceiveStatus
  <2> QED
    BY <1>1, <1>3, <1>5, <2>1
<1>6. CASE ~hasKey[c] /\ "error" \notin DOMAIN m
  <2>1. IsStatus(m)
    BY <1>2, <1>6 DEF IsStatus
  <2>2. m.id \in Pubs /\ m.status \in Store!Status
    BY <1>2, <2>1, AnswerTypes
  <2>3. PICK b : b = (m.status = "approved")
    OBVIOUS
  <2>4. PICK shownNow : shownNow = IF m.status = "approved" THEN "none" ELSE m.status
    OBVIOUS
  <2>5. /\ hasKey' = [hasKey EXCEPT ![c] = b]
        /\ banner' = [banner EXCEPT ![c] = shownNow]
        /\ todo' = [todo EXCEPT ![c] = todo[c] \o Answer(m)]
    BY <1>6, <2>3, <2>4 DEF ReceiveStatus
  <2>6. /\ todo[c] \o Answer(m) =
             IF m.status = "approved"
               THEN Append(Append(todo[c], [type |-> "join-done", id |-> m.id]), [type |-> "claim"])
               ELSE todo[c]
    BY <1>3, <2>2, AnswerAppended
  <2>7. Append(Append(todo[c], [type |-> "join-done", id |-> m.id]), [type |-> "claim"])
          \in Seq(CommandType)
    BY <1>3, <2>2, NewCommands, CommandsAppend
  <2>8. todo[c] \o Answer(m) \in Seq(CommandType)
    BY <1>3, <2>6, <2>7
  <2>9. todo' \in [Conns -> Seq(CommandType)] /\ todo'[c] = todo[c] \o Answer(m)
        /\ \A x \in Conns \ {c} : todo'[x] = todo[x]
    BY <1>3, <2>5, <2>8
  <2>10. b \in BOOLEAN /\ shownNow \in {"none", "pending", "rejected"}
    BY <2>2, <2>3, <2>4 DEF Store!Status
  <2>11. /\ hasKey' \in [Conns -> BOOLEAN] /\ hasKey'[c] = b
         /\ banner' \in [Conns -> {"none", "pending", "rejected", "error"}]
         /\ banner'[c] = shownNow
         /\ \A x \in Conns \ {c} : hasKey'[x] = hasKey[x] /\ banner'[x] = banner[x]
    BY <1>3, <2>5, <2>10
  <2> QED
    BY <1>1, <1>6, <2>1, <2>3, <2>4, <2>6, <2>9, <2>11
<1> QED
  BY <1>4, <1>5, <1>6

(* The answer to an approval adds join-done, and a claim after it.          *)
LEMMA ApprovalAnswered ==
    ASSUME NEW s \in Seq(CommandType), NEW p \in Pubs, NEW t,
           t = Append(Append(s, [type |-> "join-done", id |-> p]), [type |-> "claim"])
    PROVE  /\ Asks(t) <=> Asks(s)
           /\ AskOnce(s) => AskOnce(t)
           /\ Decisions(t) = Decisions(s)
           /\ Decides(t) <=> Decides(s)
           /\ ClaimAfterDone(s) => ClaimAfterDone(t)
           /\ \A k \in Range(t) : \/ k \in Range(s)
                                  \/ k.type = "join-done" /\ k.id = p
                                  \/ k.type = "claim"
<1>1. PICK d : d = [type |-> "join-done", id |-> p]
  OBVIOUS
<1>2. PICK q : q = [type |-> "claim"]
  OBVIOUS
<1>3. d \in CommandType /\ q \in CommandType
  BY <1>1, <1>2, NewCommands
<1>4. /\ d.type = "join-done" /\ d.id = p /\ q.type = "claim"
      /\ ~IsDecision(d) /\ ~IsDecision(q)
  BY <1>1, <1>2 DEF IsDecision
<1>5. PICK u : u = Append(s, d)
  OBVIOUS
<1>6. /\ u \in Seq(CommandType) /\ Range(u) = Range(s) \cup {d}
      /\ Asks(u) <=> Asks(s)
      /\ AskOnce(s) => AskOnce(u)
      /\ Decisions(u) = Decisions(s) /\ (Decides(u) <=> Decides(s))
      /\ ClaimAfterDone(s) => ClaimAfterDone(u)
  <2>1. u \in Seq(CommandType) /\ Range(u) = Range(s) \cup {d}
    BY <1>3, <1>5, CommandsAppend
  <2>2. d.type # "join-request" /\ d.type # "claim"
    BY <1>4
  <2>3. Decisions(u) = Decisions(s) \cup {}
    BY <1>3, <1>4, <1>5, CommandAdded
  <2>4. /\ Asks(u) <=> Asks(s)
        /\ AskOnce(s) => AskOnce(u)
        /\ Decides(u) <=> Decides(s)
        /\ ClaimAfterDone(s) => ClaimAfterDone(u)
    BY <1>3, <1>4, <1>5, <2>2, CommandAdded
  <2> QED
    BY <2>1, <2>3, <2>4
<1>7. t = Append(u, q)
  BY <1>1, <1>2, <1>5
<1>8. \E x \in Range(u) : x.type = "join-done"
  BY <1>4, <1>6
<1>9. /\ Range(t) = Range(u) \cup {q}
      /\ Asks(t) <=> Asks(u)
      /\ AskOnce(u) => AskOnce(t)
      /\ Decisions(t) = Decisions(u) /\ (Decides(t) <=> Decides(u))
      /\ ClaimAfterDone(u) => ClaimAfterDone(t)
  <2>1. Range(t) = Range(u) \cup {q}
    BY <1>3, <1>6, <1>7, CommandsAppend
  <2>2. q.type # "join-request" /\ u \in Seq(CommandType)
    BY <1>4, <1>6
  <2>3. Decisions(t) = Decisions(u) \cup {}
    BY <1>3, <1>4, <1>7, <2>2, CommandAdded
  <2>4. /\ Asks(t) <=> Asks(u)
        /\ AskOnce(u) => AskOnce(t)
    <3>1. Asks(Append(u, q)) <=> Asks(u)
      BY <1>3, <2>2, CommandAdded
    <3>2. AskOnce(u) => AskOnce(Append(u, q))
      BY <1>3, <2>2, CommandAdded
    <3> QED
      BY <1>7, <3>1, <3>2
  <2>6. ~IsDecision(q)
    BY <1>4
  <2>7. Decides(t) <=> Decides(u)
    BY <2>1, <2>6 DEF Decides
  <2>5. ClaimAfterDone(u) => ClaimAfterDone(t)
    BY <1>3, <1>7, <1>8, <2>2, CommandAdded
  <2> QED
    BY <2>1, <2>3, <2>4, <2>5, <2>7
<1> QED
  BY <1>4, <1>6, <1>9

LEMMA ReceiveStatusStep ==
    ASSUME Inv, NEW c \in Conns, ReceiveStatus(c)
    PROVE  Inv'
<1> USE DEF Inv
<1>0. PICK m : m = Head(queue[c])
  OBVIOUS
<1>1. /\ UNCHANGED <<pubOf, storeVars, online, reqID, task, claimed, shown, clicked, history>>
      /\ hasKey' \in [Conns -> BOOLEAN]
      /\ banner' \in [Conns -> {"none", "pending", "rejected", "error"}]
      /\ \A x \in Conns \ {c} : hasKey'[x] = hasKey[x] /\ banner'[x] = banner[x]
      /\ todo' \in [Conns -> Seq(CommandType)]
      /\ \A x \in Conns \ {c} : todo'[x] = todo[x]
      /\ hasKey[c] => hasKey'[c]
  BY <1>0, ReceiveStatusActs
<1>2. /\ hasKey'[c] /\ ~hasKey[c] =>
           /\ IsStatus(m) /\ m.status = "approved"
           /\ todo'[c] = Append(Append(todo[c], [type |-> "join-done", id |-> m.id]),
                                [type |-> "claim"])
      /\ ~hasKey'[c] => \/ banner'[c] = "error"
                        \/ IsStatus(m) /\ m.status # "approved" /\ banner'[c] = m.status
      /\ hasKey'[c] = hasKey[c] => todo'[c] = todo[c]
  BY <1>0, ReceiveStatusActs
<1>3. Receives(c, "join-status")
  BY DEF ReceiveStatus
<1>4. /\ c \in online /\ queue[c] # <<>> /\ queue[c] \in Seq(AnswerType)
      /\ m \in AnswerType /\ m \in Range(queue[c])
      /\ Range(Tail(queue[c])) \subseteq Range(queue[c])
      /\ m.type = "join-status"
      /\ queue' \in [Conns -> Seq(AnswerType)] /\ queue'[c] = Tail(queue[c])
      /\ \A x \in Conns \ {c} : queue'[x] = queue[x]
  BY <1>0, <1>3, Received
<1>5. hasKey \in [Conns -> BOOLEAN] /\ todo[c] \in Seq(CommandType)
  BY DEF TypeOK
<1>6. StoreInv' /\ \A o \in Pubs : Decision(o)' = Decision(o)
  BY <1>1, UnchangedStore
<1>7. PendingNow' = PendingNow
  BY <1>6 DEF PendingNow
<1>8. \A x \in Conns : hasKey[x] => hasKey'[x]
  BY <1>1
<1>9. Steady
  BY <1>1, <1>6, <1>8, SteadyStep DEF Approved
<1>10. TypeOK'
  BY <1>1, <1>4, <1>6
  DEF TypeOK, history, StoreInv, Store!TypeOK, Store!Rooms
<1>11. \A x \in Conns \ {c} :
         /\ Still(x) /\ banner'[x] = banner[x]
         /\ window'[x] = window[x] /\ behind'[x] = behind[x]
  BY <1>1, <1>4, <1>7 DEF Still, Kept, history
<1>12. ~IsList(m) /\ m.type # "claim-result"
  BY <1>4 DEF IsList
<1>13. ClaimResultIn(queue'[c]) <=> ClaimResultIn(queue[c])
  BY <1>0, <1>4, <1>12, RemainsLast
<1>14. LastLists(queue'[c], shown[c]) = LastLists(queue[c], shown[c])
  BY <1>0, <1>4, <1>12, RemainsLast
<1>15. IsStatus(m) => /\ c \in Applicants /\ m.id = pubOf[c] /\ m.id \in Pubs
                      /\ ~Asks(todo[c])
  BY <1>4, AnswerTypes DEF Sound, HonestAt, HonestAnswer, AsksFirstAt
<1>16. /\ Asks(todo'[c]) <=> Asks(todo[c])
       /\ AskOnce(todo'[c])
       /\ Decisions(todo'[c]) = Decisions(todo[c])
       /\ Decides(todo'[c]) <=> Decides(todo[c])
       /\ ClaimAfterDone(todo[c]) => ClaimAfterDone(todo'[c])
       /\ \A k \in Range(todo'[c]) :
            \/ k \in Range(todo[c])
            \/ hasKey'[c] /\ c \in Applicants /\ k.type = "join-done" /\ k.id = pubOf[c]
            \/ hasKey'[c] /\ k.type = "claim"
  <2>1. AskOnce(todo[c])
    BY DEF Sound, AsksFirstAt
  <2>2. CASE hasKey'[c] = hasKey[c]
    BY <1>2, <2>1, <2>2
  <2>3. CASE hasKey'[c] # hasKey[c]
    <3>1. hasKey'[c] /\ ~hasKey[c]
      BY <1>1, <1>5, <2>3
    <3>2. /\ IsStatus(m) /\ todo'[c] = Append(Append(todo[c], [type |-> "join-done", id |-> m.id]),
                                              [type |-> "claim"])
      BY <1>2, <3>1
    <3>3. /\ Asks(todo'[c]) <=> Asks(todo[c])
          /\ AskOnce(todo[c]) => AskOnce(todo'[c])
          /\ Decisions(todo'[c]) = Decisions(todo[c])
          /\ Decides(todo'[c]) <=> Decides(todo[c])
          /\ ClaimAfterDone(todo[c]) => ClaimAfterDone(todo'[c])
          /\ \A k \in Range(todo'[c]) : \/ k \in Range(todo[c])
                                        \/ k.type = "join-done" /\ k.id = m.id
                                        \/ k.type = "claim"
      BY <1>5, <1>15, <3>2, ApprovalAnswered
    <3> QED
      BY <1>15, <2>1, <3>1, <3>2, <3>3
  <2> QED
    BY <2>2, <2>3
<1>17. Sound(c)'
  <2>1. HonestAt(c)'
    <3>1. /\ \A k \in Range(todo[c]) : HonestCommand(c, k)'
          /\ \A k \in Range(queue[c]) : HonestAnswer(c, k)'
      BY <1>9, MessagesStayHonest DEF Sound
    <3>2. \A k \in Range(todo'[c]) : HonestCommand(c, k)'
      BY <1>1, <1>16, <3>1 DEF HonestCommand
    <3>3. HonestTask(c, task[c])'
      BY <1>1, <1>7, <1>9, TaskStaysHonest DEF Sound, Kept, TypeOK
    <3> QED
      BY <1>1, <1>4, <3>1, <3>2, <3>3 DEF Sound, HonestAt
  <2>2. Joining(c)' <=> Joining(c)
    BY <1>1, <1>16 DEF Joining
  <2>3. ClicksArriveAt(c)'
    BY <1>1, <1>16 DEF Sound, ClicksArriveAt, history
  <2>4. SeesAsMemberAt(c)'
    BY <1>1, <1>13, <1>16, <2>2 DEF Sound, SeesAsMemberAt
  <2>5. AsksFirstAt(c)'
    <3>1. Asks(todo[c]) => hasKey'[c] = hasKey[c]
      BY <1>1, <1>2, <1>5, <1>15
    <3> QED
      BY <1>1, <1>4, <1>16, <3>1 DEF Sound, AsksFirstAt
  <2> QED
    BY <1>1, <1>4, <2>1, <2>3, <2>4, <2>5 DEF Sound, OfflineAt
<1>18. ASSUME c \in Applicants PROVE WaitsAt(c)'
  <2>1. PICK p \in Pubs : p = pubOf[c] /\ p = pubOf'[c]
    BY <1>1, <1>18 DEF TypeOK
  <2>2. Decision(p)' = Decision(p) /\ (Notifying(p) => Notifying(p)')
    BY <1>1, <1>6 DEF Notifying
  <2>3. WaitsAt(c)
    BY <1>18
  <2>4. SUFFICES ASSUME ~hasKey'[c] PROVE WaitsAt(c)'
    BY DEF WaitsAt
  <2>5. ~hasKey[c] /\ window'[c] = window[c] /\ todo'[c] = todo[c]
    BY <1>1, <1>2, <1>5, <2>4 DEF history
  <2>6. PendingLast(queue'[c], banner'[c]) => PendingLast(queue[c], banner[c])
    <3>1. CASE banner'[c] = "error"
      <4>1. banner'[c] # "pending"
        BY <3>1
      <4> QED
        BY <1>0, <1>4, <4>1, RemainsLast
    <3>2. CASE IsStatus(m) /\ banner'[c] = m.status
      BY <1>0, <1>4, <3>2, RemainsLast
    <3> QED
      BY <1>2, <2>4, <3>1, <3>2
  <2>7. CASE task[c].step \in {"register", "reply"}
    BY <1>1, <2>1, <2>2, <2>3, <2>5, <2>7 DEF WaitsAt
  <2>8. CASE task[c].step \notin {"register", "reply"}
    <3>1. (c \in online /\ ~hasKey[c] /\ ~window[c] /\ PendingLast(queue[c], banner[c])
             /\ ~Asks(todo[c])) => reqID[c] = p /\ (Decision(p) = "pending" \/ Notifying(p))
      BY <2>1, <2>3, <2>8 DEF WaitsAt
    <3> QED
      BY <1>1, <2>1, <2>2, <2>5, <2>6, <2>8, <3>1 DEF WaitsAt
  <2> QED
    BY <2>7, <2>8
<1>19. Telling => Telling'
  BY <1>1 DEF Telling
<1>20. CardsFollowAt(c)'
  BY <1>1, <1>7, <1>13, <1>14, <1>19 DEF CardsFollowAt, Telling, history
<1>21. task'[c] = task[c] /\ (Tells(task[c]) => Telling')
  BY <1>1 DEF Telling
<1> QED
  BY <1>6, <1>7, <1>9, <1>10, <1>11, <1>17, <1>18, <1>20, <1>21, LocalStep

LEMMA ClickStep ==
    ASSUME Inv, NEW c \in Conns, NEW p \in Pubs,
           NEW type \in {"join-approve", "join-reject"}, Click(c, p, type)
    PROVE  Inv'
<1> USE DEF Inv
<1>0. PICK m : m = [type |-> type, id |-> p]
  OBVIOUS
<1>1. /\ p \in shown[c]
      /\ clicked' = [clicked EXCEPT ![c] = @ \cup {p}]
      /\ c \in online => todo' = [todo EXCEPT ![c] = Append(@, m)] /\ spent' = spent
      /\ c \notin online => spent' = [spent EXCEPT ![c] = @ \cup {p}] /\ todo' = todo
      /\ UNCHANGED <<pubOf, storeVars, online, reqID, task, queue, hasKey, claimed, banner,
                     shown, window, behind, drops>>
  BY <1>0 DEF Click
<1>2. m \in CommandType /\ m.type = type /\ m.id = p
  BY <1>0, NewCommands
<1>3. IsDecision(m) /\ m.type \notin {"join-request", "claim", "join-done"}
  BY <1>2 DEF IsDecision
<1>4. PICK t : t = Append(todo[c], m)
  OBVIOUS
<1>5. todo[c] \in Seq(CommandType)
  BY DEF TypeOK
<1>6. /\ t \in Seq(CommandType) /\ Range(t) = Range(todo[c]) \cup {m}
      /\ Asks(t) <=> Asks(todo[c])
      /\ AskOnce(todo[c]) => AskOnce(t)
      /\ Decisions(t) = Decisions(todo[c]) \cup {p}
      /\ ClaimAfterDone(todo[c]) => ClaimAfterDone(t)
  BY <1>2, <1>3, <1>4, <1>5, CommandsAppend, CommandAdded
<1>7. /\ todo' \in [Conns -> Seq(CommandType)] /\ spent' \in [Conns -> SUBSET Pubs]
      /\ \A x \in Conns \ {c} : todo'[x] = todo[x] /\ spent'[x] = spent[x]
      /\ c \in online => todo'[c] = t /\ spent'[c] = spent[c]
      /\ c \notin online => todo'[c] = todo[c] /\ spent'[c] = spent[c] \cup {p}
  <2>1. CASE c \in online
    <3>1. todo' = [todo EXCEPT ![c] = t] /\ spent' = spent
      BY <1>1, <1>4, <2>1
    <3> QED
      BY <1>6, <2>1, <3>1 DEF TypeOK
  <2>2. CASE c \notin online
    <3>1. spent' = [spent EXCEPT ![c] = spent[c] \cup {p}] /\ todo' = todo
      BY <1>1, <2>2
    <3> QED
      BY <2>2, <3>1 DEF TypeOK
  <2> QED
    BY <2>1, <2>2
<1>8. /\ clicked' \in [Conns -> SUBSET Pubs] /\ clicked'[c] = clicked[c] \cup {p}
      /\ \A x \in Conns \ {c} : clicked'[x] = clicked[x]
  BY <1>1 DEF TypeOK
<1>9. StoreInv' /\ \A o \in Pubs : Decision(o)' = Decision(o)
  BY <1>1, UnchangedStore
<1>10. PendingNow' = PendingNow
  BY <1>9 DEF PendingNow
<1>11. Steady
  BY <1>1, <1>9, SteadyStep DEF Approved
<1>12. TypeOK'
  BY <1>1, <1>7, <1>8, <1>9 DEF TypeOK, StoreInv, Store!TypeOK, Store!Rooms
<1>13. \A x \in Conns \ {c} :
         /\ Still(x) /\ banner'[x] = banner[x]
         /\ window'[x] = window[x] /\ behind'[x] = behind[x]
  BY <1>1, <1>7, <1>8, <1>10 DEF Still, Kept
<1>14. hasKey[c] /\ ~Joining(c)
  BY <1>1 DEF Sound, HonestAt, SeesAsMemberAt
<1>15. /\ Asks(todo'[c]) <=> Asks(todo[c])
       /\ AskOnce(todo'[c])
       /\ Range(todo'[c]) \subseteq Range(todo[c]) \cup {m}
       /\ clicked'[c] \subseteq spent'[c] \cup Decisions(todo'[c])
  BY <1>6, <1>7, <1>8 DEF Sound, AsksFirstAt, ClicksArriveAt
<1>16. ~Joining(c)'
  BY <1>1, <1>14, <1>15 DEF Joining
<1>17. Sound(c)'
  <2>1. HonestAt(c)'
    <3>1. /\ \A k \in Range(todo[c]) : HonestCommand(c, k)'
          /\ \A k \in Range(queue[c]) : HonestAnswer(c, k)'
      BY <1>11, MessagesStayHonest DEF Sound
    <3>2. HonestCommand(c, m)'
      BY <1>3 DEF HonestCommand
    <3>3. HonestTask(c, task[c])'
      BY <1>1, <1>10, <1>11, TaskStaysHonest DEF Sound, Kept, TypeOK
    <3> QED
      BY <1>1, <1>15, <3>1, <3>2, <3>3 DEF Sound, HonestAt
  <2>2. OfflineAt(c)'
    BY <1>1, <1>7 DEF Sound, OfflineAt
  <2>3. AsksFirstAt(c)'
    BY <1>1, <1>15 DEF Sound, AsksFirstAt
  <2> QED
    BY <1>15, <1>16, <2>1, <2>2, <2>3 DEF Sound, SeesAsMemberAt, ClicksArriveAt
<1>18. WaitsAt(c)'
  BY <1>1, <1>14 DEF WaitsAt
<1>19. Telling => Telling'
  BY <1>1 DEF Telling
<1>20. CardsFollowAt(c)'
  BY <1>1, <1>10, <1>19 DEF CardsFollowAt, Telling
<1>21. task'[c] = task[c] /\ (Tells(task[c]) => Telling')
  BY <1>1 DEF Telling
<1> QED
  BY <1>9, <1>10, <1>11, <1>12, <1>13, <1>17, <1>18, <1>20, <1>21, LocalStep

-----------------------------------------------------------------------------
(* The invariant.                                                           *)

LEMMA StutterStep == Inv /\ UNCHANGED vars => Inv'
<1> SUFFICES ASSUME Inv, UNCHANGED vars PROVE Inv'
  OBVIOUS
<1> USE DEF Inv
<1>1. /\ UNCHANGED <<pubOf, storeVars, online, reqID, task, queue, todo>>
      /\ UNCHANGED <<clientVars, history>>
  BY DEF vars, storeVars, clientVars, history
<1>2. StoreInv' /\ \A p \in Pubs : Decision(p)' = Decision(p)
  BY <1>1, UnchangedStore
<1>3. PendingNow' = PendingNow
  BY <1>2 DEF PendingNow
<1>4. Steady
  BY <1>1, <1>2, SteadyStep DEF clientVars, Approved
<1>5. TypeOK'
  BY <1>1, <1>2 DEF TypeOK, clientVars, history, StoreInv, Store!TypeOK, Store!Rooms
<1>6. \A x \in Conns : Still(x)
  BY <1>1, <1>3 DEF Still, Kept, clientVars, history
<1>7. \A x \in Conns : Sound(x)'
  BY <1>4, <1>6, StillSound
<1>8. \A x \in Applicants : WaitsAt(x)'
  BY <1>1, <1>2, <1>4, <1>6, StillWaits DEF Conns, clientVars, history
<1>9. \A x \in Conns : CardsFollowAt(x)'
  BY <1>1, <1>3, <1>6, StillFollows DEF Telling, history
<1> QED
  BY <1>2, <1>5, <1>7, <1>8, <1>9

LEMMA InitInv == Init => Inv
<1> SUFFICES ASSUME Init PROVE Inv
  OBVIOUS
<1>1. StoreInv
  <2>1. /\ rooms = [r \in {Room} |-> Store!NewRoom("inbox")]
        /\ disk = rooms /\ saveOK = TRUE
        /\ rejectedFor = [r \in {Room} |-> Store!NoRequests]
    BY DEF Init
  <2>2. Store!NoRequests \in [Pubs -> {None}]
    BY DEF Store!NoRequests
  <2>3. /\ Store!NewRoom("inbox") \in Store!Room
        /\ Store!NewRoom("inbox").requests = Store!NoRequests
    BY DEF Store!NewRoom, Store!Room, Store!NoRequests
  <2>4. /\ rooms \in [{Room} -> Store!Room]
        /\ rooms[Room].requests = Store!NoRequests
    BY <2>1, <2>3
  <2>5. rejectedFor \in [{Room} -> [Pubs -> 0..2 \cup {None}]]
    BY <2>1, <2>2
  <2>6. \A p \in Pubs : Req(p) = None
    BY <2>2, <2>4 DEF Req
  <2> QED
    BY <2>1, <2>4, <2>5, <2>6 DEF StoreInv
<1>2. TypeOK
  <2>1. Store!TypeOK
    BY <1>1, StoreTyped
  <2>2. Idle \in TaskType
    BY DEF TaskType
  <2> QED
    BY <2>1, <2>2, EmptyQueue, BoundsAssumption DEF Init, TypeOK
<1>3. ASSUME NEW c \in Conns PROVE Sound(c)
  <2>1. /\ online = {} /\ reqID[c] = None /\ task[c] = Idle
        /\ queue[c] = <<>> /\ todo[c] = <<>> /\ claimed[c] = FALSE
        /\ shown[c] = {} /\ clicked[c] = {}
        /\ hasKey[c] <=> c \in Members
    BY DEF Init
  <2>2. HonestAt(c)
    <3>1. HonestTask(c, Idle)
      BY DEF HonestTask, Idle
    <3>2. c \in Members => hasKey[c]
      BY <2>1
    <3> QED
      BY <2>1, <3>1, <3>2, EmptyQueue DEF HonestAt
  <2>3. OfflineAt(c) /\ AsksFirstAt(c) /\ ClicksArriveAt(c)
    BY <2>1, EmptyQueue DEF OfflineAt, AsksFirstAt, ClicksArriveAt
  <2>4. SeesAsMemberAt(c)
    BY <2>1, EmptyQueue DEF SeesAsMemberAt, Joining, Idle
  <2> QED
    BY <2>2, <2>3, <2>4 DEF Sound
<1>4. \A c \in Applicants : WaitsAt(c)
  BY DEF Init, WaitsAt
<1>5. \A c \in Conns : CardsFollowAt(c)
  BY DEF Init, CardsFollowAt
<1> QED
  BY <1>1, <1>2, <1>3, <1>4, <1>5 DEF Inv

LEMMA NextInv == Inv /\ [Next]_vars => Inv'
<1> SUFFICES ASSUME Inv, [Next]_vars PROVE Inv'
  OBVIOUS
<1>1. ASSUME NEW c \in Conns, Handler(c) PROVE Inv'
  <2>1. ASSUME NEW p \in Pubs, Decide(c, p) PROVE Inv'
    BY <2>1, DecideStep
  <2> QED
    BY <1>1, <2>1, HandleClaimStep, SendClaimResultStep, HandleRequestStep, RefuseRequestStep,
       RegisterStep, ReplyStep, IgnoreDecisionStep, NotifyApplicantStep, ReadListStep,
       BroadcastStep, HandleDoneStep, ForgetRequestStep
    DEF Handler
<1>2. ASSUME NEW c \in Conns, Browser(c) PROVE Inv'
  <2>1. ASSUME NEW p \in Pubs, NEW type \in {"join-approve", "join-reject"}, Click(c, p, type)
        PROVE  Inv'
    BY <2>1, ClickStep
  <2> QED
    BY <1>2, <2>1, ReceiveClaimResultStep, ReceiveListStep, ReceiveStatusStep DEF Browser
<1>3. ASSUME NEW c \in Conns, Connect(c) \/ Disconnect(c) \/ Reload(c) PROVE Inv'
  BY <1>3, ConnectStep, DisconnectStep, ReloadStep
<1>4. CASE ServerRestart
  BY <1>4, RestartStep
<1>5. CASE UNCHANGED vars
  BY <1>5, StutterStep
<1> QED
  BY <1>1, <1>2, <1>3, <1>4, <1>5 DEF Next

(* Every reachable state satisfies the invariant: what is on its way in     *)
(* either direction is true, an applicant told to wait has a pending        *)
(* request or a decision coming, and the members' cards follow the list.    *)
THEOREM Invariance == Spec => []Inv
  BY InitInv, NextInv, PTL DEF Spec

(* Every handler of join.go and every reaction of room.js keeps the types   *)
(* of all variables.                                                        *)
THEOREM TypeCorrect == Spec => []TypeOK
<1>1. Inv => TypeOK
  BY DEF Inv
<1> QED
  BY <1>1, Invariance, PTL

(* An applicant who is told to wait (banner, room.js) still has a request   *)
(* for the members to decide once every message has arrived, unless the     *)
(* decision fell between Submit and the reply of handleJoinRequest.         *)
THEOREM DecisionReachesHolds == Spec => []DecisionReaches
<1>1. Inv => DecisionReaches
  <2> SUFFICES ASSUME Inv, NEW c \in Applicants, Settled(c), Waiting(c), ~window[c]
               PROVE  Store!IsPending(Room, pubOf[c])
    BY DEF DecisionReaches
  <2> USE DEF Inv
  <2>1. /\ c \in online /\ queue[c] = <<>> /\ todo[c] = <<>>
        /\ \A x \in Conns : task[x] = Idle
        /\ ~hasKey[c] /\ banner[c] = "pending"
    BY DEF Settled, Waiting
  <2>2. PICK p \in Pubs : p = pubOf[c]
    BY DEF TypeOK
  <2>3. ~Notifying(p)
    BY <2>1 DEF Notifying, Idle
  <2>4. PendingLast(queue[c], banner[c]) /\ ~Asks(todo[c])
    BY <2>1, EmptyQueue
  <2>5. task[c].step = "idle"
    BY <2>1 DEF Idle, Conns
  <2>6. Decision(p) = "pending" \/ Notifying(p)
    BY <2>1, <2>2, <2>4, <2>5 DEF WaitsAt
  <2> QED
    BY <2>2, <2>3, <2>6, StoreRequest
<1> QED
  BY <1>1, Invariance, PTL

(* A member whose queue is empty is shown exactly the pending requests      *)
(* (renderRequests), unless the last broadcastRequests to reach it had read *)
(* the list before another handler changed it.                              *)
THEOREM CardsCurrentHolds == Spec => []CardsCurrent
<1>1. Inv => CardsCurrent
  <2> SUFFICES ASSUME Inv, NEW c \in Conns, Settled(c), claimed[c], behind[c] = "none"
               PROVE  shown[c] = Store!Pending(Room)
    BY DEF CardsCurrent
  <2> USE DEF Inv
  <2>1. c \in online /\ queue[c] = <<>> /\ \A x \in Conns : task[x] = Idle
    BY DEF Settled
  <2>2. ~(\E x \in Conns : Tells(task[x]))
    BY <2>1 DEF Tells, Idle
  <2>3. LastLists(queue[c], shown[c]) \subseteq {PendingNow}
    BY <2>1, <2>2 DEF CardsFollowAt
  <2>4. shown[c] \in LastLists(<<>>, shown[c])
    BY DEF LastLists
  <2> QED
    BY <2>1, <2>3, <2>4, StorePending
<1> QED
  BY <1>1, Invariance, PTL

(* The buttons of a card that is on show work, or their click was lost with *)
(* the connection or spent on an earlier request of the same applicant.     *)
THEOREM CardsUsableHolds == Spec => []CardsUsable
<1>1. Inv => CardsUsable
  <2> SUFFICES ASSUME Inv, NEW c \in Conns, Settled(c)
               PROVE  clicked[c] \subseteq spent[c]
    BY DEF CardsUsable
  <2>1. todo[c] = <<>>
    BY DEF Settled
  <2>2. clicked[c] \subseteq spent[c] \cup Decisions(todo[c])
    BY DEF Inv, Sound, ClicksArriveAt
  <2> QED
    BY <2>1, <2>2, EmptyQueue
<1> QED
  BY <1>1, Invariance, PTL

-----------------------------------------------------------------------------
(* The promise.                                                             *)

Admitted == {pubOf[c] : c \in {a \in Applicants : hasKey[a]}}

LEMMA PromiseKept ==
    ASSUME \A p \in Pubs : Decision(p)' = Decision(p), Admitted' = Admitted
    PROVE  UNCHANGED Promise!vars
BY DEF Promise!vars, Admitted

LEMMA PromiseStatus ==
    ASSUME NEW p \in Pubs, NEW s, Decision(p)' = s,
           \A o \in Pubs \ {p} : Decision(o)' = Decision(o)
    PROVE  [o \in Pubs |-> Decision(o)]' = [[o \in Pubs |-> Decision(o)] EXCEPT ![p] = s]
OBVIOUS

(* Most steps do not touch the requests, and give nobody the key.           *)
LEMMA NobodyAdmitted ==
    ASSUME Inv, UNCHANGED storeVars, pubOf' = pubOf, hasKey' = hasKey
    PROVE  UNCHANGED Promise!vars
<1>1. \A p \in Pubs : Decision(p)' = Decision(p)
  BY UnchangedStore DEF Inv
<1>2. Admitted' = Admitted
  BY DEF Admitted
<1> QED
  BY <1>1, <1>2, PromiseKept

LEMMA RequestPromise ==
    ASSUME Inv, NEW c \in Conns, HandleRequest(c)
    PROVE  [Promise!Next]_(Promise!vars)
<1>1. Store!Submit(Room, pubOf[c]) /\ pubOf' = pubOf /\ hasKey' = hasKey
  BY DEF HandleRequest, clientVars
<1>2. Begins(c, "join-request")
  BY DEF HandleRequest
<1>3. c \in Applicants
  BY <1>2, Taken, Begun DEF Inv, HonestCommand
<1>4. PICK p \in Pubs : p = pubOf[c]
  BY <1>3 DEF Inv, TypeOK
<1>5. Store!Submit(Room, p)
  BY <1>1, <1>4
<1>6. /\ Decision(p)' = IF Decision(p) = "none" THEN "pending" ELSE Decision(p)
      /\ \A o \in Pubs \ {p} : Decision(o)' = Decision(o)
  BY <1>5, SubmitStore DEF Inv
<1>7. Admitted' = Admitted
  BY <1>1 DEF Admitted
<1>8. CASE Decision(p) = "none"
  <2>1. Promise!Apply(p)
    BY <1>6, <1>7, <1>8, PromiseStatus DEF Promise!Apply, Admitted
  <2> QED
    BY <2>1 DEF Promise!Next
<1>9. CASE Decision(p) # "none"
  BY <1>6, <1>7, <1>9, PromiseKept
<1> QED
  BY <1>8, <1>9

LEMMA DecidePromise ==
    ASSUME Inv, NEW c \in Conns, NEW p \in Pubs, Decide(c, p)
    PROVE  [Promise!Next]_(Promise!vars)
<1>1. PICK s \in {"approved", "rejected"} :
        /\ Decision(p) = "pending" /\ Decision(p)' = s
        /\ \A o \in Pubs \ {p} : Decision(o)' = Decision(o)
  BY DecideActs DEF Inv
<1>2. pubOf' = pubOf /\ hasKey' = hasKey
  BY DecideActs DEF Inv, clientVars
<1>3. Admitted' = Admitted
  BY <1>2 DEF Admitted
<1>4. Promise!Decide(p, s)
  BY <1>1, <1>3, PromiseStatus DEF Promise!Decide, Admitted
<1> QED
  BY <1>4 DEF Promise!Next

LEMMA StatusPromise ==
    ASSUME Inv, NEW c \in Conns, ReceiveStatus(c)
    PROVE  [Promise!Next]_(Promise!vars)
<1>0. PICK m : m = Head(queue[c])
  OBVIOUS
<1>1. /\ pubOf' = pubOf /\ UNCHANGED storeVars
      /\ hasKey \in [Conns -> BOOLEAN] /\ hasKey' \in [Conns -> BOOLEAN]
      /\ \A x \in Conns \ {c} : hasKey'[x] = hasKey[x]
      /\ hasKey[c] => hasKey'[c]
      /\ hasKey'[c] /\ ~hasKey[c] => IsStatus(m) /\ m.status = "approved"
  BY <1>0, ReceiveStatusActs DEF Inv, TypeOK
<1>2. \A p \in Pubs : Decision(p)' = Decision(p)
  BY <1>1, UnchangedStore DEF Inv
<1>3. CASE hasKey'[c] = hasKey[c]
  <2>1. hasKey' = hasKey
    BY <1>1, <1>3
  <2> QED
    BY <1>1, <2>1, NobodyAdmitted
<1>4. CASE hasKey'[c] # hasKey[c]
  <2>1. hasKey'[c] /\ ~hasKey[c]
    BY <1>1, <1>4
  <2>2. Receives(c, "join-status")
    BY DEF ReceiveStatus
  <2>3. m \in Range(queue[c])
    BY <1>0, <2>2, Received DEF Inv
  <2>4. HonestAnswer(c, m)
    BY <2>3 DEF Inv, Sound, HonestAt
  <2>5. c \in Applicants /\ m.id = pubOf[c] /\ Approved(m.id)
    BY <1>1, <2>1, <2>4 DEF HonestAnswer
  <2>6. PICK p \in Pubs : p = pubOf[c]
    BY <2>5 DEF Inv, TypeOK
  <2>7. Approved(p)
    BY <2>5, <2>6
  <2>8. Admitted' = Admitted \cup {p}
    <3>1. {a \in Applicants : hasKey'[a]} = {a \in Applicants : hasKey[a]} \cup {c}
      BY <1>1, <2>1, <2>5 DEF Conns
    <3> QED
      BY <1>1, <2>6, <3>1 DEF Admitted
  <2>9. CASE Decision(p) = "approved"
    <3>1. Promise!Admit(p)
      BY <1>2, <2>8, <2>9 DEF Promise!Admit, Admitted
    <3> QED
      BY <3>1 DEF Promise!Next
  <2>10. CASE Decision(p) # "approved"
    <3>1. p \in Admitted
      BY <2>7, <2>10 DEF Approved, Admitted
    <3>2. Admitted' = Admitted
      BY <2>8, <3>1
    <3> QED
      BY <1>2, <3>2, PromiseKept
  <2> QED
    BY <2>9, <2>10
<1> QED
  BY <1>3, <1>4

LEMMA ForgetPromise ==
    ASSUME Inv, NEW c \in Conns, ForgetRequest(c)
    PROVE  [Promise!Next]_(Promise!vars)
<1>1. task[c].step = "done" /\ pubOf' = pubOf /\ hasKey' = hasKey
  BY DEF ForgetRequest, At, clientVars
<1>2. c \in Applicants /\ task[c].id = pubOf[c] /\ hasKey[c]
  BY <1>1 DEF Inv, Sound, HonestAt, HonestTask
<1>3. PICK p \in Pubs : p = task[c].id /\ p = pubOf[c]
  BY <1>2 DEF Inv, TypeOK
<1>4. Admitted' = Admitted
  BY <1>1 DEF Admitted
<1>5. p \in Admitted
  BY <1>2, <1>3 DEF Admitted
<1>6. CASE Store!Done(Room, p)
  <2>1. /\ Decision(p) = "approved" /\ Decision(p)' = "none"
        /\ \A o \in Pubs \ {p} : Decision(o)' = Decision(o)
    BY <1>6, DoneStore DEF Inv
  <2>2. Promise!Forget(p)
    BY <1>4, <1>5, <2>1, PromiseStatus DEF Promise!Forget, Admitted
  <2> QED
    BY <2>2 DEF Promise!Next
<1>7. CASE UNCHANGED storeVars
  BY <1>1, <1>7, NobodyAdmitted
<1> QED
  BY <1>3, <1>6, <1>7 DEF ForgetRequest

(* A page loaded again finds the key that another tab has stored.           *)
LEMMA ReloadPromise ==
    ASSUME Inv, NEW c \in Conns, Reload(c)
    PROVE  [Promise!Next]_(Promise!vars)
<1>1. /\ UNCHANGED storeVars /\ pubOf' = pubOf
      /\ hasKey' = [hasKey EXCEPT ![c] = KeyStored(c)]
  BY DEF Reload
<1>2. \A p \in Pubs : Decision(p)' = Decision(p)
  BY <1>1, UnchangedStore DEF Inv
<1>3. /\ \A x \in Conns \ {c} : hasKey'[x] = hasKey[x]
      /\ hasKey'[c] = KeyStored(c)
  BY <1>1 DEF Inv, TypeOK
<1>4. \A a \in Applicants : hasKey[a] => hasKey'[a]
  BY <1>3 DEF KeyStored, Conns
<1>5. \A a \in Applicants : hasKey'[a] => \E x \in Applicants : pubOf[x] = pubOf[a] /\ hasKey[x]
  BY <1>3 DEF KeyStored, Conns
<1>6. Admitted' = Admitted
  BY <1>1, <1>4, <1>5 DEF Admitted
<1> QED
  BY <1>2, <1>6, PromiseKept

LEMMA RestartPromise ==
    ASSUME Inv, ServerRestart
    PROVE  [Promise!Next]_(Promise!vars)
<1>1. Store!Restart /\ pubOf' = pubOf /\ hasKey' = hasKey
  BY DEF ServerRestart
<1>2. \A p \in Pubs : Decision(p)' = Decision(p)
  BY <1>1, RestartStore DEF Inv
<1>3. Admitted' = Admitted
  BY <1>1 DEF Admitted
<1> QED
  BY <1>2, <1>3, PromiseKept

LEMMA ClaimPromise ==
    ASSUME Inv, NEW c \in Conns, HandleClaim(c)
    PROVE  [Promise!Next]_(Promise!vars)
<1>1. Store!Claim(Room, FALSE, "inbox") /\ pubOf' = pubOf /\ hasKey' = hasKey
  BY DEF HandleClaim, clientVars
<1>2. \A p \in Pubs : Decision(p)' = Decision(p)
  BY <1>1, ClaimStore DEF Inv
<1>3. Admitted' = Admitted
  BY <1>1 DEF Admitted
<1> QED
  BY <1>2, <1>3, PromiseKept

LEMMA InitPromise == Init => Promise!Init
<1> SUFFICES ASSUME Init PROVE Promise!Init
  OBVIOUS
<1>1. StoreInv
  BY InitInv DEF Inv
<1>2. \A p \in Pubs : Req(p) = None
  <2>1. rooms = [r \in {Room} |-> Store!NewRoom("inbox")]
    BY DEF Init
  <2> QED
    BY <2>1 DEF Req, Store!NewRoom, Store!NoRequests
<1>3. \A p \in Pubs : Decision(p) = "none"
  BY <1>1, <1>2, DecisionOf
<1>4. \A a \in Applicants : ~hasKey[a]
  BY ConnsAssumption DEF Init, Conns
<1> QED
  BY <1>3, <1>4 DEF Promise!Init

LEMMA NextPromise == Inv /\ [Next]_vars => [Promise!Next]_(Promise!vars)
<1> SUFFICES ASSUME Inv, [Next]_vars PROVE [Promise!Next]_(Promise!vars)
  OBVIOUS
<1>1. ASSUME NEW c \in Conns, Handler(c) PROVE [Promise!Next]_(Promise!vars)
  <2>1. CASE HandleClaim(c) \/ HandleRequest(c) \/ ForgetRequest(c)
    BY <2>1, ClaimPromise, RequestPromise, ForgetPromise
  <2>2. CASE \E p \in Pubs : Decide(c, p)
    BY <2>2, DecidePromise
  <2>3. CASE \/ SendClaimResult(c) \/ RefuseRequest(c) \/ Register(c) \/ Reply(c)
             \/ IgnoreDecision(c) \/ NotifyApplicant(c) \/ ReadList(c) \/ Broadcast(c)
             \/ HandleDone(c)
    <3>1. UNCHANGED storeVars /\ pubOf' = pubOf /\ hasKey' = hasKey
      BY <2>3 DEF SendClaimResult, RefuseRequest, Register, Reply, IgnoreDecision,
                  NotifyApplicant, ReadList, Broadcast, HandleDone, clientVars
    <3> QED
      BY <3>1, NobodyAdmitted
  <2> QED
    BY <1>1, <2>1, <2>2, <2>3 DEF Handler
<1>2. ASSUME NEW c \in Conns, Browser(c) PROVE [Promise!Next]_(Promise!vars)
  <2>1. CASE ReceiveStatus(c)
    BY <2>1, StatusPromise
  <2>2. CASE \/ ReceiveClaimResult(c) \/ ReceiveList(c)
             \/ \E p \in Pubs, type \in {"join-approve", "join-reject"} : Click(c, p, type)
    <3>1. UNCHANGED storeVars /\ pubOf' = pubOf /\ hasKey' = hasKey
      BY <2>2 DEF ReceiveClaimResult, ReceiveList, Click
    <3> QED
      BY <3>1, NobodyAdmitted
  <2> QED
    BY <1>2, <2>1, <2>2 DEF Browser
<1>3. ASSUME NEW c \in Conns, Connect(c) \/ Disconnect(c) PROVE [Promise!Next]_(Promise!vars)
  <2>1. UNCHANGED storeVars /\ pubOf' = pubOf /\ hasKey' = hasKey
    BY <1>3 DEF Connect, Disconnect, clientVars
  <2> QED
    BY <2>1, NobodyAdmitted
<1>4. CASE ServerRestart \/ \E c \in Conns : Reload(c)
  BY <1>4, RestartPromise, ReloadPromise
<1>5. CASE UNCHANGED vars
  <2>1. UNCHANGED storeVars /\ pubOf' = pubOf /\ hasKey' = hasKey
    BY <1>5 DEF vars, storeVars
  <2> QED
    BY <2>1, NobodyAdmitted
<1> QED
  BY <1>1, <1>2, <1>3, <1>4, <1>5 DEF Next

(* The handlers and the browser implement Admission: every step decides a   *)
(* request once, gives the room key to the applicant of an approved         *)
(* request, forgets an approval that has been received, or is a stutter.    *)
THEOREM KeepsPromiseHolds == Spec => KeepsPromise
  BY Invariance, InitPromise, NextPromise, PTL DEF Spec, KeepsPromise, Promise!Spec
=============================================================================
