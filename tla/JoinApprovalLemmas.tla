-------------------------- MODULE JoinApprovalLemmas --------------------------
(***************************************************************************)
(* The inductive invariant of JoinApproval, and lemmas about the queues,    *)
(* the store and the handlers that the proof of its invariance rests on.    *)
(***************************************************************************)
EXTENDS JoinApproval, SequenceTheorems, TLAPS

-----------------------------------------------------------------------------
(* The store.  Requests do not grow old here, no save fails, and the room   *)
(* is there: what matters of a request is its Decision.                     *)

Req(p) == rooms[Room].requests[p]

StoreInv ==
    /\ rooms \in [{Room} -> Store!Room]
    /\ disk = rooms /\ saveOK = TRUE
    /\ rejectedFor \in [{Room} -> [Pubs -> 0..2 \cup {None}]]
    /\ \A p \in Pubs : Req(p) # None => Req(p).idle = 0

PendingNow == {p \in Pubs : Decision(p) = "pending"}

(* The request is approved, or its applicant has been let in.               *)
Approved(p) ==
    Decision(p) = "approved" \/ \E a \in Applicants : pubOf[a] = p /\ hasKey[a]

-----------------------------------------------------------------------------
(* The inductive invariant, part 1: what is on its way is true.             *)

IsStatus(m) == m.type = "join-status" /\ "error" \notin DOMAIN m

(* A command in todo[c].                                                    *)
HonestCommand(c, m) ==
    /\ m.type = "join-request" => c \in Applicants
    /\ m.type = "join-done" => c \in Applicants /\ m.id = pubOf[c] /\ hasKey[c]
    /\ m.type = "claim" => hasKey[c]

(* An answer in queue[c].                                                   *)
HonestAnswer(c, m) ==
    /\ IsStatus(m) => /\ c \in Applicants /\ m.id = pubOf[c]
                      /\ m.status = "approved" => Approved(m.id)
    /\ m.type = "claim-result" => hasKey[c]

(* What is left of a handler of c.                                          *)
HonestTask(c, t) ==
    /\ t.step \in {"register", "reply"} =>
         /\ c \in Applicants /\ t.id = pubOf[c]
         /\ t.status = "approved" => Approved(t.id)
    /\ t.step = "reply" => reqID[c] = t.id
    /\ t.step = "notify" => /\ t.status # "pending"
                            /\ t.status = "approved" => Approved(t.id)
    /\ t.step = "done" => c \in Applicants /\ t.id = pubOf[c] /\ hasKey[c]
    /\ t.step = "result" => hasKey[c]
    /\ t.step \in {"broadcast", "result"} /\ ~t.late => t.list = PendingNow

HonestAt(c) ==
    /\ c \in Members => hasKey[c]
    /\ reqID[c] # None => c \in Applicants /\ reqID[c] = pubOf[c]
    /\ \A m \in Range(todo[c]) : HonestCommand(c, m)
    /\ \A m \in Range(queue[c]) : HonestAnswer(c, m)
    /\ HonestTask(c, task[c])
    /\ claimed[c] \/ shown[c] # {} => hasKey[c]

(* Nothing is left of a connection that is down.                            *)
OfflineAt(c) ==
    c \notin online =>
      /\ queue[c] = <<>> /\ todo[c] = <<>> /\ task[c] = Idle
      /\ reqID[c] = None /\ claimed[c] = FALSE

Asks(s) == \E m \in Range(s) : m.type = "join-request"

AskOnce(s) == \A i \in 1..Len(s) : s[i].type = "join-request" => i = 1

(* A connection that still has to ask has asked nothing before.             *)
AsksFirstAt(c) ==
    /\ AskOnce(todo[c])
    /\ Asks(todo[c]) => /\ ~hasKey[c] /\ task[c] = Idle /\ reqID[c] = None
                        /\ \A m \in Range(queue[c]) : ~IsStatus(m)

(* The hub takes c for an applicant, or will.                               *)
Joining(c) == reqID[c] # None \/ task[c].step = "register" \/ Asks(todo[c])

ClaimResultIn(s) == \E m \in Range(s) : m.type = "claim-result"

IsDecision(m) == m.type \in {"join-approve", "join-reject"}

Decides(s) == \E m \in Range(s) : IsDecision(m)

ClaimAfterDone(s) ==
    \A i \in 1..Len(s) :
      s[i].type = "claim" => \E j \in 1..(i - 1) : s[j].type = "join-done"

(* Whoever sees cards is a member to the hub: join-done goes before claim.  *)
SeesAsMemberAt(c) ==
    /\ (\/ claimed[c] \/ ClaimResultIn(queue[c]) \/ task[c].step = "result"
        \/ shown[c] # {} \/ Decides(todo[c])) => ~Joining(c)
    /\ Joining(c) => ClaimAfterDone(todo[c])

(* The click on a disabled card is on its way, or spent.                    *)
ClicksArriveAt(c) == clicked[c] \subseteq spent[c] \cup Decisions(todo[c])

Sound(c) ==
    HonestAt(c) /\ OfflineAt(c) /\ AsksFirstAt(c) /\ SeesAsMemberAt(c) /\ ClicksArriveAt(c)

-----------------------------------------------------------------------------
(* Part 2: the applicant.                                                   *)

(* The last thing that a queue s tells an applicant who is shown b is that  *)
(* its request is pending.                                                  *)
PendingLast(s, b) ==
    \/ b = "pending" /\ \A i \in 1..Len(s) : s[i].type # "join-status"
    \/ \E i \in 1..Len(s) :
         /\ IsStatus(s[i]) /\ s[i].status = "pending"
         /\ \A j \in 1..Len(s) : j > i => s[j].type # "join-status"

Notifying(p) == \E x \in Conns : task[x].step = "notify" /\ task[x].id = p

(* Until it has the key, and unless its request was decided in the window   *)
(* between Submit and the reply, an applicant who is told to wait has a     *)
(* pending request or is about to be told the decision.                     *)
WaitsAt(c) ==
    (c \in online /\ ~hasKey[c] /\ ~window[c]) =>
      IF task[c].step \in {"register", "reply"}
        THEN task[c].status = "pending" => Decision(pubOf[c]) = "pending"
        ELSE (PendingLast(queue[c], banner[c]) /\ ~Asks(todo[c])) =>
               /\ reqID[c] = pubOf[c]
               /\ Decision(pubOf[c]) = "pending" \/ Notifying(pubOf[c])

-----------------------------------------------------------------------------
(* Part 3: the members' cards.                                              *)

IsList(m) == m.type \in {"claim-result", "join-requests"}

(* The list that is rendered last of a queue s, d if there is none.         *)
LastLists(s, d) ==
    {s[i].list : i \in {k \in 1..Len(s) :
       IsList(s[k]) /\ \A j \in 1..Len(s) : j > k => ~IsList(s[j])}}
      \cup {x \in {d} : \A i \in 1..Len(s) : ~IsList(s[i])}

(* A handler that will send the list to everybody.                          *)
Tells(t) ==
    \/ t.step \in {"notify", "list", "broadcast"}
    \/ t.step \in {"register", "reply"} /\ t.status = "pending"

(* Members are shown the pending requests, or will be.                      *)
CardsFollowAt(c) ==
    (c \in online /\ (claimed[c] \/ ClaimResultIn(queue[c])) /\ behind[c] = "none") =>
      \/ \E x \in Conns : Tells(task[x])
      \/ LastLists(queue[c], shown[c]) \subseteq {PendingNow}

Inv ==
    /\ TypeOK /\ StoreInv
    /\ \A c \in Conns : Sound(c)
    /\ \A c \in Applicants : WaitsAt(c)
    /\ \A c \in Conns : CardsFollowAt(c)

-----------------------------------------------------------------------------
(* Queues.                                                                  *)

LEMMA AnswersAppend ==
    ASSUME NEW s \in Seq(AnswerType), NEW m \in AnswerType
    PROVE  /\ Append(s, m) \in Seq(AnswerType) /\ Len(s) \in Nat
           /\ Len(Append(s, m)) = Len(s) + 1
           /\ \A i \in 1..Len(s) : Append(s, m)[i] = s[i]
           /\ Append(s, m)[Len(s) + 1] = m
           /\ Range(Append(s, m)) = Range(s) \cup {m}
<1>1. /\ Append(s, m) \in Seq(AnswerType) /\ Len(s) \in Nat
      /\ Len(Append(s, m)) = Len(s) + 1
      /\ \A i \in 1..Len(s) : Append(s, m)[i] = s[i]
      /\ Append(s, m)[Len(s) + 1] = m
  BY AppendProperties, LenProperties
<1>2. DOMAIN s = 1..Len(s) /\ DOMAIN Append(s, m) = 1..(Len(s) + 1)
  BY <1>1, LenProperties
<1>3. Range(Append(s, m)) = Range(s) \cup {m}
  BY <1>1, <1>2 DEF Range
<1> QED
  BY <1>1, <1>3

LEMMA AnswersTail ==
    ASSUME NEW s \in Seq(AnswerType), s # <<>>
    PROVE  /\ Tail(s) \in Seq(AnswerType) /\ Head(s) \in AnswerType
           /\ Len(s) \in Nat \ {0} /\ Len(Tail(s)) = Len(s) - 1
           /\ \A i \in 1..(Len(s) - 1) : Tail(s)[i] = s[i + 1]
           /\ Head(s) = s[1]
           /\ Range(s) = {Head(s)} \cup Range(Tail(s))
<1>1. /\ Tail(s) \in Seq(AnswerType) /\ Head(s) \in AnswerType
      /\ Len(s) \in Nat \ {0} /\ Len(Tail(s)) = Len(s) - 1
      /\ \A i \in 1..(Len(s) - 1) : Tail(s)[i] = s[i + 1]
      /\ Head(s) = s[1]
  BY HeadTailProperties, LenProperties, EmptySeq
<1>2. DOMAIN s = 1..Len(s) /\ DOMAIN Tail(s) = 1..(Len(s) - 1)
  BY <1>1, LenProperties
<1>3. Range(s) = {Head(s)} \cup Range(Tail(s))
  <2> DEFINE t == Tail(s)
             n == Len(s)
             h == Head(s)
  <2>1. /\ n \in Nat \ {0} /\ \A i \in 1..(n - 1) : t[i] = s[i + 1]
        /\ h = s[1] /\ DOMAIN s = 1..n /\ DOMAIN t = 1..(n - 1)
    BY <1>1, <1>2
  <2> HIDE DEF t, n, h
  <2>2. \A i \in 1..n : i # 1 => i - 1 \in 1..(n - 1) /\ t[i - 1] = s[i]
    BY <2>1
  <2>3. \A i \in 1..(n - 1) : i + 1 \in 1..n /\ 1 \in 1..n
    BY <2>1
  <2>4. Range(s) = {s[i] : i \in 1..n} /\ Range(t) = {t[i] : i \in 1..(n - 1)}
    BY <2>1 DEF Range
  <2>5. \A i \in 1..n : s[i] \in {h} \cup Range(t)
    BY <2>1, <2>2, <2>4
  <2>6. \A i \in 1..(n - 1) : t[i] \in Range(s)
    BY <2>1, <2>3, <2>4
  <2>7. h \in Range(s)
    BY <2>1, <2>4
  <2>8. Range(s) = {h} \cup Range(t)
    BY <2>4, <2>5, <2>6, <2>7
  <2> QED
    BY <2>8 DEF t, h
<1> QED
  BY <1>1, <1>3

LEMMA CommandsAppend ==
    ASSUME NEW s \in Seq(CommandType), NEW m \in CommandType
    PROVE  /\ Append(s, m) \in Seq(CommandType) /\ Len(s) \in Nat
           /\ Len(Append(s, m)) = Len(s) + 1
           /\ \A i \in 1..Len(s) : Append(s, m)[i] = s[i]
           /\ Append(s, m)[Len(s) + 1] = m
           /\ Range(Append(s, m)) = Range(s) \cup {m}
<1>1. /\ Append(s, m) \in Seq(CommandType) /\ Len(s) \in Nat
      /\ Len(Append(s, m)) = Len(s) + 1
      /\ \A i \in 1..Len(s) : Append(s, m)[i] = s[i]
      /\ Append(s, m)[Len(s) + 1] = m
  BY AppendProperties, LenProperties
<1>2. DOMAIN s = 1..Len(s) /\ DOMAIN Append(s, m) = 1..(Len(s) + 1)
  BY <1>1, LenProperties
<1>3. Range(Append(s, m)) = Range(s) \cup {m}
  BY <1>1, <1>2 DEF Range
<1> QED
  BY <1>1, <1>3

LEMMA CommandsTail ==
    ASSUME NEW s \in Seq(CommandType), s # <<>>
    PROVE  /\ Tail(s) \in Seq(CommandType) /\ Head(s) \in CommandType
           /\ Len(s) \in Nat \ {0} /\ Len(Tail(s)) = Len(s) - 1
           /\ \A i \in 1..(Len(s) - 1) : Tail(s)[i] = s[i + 1]
           /\ Head(s) = s[1]
           /\ Range(s) = {Head(s)} \cup Range(Tail(s))
<1>1. /\ Tail(s) \in Seq(CommandType) /\ Head(s) \in CommandType
      /\ Len(s) \in Nat \ {0} /\ Len(Tail(s)) = Len(s) - 1
      /\ \A i \in 1..(Len(s) - 1) : Tail(s)[i] = s[i + 1]
      /\ Head(s) = s[1]
  BY HeadTailProperties, LenProperties, EmptySeq
<1>2. DOMAIN s = 1..Len(s) /\ DOMAIN Tail(s) = 1..(Len(s) - 1)
  BY <1>1, LenProperties
<1>3. Range(s) = {Head(s)} \cup Range(Tail(s))
  <2> DEFINE t == Tail(s)
             n == Len(s)
             h == Head(s)
  <2>1. /\ n \in Nat \ {0} /\ \A i \in 1..(n - 1) : t[i] = s[i + 1]
        /\ h = s[1] /\ DOMAIN s = 1..n /\ DOMAIN t = 1..(n - 1)
    BY <1>1, <1>2
  <2> HIDE DEF t, n, h
  <2>2. \A i \in 1..n : i # 1 => i - 1 \in 1..(n - 1) /\ t[i - 1] = s[i]
    BY <2>1
  <2>3. \A i \in 1..(n - 1) : i + 1 \in 1..n /\ 1 \in 1..n
    BY <2>1
  <2>4. Range(s) = {s[i] : i \in 1..n} /\ Range(t) = {t[i] : i \in 1..(n - 1)}
    BY <2>1 DEF Range
  <2>5. \A i \in 1..n : s[i] \in {h} \cup Range(t)
    BY <2>1, <2>2, <2>4
  <2>6. \A i \in 1..(n - 1) : t[i] \in Range(s)
    BY <2>1, <2>3, <2>4
  <2>7. h \in Range(s)
    BY <2>1, <2>4
  <2>8. Range(s) = {h} \cup Range(t)
    BY <2>4, <2>5, <2>6, <2>7
  <2> QED
    BY <2>8 DEF t, h
<1> QED
  BY <1>1, <1>3

(* What an answer that is added says last.                                  *)
LEMMA AddedLast ==
    ASSUME NEW s \in Seq(AnswerType), NEW m \in AnswerType
    PROVE  /\ \A b : m.type # "join-status" =>
                (PendingLast(Append(s, m), b) <=> PendingLast(s, b))
           /\ \A b : m.type = "join-status" /\ ~(IsStatus(m) /\ m.status = "pending")
                => ~PendingLast(Append(s, m), b)
           /\ \A d : LastLists(Append(s, m), d) = IF IsList(m) THEN {m.list} ELSE LastLists(s, d)
           /\ ClaimResultIn(Append(s, m)) <=> ClaimResultIn(s) \/ m.type = "claim-result"
<1> DEFINE t == Append(s, m)
<1>1. /\ t \in Seq(AnswerType) /\ Len(s) \in Nat /\ Len(t) = Len(s) + 1
      /\ \A i \in 1..Len(s) : t[i] = s[i]
      /\ t[Len(s) + 1] = m
      /\ Range(t) = Range(s) \cup {m}
  BY AnswersAppend
<1> HIDE DEF t
<1>2. ASSUME NEW b, m.type # "join-status" PROVE PendingLast(t, b) <=> PendingLast(s, b)
  <2>1. ~IsStatus(m)
    BY <1>2 DEF IsStatus
  <2>2. PendingLast(t, b) => PendingLast(s, b)
    BY <1>1, <1>2, <2>1 DEF PendingLast
  <2>3. PendingLast(s, b) => PendingLast(t, b)
    BY <1>1, <1>2, <2>1 DEF PendingLast
  <2> QED
    BY <2>2, <2>3
<1>3. ASSUME NEW b, m.type = "join-status", ~(IsStatus(m) /\ m.status = "pending")
      PROVE  ~PendingLast(t, b)
  BY <1>1, <1>3 DEF PendingLast
<1>4. ASSUME NEW d, ~IsList(m) PROVE LastLists(t, d) = LastLists(s, d)
  BY <1>1, <1>4 DEF LastLists
<1>5. ASSUME NEW d, IsList(m) PROVE LastLists(t, d) = {m.list}
  BY <1>1, <1>5 DEF LastLists
<1>6. ClaimResultIn(t) <=> ClaimResultIn(s) \/ m.type = "claim-result"
  BY <1>1 DEF ClaimResultIn
<1> QED
  BY <1>2, <1>3, <1>4, <1>5, <1>6 DEF t

(* What remains to be said when the head of a queue is taken.               *)
LEMMA RemainsLast ==
    ASSUME NEW s \in Seq(AnswerType), s # <<>>
    PROVE  /\ \A b : Head(s).type # "join-status" =>
                (PendingLast(Tail(s), b) <=> PendingLast(s, b))
           /\ \A b : IsStatus(Head(s)) =>
                (PendingLast(Tail(s), Head(s).status) => PendingLast(s, b))
           /\ \A b, x : x # "pending" /\ PendingLast(Tail(s), x) => PendingLast(s, b)
           /\ \A d : ~IsList(Head(s)) => LastLists(Tail(s), d) = LastLists(s, d)
           /\ \A d : IsList(Head(s)) => LastLists(Tail(s), Head(s).list) = LastLists(s, d)
           /\ \A d, x : ClaimResultIn(Tail(s)) => LastLists(Tail(s), x) = LastLists(s, d)
           /\ ClaimResultIn(s) <=> ClaimResultIn(Tail(s)) \/ Head(s).type = "claim-result"
<1> DEFINE t == Tail(s)
           m == Head(s)
<1>1. /\ t \in Seq(AnswerType) /\ Len(s) \in Nat \ {0} /\ Len(t) = Len(s) - 1
      /\ \A i \in 1..(Len(s) - 1) : t[i] = s[i + 1]
      /\ m = s[1]
      /\ Range(s) = {m} \cup Range(t)
  BY AnswersTail
<1>2. DOMAIN t = 1..Len(t)
  BY <1>1, LenProperties
<1> HIDE DEF t, m
<1>3. \A i \in 1..Len(s) : i # 1 => i - 1 \in 1..Len(t) /\ t[i - 1] = s[i]
  BY <1>1
<1>4. \A i \in 1..Len(t) : i + 1 \in 1..Len(s) /\ t[i] = s[i + 1]
  BY <1>1
<1>5. ASSUME NEW b, NEW i \in 1..Len(t), IsStatus(t[i]), t[i].status = "pending",
             \A j \in 1..Len(t) : j > i => t[j].type # "join-status"
      PROVE  PendingLast(s, b)
  <2>1. \A j \in 1..Len(s) : j > i + 1 => s[j].type # "join-status"
    BY SMTT(30), <1>1, <1>3, <1>5
  <2> QED
    BY <1>4, <1>5, <2>1 DEF PendingLast
<1>6. ASSUME NEW b, NEW x, x # "pending", PendingLast(t, x) PROVE PendingLast(s, b)
  BY <1>5, <1>6 DEF PendingLast
<1>7. ASSUME NEW b, IsStatus(m), PendingLast(t, m.status) PROVE PendingLast(s, b)
  <2>1. CASE m.status = "pending" /\ \A i \in 1..Len(t) : t[i].type # "join-status"
    <3>1. \A j \in 1..Len(s) : j > 1 => s[j].type # "join-status"
      BY <1>1, <1>3, <2>1
    <3>2. 1 \in 1..Len(s)
      BY <1>1
    <3> QED
      BY <1>1, <1>7, <2>1, <3>1, <3>2 DEF PendingLast
  <2> QED
    BY <1>5, <1>7, <2>1 DEF PendingLast
<1>8. ASSUME NEW b, m.type # "join-status" PROVE PendingLast(t, b) <=> PendingLast(s, b)
  <2>1. ~IsStatus(m)
    BY <1>8 DEF IsStatus
  <2>2. ASSUME PendingLast(t, b) PROVE PendingLast(s, b)
    <3>1. CASE b = "pending" /\ \A i \in 1..Len(t) : t[i].type # "join-status"
      BY <1>1, <1>3, <1>8, <3>1 DEF PendingLast
    <3> QED
      BY <1>5, <2>2, <3>1 DEF PendingLast
  <2>3. ASSUME PendingLast(s, b) PROVE PendingLast(t, b)
    <3>1. CASE b = "pending" /\ \A i \in 1..Len(s) : s[i].type # "join-status"
      BY <1>4, <3>1 DEF PendingLast
    <3>2. ASSUME NEW i \in 1..Len(s), IsStatus(s[i]), s[i].status = "pending",
                 \A j \in 1..Len(s) : j > i => s[j].type # "join-status"
          PROVE  PendingLast(t, b)
      <4>1. i # 1 /\ i - 1 \in 1..Len(t) /\ t[i - 1] = s[i]
        BY <1>1, <1>3, <2>1, <3>2
      <4>2. \A j \in 1..Len(t) : j > i - 1 => t[j].type # "join-status"
        BY <1>4, <3>2, <4>1
      <4> QED
        BY <3>2, <4>1, <4>2 DEF PendingLast
    <3> QED
      BY <2>3, <3>1, <3>2 DEF PendingLast
  <2> QED
    BY <2>2, <2>3
<1> DEFINE K(u) == {k \in 1..Len(u) : IsList(u[k]) /\ \A j \in 1..Len(u) : j > k => ~IsList(u[j])}
           L(u) == {u[k].list : k \in K(u)}
           None_(u) == \A i \in 1..Len(u) : ~IsList(u[i])
<1>9. ASSUME NEW u, NEW x
      PROVE  LastLists(u, x) = L(u) \cup IF None_(u) THEN {x} ELSE {}
  BY DEF LastLists
<1>10. ASSUME NEW k \in K(t) PROVE k + 1 \in K(s) /\ s[k + 1] = t[k]
  BY <1>1, <1>3, <1>4
<1>11. ASSUME NEW k \in K(s), k # 1 PROVE k - 1 \in K(t) /\ t[k - 1] = s[k]
  BY <1>1, <1>3, <1>4, <1>11
<1>12. 1 \in K(s) <=> IsList(m) /\ None_(t)
  <2>1. 1 \in 1..Len(s)
    BY <1>1
  <2>2. ASSUME 1 \in K(s) PROVE IsList(m) /\ None_(t)
    BY <1>1, <1>4, <2>2
  <2>3. ASSUME IsList(m), None_(t) PROVE 1 \in K(s)
    BY <1>1, <1>3, <2>1, <2>3
  <2> QED
    BY <2>2, <2>3
<1>13. None_(s) <=> None_(t) /\ ~IsList(m)
  <2>1. 1 \in 1..Len(s)
    BY <1>1
  <2> QED
    BY <1>1, <1>3, <1>4, <2>1
<1> HIDE DEF K
<1>14. L(t) \subseteq L(s)
  BY <1>10
<1>15. L(s) = L(t) \cup IF IsList(m) /\ None_(t) THEN {m.list} ELSE {}
  <2>1. ASSUME NEW k \in K(s), k # 1 PROVE s[k].list \in L(t)
    BY <1>11, <2>1
  <2>2. 1 \in K(s) => m.list \in L(s)
    BY <1>1
  <2>3. \A x \in L(s) : x \in L(t) \/ (1 \in K(s) /\ x = m.list)
    BY <1>1, <2>1
  <2> HIDE DEF L
  <2> QED
    BY <1>12, <1>14, <2>2, <2>3
<1> HIDE DEF L, None_
<1>16. \A d : ~IsList(m) => LastLists(t, d) = LastLists(s, d)
  BY <1>9, <1>13, <1>15
<1>17. \A d : IsList(m) => LastLists(t, m.list) = LastLists(s, d)
  BY <1>9, <1>13, <1>15
<1>18. \A d, x : ClaimResultIn(t) => LastLists(t, x) = LastLists(s, d)
  <2>1. ClaimResultIn(t) => ~None_(t)
    BY <1>2 DEF ClaimResultIn, Range, None_, IsList
  <2> QED
    BY <1>9, <1>13, <1>15, <2>1
<1>19. ClaimResultIn(s) <=> ClaimResultIn(t) \/ m.type = "claim-result"
  BY <1>1 DEF ClaimResultIn
<1> QED
  BY <1>6, <1>7, <1>8, <1>16, <1>17, <1>18, <1>19 DEF t, m

LEMMA CommandAdded ==
    ASSUME NEW s \in Seq(CommandType), NEW m \in CommandType
    PROVE  /\ Asks(Append(s, m)) <=> Asks(s) \/ m.type = "join-request"
           /\ AskOnce(s) /\ m.type # "join-request" => AskOnce(Append(s, m))
           /\ Decisions(Append(s, m)) = Decisions(s) \cup IF IsDecision(m) THEN {m.id} ELSE {}
           /\ Decides(Append(s, m)) <=> Decides(s) \/ IsDecision(m)
           /\ ClaimAfterDone(s) /\ (m.type = "claim" => \E x \in Range(s) : x.type = "join-done")
                => ClaimAfterDone(Append(s, m))
<1> DEFINE t == Append(s, m)
           n == Len(s)
<1>1. /\ n \in Nat /\ Len(t) = n + 1
      /\ \A i \in 1..n : t[i] = s[i]
      /\ t[n + 1] = m
      /\ Range(t) = Range(s) \cup {m}
      /\ DOMAIN s = 1..n
  BY CommandsAppend, LenProperties
<1>2. DOMAIN t = 1..(n + 1)
  BY <1>1, CommandsAppend, LenProperties
<1> HIDE DEF t
<1>3. Asks(t) <=> Asks(s) \/ m.type = "join-request"
  BY <1>1 DEF Asks
<1>4. ASSUME AskOnce(s), m.type # "join-request" PROVE AskOnce(t)
  BY <1>1, <1>4 DEF AskOnce
<1>5. Decisions(t) = Decisions(s) \cup IF IsDecision(m) THEN {m.id} ELSE {}
  <2>1. Decisions(s) = {s[i].id : i \in {j \in 1..n : IsDecision(s[j])}}
    BY <1>1 DEF Decisions, IsDecision
  <2>2. Decisions(t) = {t[i].id : i \in {j \in 1..(n + 1) : IsDecision(t[j])}}
    BY <1>2 DEF Decisions, IsDecision
  <2> HIDE DEF n
  <2>3. \A i \in 1..(n + 1) : i \in 1..n \/ i = n + 1
    BY <1>1
  <2>4. \A i \in 1..n : i \in 1..(n + 1)
    BY <1>1
  <2>5. n + 1 \in 1..(n + 1)
    BY <1>1
  <2> QED
    BY <1>1, <2>1, <2>2, <2>3, <2>4, <2>5
<1>7. Decides(t) <=> Decides(s) \/ IsDecision(m)
  BY <1>1 DEF Decides
<1>6. ASSUME ClaimAfterDone(s), m.type = "claim" => \E x \in Range(s) : x.type = "join-done"
      PROVE  ClaimAfterDone(t)
  <2>1. ASSUME NEW i \in 1..n, t[i].type = "claim"
        PROVE  \E j \in 1..(i - 1) : t[j].type = "join-done"
    BY <1>1, <1>6, <2>1 DEF ClaimAfterDone
  <2>2. ASSUME m.type = "claim" PROVE \E j \in 1..n : t[j].type = "join-done"
    BY <1>1, <1>6, <2>2 DEF Range
  <2> QED
    BY <1>1, <2>1, <2>2 DEF ClaimAfterDone
<1> QED
  BY <1>3, <1>4, <1>5, <1>6, <1>7 DEF t

LEMMA CommandTaken ==
    ASSUME NEW s \in Seq(CommandType), s # <<>>
    PROVE  /\ Asks(s) <=> Asks(Tail(s)) \/ Head(s).type = "join-request"
           /\ AskOnce(s) => ~Asks(Tail(s)) /\ AskOnce(Tail(s))
           /\ Decisions(s) = Decisions(Tail(s))
                               \cup IF IsDecision(Head(s)) THEN {Head(s).id} ELSE {}
           /\ Decides(s) <=> Decides(Tail(s)) \/ IsDecision(Head(s))
           /\ ClaimAfterDone(s) => Head(s).type # "claim"
           /\ ClaimAfterDone(s) /\ Head(s).type # "join-done" => ClaimAfterDone(Tail(s))
<1> DEFINE t == Tail(s)
           m == Head(s)
           n == Len(s)
<1>1. /\ n \in Nat \ {0} /\ Len(t) = n - 1
      /\ \A i \in 1..(n - 1) : t[i] = s[i + 1]
      /\ m = s[1]
      /\ Range(s) = {m} \cup Range(t)
      /\ DOMAIN s = 1..n
  BY CommandsTail, LenProperties
<1>2. DOMAIN t = 1..(n - 1)
  BY <1>1, CommandsTail, LenProperties
<1> HIDE DEF t, m, n
<1>3. \A i \in 1..n : i # 1 => i - 1 \in 1..(n - 1) /\ t[i - 1] = s[i]
  BY <1>1
<1>4. \A i \in 1..(n - 1) : i + 1 \in 1..n /\ i + 1 # 1 /\ t[i] = s[i + 1]
  BY <1>1
<1>5. 1 \in 1..n
  BY <1>1
<1>6. Asks(s) <=> Asks(t) \/ m.type = "join-request"
  BY <1>1 DEF Asks
<1>7. ASSUME AskOnce(s) PROVE ~Asks(t) /\ AskOnce(t)
  <2>1. \A i \in 1..(n - 1) : t[i].type # "join-request"
    BY <1>4, <1>7 DEF AskOnce, n
  <2> QED
    BY <1>1, <1>2, <2>1 DEF Asks, AskOnce, Range
<1>8. Decisions(s) = Decisions(t) \cup IF IsDecision(m) THEN {m.id} ELSE {}
  <2>1. Decisions(s) = {s[i].id : i \in {j \in 1..n : IsDecision(s[j])}}
    BY <1>1 DEF Decisions, IsDecision
  <2>2. Decisions(t) = {t[i].id : i \in {j \in 1..(n - 1) : IsDecision(t[j])}}
    BY <1>2 DEF Decisions, IsDecision
  <2>3. \A x \in Decisions(s) : x \in Decisions(t) \/ (IsDecision(m) /\ x = m.id)
    BY <1>1, <1>3, <2>1, <2>2
  <2>4. Decisions(t) \subseteq Decisions(s)
    BY <1>4, <2>1, <2>2
  <2>5. IsDecision(m) => m.id \in Decisions(s)
    BY <1>1, <1>5, <2>1
  <2> QED
    BY <2>3, <2>4, <2>5
<1>9. ASSUME ClaimAfterDone(s) PROVE m.type # "claim"
  BY <1>1, <1>5, <1>9 DEF ClaimAfterDone, n
<1>10. ASSUME ClaimAfterDone(s), m.type # "join-done" PROVE ClaimAfterDone(t)
  <2> SUFFICES ASSUME NEW i \in 1..(n - 1), t[i].type = "claim"
               PROVE  \E j \in 1..(i - 1) : t[j].type = "join-done"
    BY <1>1 DEF ClaimAfterDone
  <2>1. PICK j \in 1..i : s[j].type = "join-done"
    BY SMTT(30), <1>1, <1>4, <1>10 DEF ClaimAfterDone, n
  <2>2. j # 1 /\ j \in 1..n
    BY <1>1, <1>10, <2>1
  <2>3. j - 1 \in 1..(i - 1) /\ t[j - 1] = s[j]
    BY <1>1, <1>3, <2>1, <2>2
  <2> QED
    BY <2>1, <2>3
<1>11. Decides(s) <=> Decides(t) \/ IsDecision(m)
  BY <1>1 DEF Decides
<1> QED
  BY <1>6, <1>7, <1>8, <1>9, <1>10, <1>11 DEF t, m

-----------------------------------------------------------------------------
(* The operations of the store.                                             *)

LEMMA StoreRequest ==
    ASSUME StoreInv, NEW p \in Pubs
    PROVE  /\ rooms[Room] \in Store!Room /\ rooms[Room] # None
           /\ Req(p) \in Store!Request \cup {None}
           /\ Store!HasRequest(Room, p) <=> Req(p) # None
           /\ Req(p) # None => Req(p).idle = 0 /\ Req(p).status \in Store!Status
           /\ Store!IsLive(Room, p) <=> Req(p) # None
           /\ Decision(p) = IF Req(p) # None THEN Req(p).status ELSE "none"
           /\ Store!IsPending(Room, p) <=> Decision(p) = "pending"
           /\ Store!DecideOK(Room, p) <=> Decision(p) = "pending"
           /\ Store!DoneOK(Room, p) <=> Decision(p) = "approved"
<1>1. rooms[Room] \in Store!Room /\ rooms[Room] # None
  BY NoneAssumption DEF StoreInv
<1>2. Req(p) \in Store!Request \cup {None}
  BY <1>1 DEF Req, Store!Room
<1>3. Store!HasRequest(Room, p) <=> Req(p) # None
  BY <1>1 DEF Store!HasRequest, Store!Exists, Req
<1>4. Req(p) # None => Req(p).idle = 0 /\ Req(p).status \in Store!Status
  BY <1>2 DEF StoreInv, Store!Request
<1>5. Req(p) # None => ~Store!IsExpired(Req(p))
  BY <1>4 DEF Store!IsExpired, Store!Lifetime
<1>6. Store!IsLive(Room, p) <=> Req(p) # None
  BY <1>3, <1>5 DEF Store!IsLive, Req
<1>7. Decision(p) = IF Req(p) # None THEN Req(p).status ELSE "none"
  BY <1>3 DEF Decision, StatusOf, Req
<1>8. Store!IsPending(Room, p) <=> Decision(p) = "pending"
  BY <1>3, <1>7 DEF Store!IsPending, Req
<1>9. Store!DoneOK(Room, p) <=> Decision(p) = "approved"
  BY <1>3, <1>7 DEF Store!DoneOK, Req
<1> QED
  BY <1>1, <1>2, <1>3, <1>4, <1>6, <1>7, <1>8, <1>9 DEF Store!DecideOK

LEMMA StorePending == StoreInv => Store!Pending(Room) = PendingNow
<1> SUFFICES ASSUME StoreInv PROVE Store!Pending(Room) = PendingNow
  OBVIOUS
<1>1. \A p \in Pubs : Store!IsPending(Room, p) /\ Store!IsLive(Room, p) <=> Decision(p) = "pending"
  BY StoreRequest
<1> QED
  BY <1>1 DEF Store!Pending, PendingNow

LEMMA StoreTyped == StoreInv => Store!TypeOK
BY DEF StoreInv, Store!TypeOK, Store!Rooms

LEMMA DecisionOf ==
    StoreInv => \A o \in Pubs :
      Decision(o) = IF Req(o) # None THEN Req(o).status ELSE "none"
BY StoreRequest

LEMMA DecisionNext ==
    StoreInv' => \A o \in Pubs :
      Decision(o)' = IF Req(o)' # None THEN Req(o)'.status ELSE "none"
<1>1. (StoreInv => \A o \in Pubs :
         Decision(o) = IF Req(o) # None THEN Req(o).status ELSE "none")'
  BY DecisionOf, PTL
<1> QED
  BY <1>1

(* An operation on one request changes the Decision of that request only.   *)
LEMMA StoreSet ==
    ASSUME StoreInv, NEW p \in Pubs, NEW q \in Store!Request \cup {None},
           q # None => q.idle = 0, Store!SetRequest(Room, p, q),
           rejectedFor' \in [{Room} -> [Pubs -> 0..2 \cup {None}]]
    PROVE  /\ StoreInv'
           /\ Decision(p)' = IF q # None THEN q.status ELSE "none"
           /\ \A o \in Pubs \ {p} : Decision(o)' = Decision(o)
           /\ q # None => StatusOf(p)' = Decision(p)'
<1> DEFINE s == rooms[Room]
           x == [s EXCEPT !.requests[p] = q]
<1>1. s \in Store!Room
  BY DEF StoreInv
<1>2. x = [idle |-> s.idle, inbox |-> s.inbox, requests |-> [s.requests EXCEPT ![p] = q]]
  BY <1>1 DEF Store!Room
<1>3. s.requests \in [Pubs -> Store!Request \cup {None}]
  BY <1>1 DEF Store!Room
<1>4. x \in Store!Room
  BY <1>1, <1>2 DEF Store!Room
<1>5. x.requests = [s.requests EXCEPT ![p] = q]
  BY <1>2
<1>6. rooms' = [rooms EXCEPT ![Room] = x] /\ disk' = rooms' /\ saveOK' = TRUE
  BY DEF Store!SetRequest, Store!Commit, Store!Save, Store!WithRequest, StoreInv
<1> HIDE DEF x
<1>7. rooms' \in [{Room} -> Store!Room] /\ rooms'[Room] = x
  BY <1>4, <1>6 DEF StoreInv
<1>8. \A o \in Pubs : Req(o)' = IF o = p THEN q ELSE Req(o)
  BY <1>3, <1>5, <1>7 DEF Req
<1>9. StoreInv'
  BY <1>6, <1>7, <1>8 DEF StoreInv
<1>10. \A o \in Pubs : Decision(o) = IF Req(o) # None THEN Req(o).status ELSE "none"
  BY DecisionOf
<1>11. \A o \in Pubs : Decision(o)' = IF Req(o)' # None THEN Req(o)'.status ELSE "none"
  BY <1>9, DecisionNext
<1>12. StatusOf(p)' = Req(p)'.status
  BY DEF StatusOf, Req
<1> QED
  BY <1>8, <1>9, <1>10, <1>11, <1>12

LEMMA SubmitStore ==
    ASSUME StoreInv, NEW p \in Pubs, Store!Submit(Room, p)
    PROVE  /\ StoreInv'
           /\ Decision(p)' = IF Decision(p) = "none" THEN "pending" ELSE Decision(p)
           /\ \A o \in Pubs \ {p} : Decision(o)' = Decision(o)
           /\ StatusOf(p)' = Decision(p)'
<1> DEFINE q == IF Store!IsLive(Room, p) THEN Store!Refreshed(rooms[Room].requests[p])
                                         ELSE Store!NewRequest
<1>1. Store!SetRequest(Room, p, q) /\ rejectedFor' = rejectedFor
  BY DEF Store!Submit
<1>2. Store!NewRequest \in Store!Request
  <2>1. <<>> \in Seq({}) /\ Len(<<>>) <= 1
    BY EmptySeq
  <2> QED
    BY <2>1 DEF Store!NewRequest, Store!Request, Store!Status, Store!MaxIdle
<1>3. Req(p) # None => Store!Refreshed(Req(p)) \in Store!Request
                       /\ Store!Refreshed(Req(p)).idle = 0
                       /\ Store!Refreshed(Req(p)).status = Req(p).status
  BY StoreRequest DEF Store!Refreshed, Store!Request, Store!MaxIdle
<1>4. /\ q \in Store!Request /\ q.idle = 0
      /\ q.status = IF Decision(p) = "none" THEN "pending" ELSE Decision(p)
  <2>1. CASE Req(p) # None
    <3>1. q = Store!Refreshed(Req(p))
      BY <2>1, StoreRequest DEF Req
    <3>2. Decision(p) = Req(p).status /\ Decision(p) # "none"
      BY <2>1, StoreRequest DEF Store!Status
    <3> QED
      BY <1>3, <2>1, <3>1, <3>2
  <2>2. CASE Req(p) = None
    <3>1. q = Store!NewRequest /\ Decision(p) = "none"
      BY <2>2, StoreRequest
    <3> QED
      BY <1>2, <3>1 DEF Store!NewRequest
  <2> QED
    BY <2>1, <2>2
<1>5. q # None
  BY <1>4, NoneAssumption
<1>6. rejectedFor' \in [{Room} -> [Pubs -> 0..2 \cup {None}]]
  BY <1>1 DEF StoreInv
<1> HIDE DEF q
<1>7. /\ StoreInv' /\ Decision(p)' = q.status
      /\ \A o \in Pubs \ {p} : Decision(o)' = Decision(o)
      /\ StatusOf(p)' = Decision(p)'
  BY <1>1, <1>4, <1>5, <1>6, StoreSet
<1> QED
  BY <1>4, <1>7

(* Approve and Reject.                                                      *)
DecidesAs(p, status) ==
    \/ status = "approved" /\ Store!Approve(Room, p, "wrap")
    \/ status = "rejected" /\ Store!Reject(Room, p)

LEMMA DecideStore ==
    ASSUME StoreInv, NEW p \in Pubs, NEW status, DecidesAs(p, status)
    PROVE  /\ StoreInv'
           /\ Decision(p) = "pending" /\ Decision(p)' = status
           /\ status \in {"approved", "rejected"}
           /\ \A o \in Pubs \ {p} : Decision(o)' = Decision(o)
           /\ StatusOf(p)' = status
<1> DEFINE wrap == IF status = "approved" THEN "wrap" ELSE Req(p).wrap
           q == Store!Decided(Req(p), status, wrap)
<1>1. /\ status \in {"approved", "rejected"}
      /\ Store!DecideOK(Room, p)
      /\ Store!SetRequest(Room, p, q)
  BY DEF DecidesAs, Store!Approve, Store!Reject, Req
<1>2. rejectedFor' \in [{Room} -> [Pubs -> 0..2 \cup {None}]]
  <2>1. CASE rejectedFor' = rejectedFor
    BY <2>1 DEF StoreInv
  <2>2. CASE rejectedFor' = [rejectedFor EXCEPT ![Room][p] = 0]
    BY <2>2 DEF StoreInv
  <2> QED
    BY <2>1, <2>2 DEF DecidesAs, Store!Approve, Store!Reject
<1>3. Decision(p) = "pending" /\ Req(p) \in Store!Request
  BY <1>1, StoreRequest
<1>4. q \in Store!Request /\ q.idle = 0 /\ q.status = status
  BY <1>1, <1>3 DEF Store!Decided, Store!Request, Store!Status, Store!MaxIdle
<1>5. q # None
  BY <1>4, NoneAssumption
<1> HIDE DEF q
<1> QED
  BY <1>1, <1>2, <1>3, <1>4, <1>5, StoreSet

LEMMA DoneStore ==
    ASSUME StoreInv, NEW p \in Pubs, Store!Done(Room, p)
    PROVE  /\ StoreInv'
           /\ Decision(p) = "approved" /\ Decision(p)' = "none"
           /\ \A o \in Pubs \ {p} : Decision(o)' = Decision(o)
<1>1. /\ Store!DoneOK(Room, p) /\ Store!SetRequest(Room, p, None)
      /\ rejectedFor' = rejectedFor
  BY DEF Store!Done
<1>2. Decision(p) = "approved"
  BY <1>1, StoreRequest
<1> QED
  BY <1>1, <1>2, StoreSet DEF StoreInv

(* The requests stay as they are.                                           *)
LEMMA SameStore ==
    ASSUME StoreInv, disk' = rooms', saveOK' = TRUE, rejectedFor' = rejectedFor,
           rooms' \in [{Room} -> Store!Room],
           rooms'[Room].requests = rooms[Room].requests
    PROVE  StoreInv' /\ \A p \in Pubs : Decision(p)' = Decision(p)
<1>1. \A p \in Pubs : Req(p)' = Req(p)
  BY DEF Req
<1>2. StoreInv'
  BY <1>1 DEF StoreInv
<1>3. \A o \in Pubs : Decision(o) = IF Req(o) # None THEN Req(o).status ELSE "none"
  BY DecisionOf
<1> QED
  BY <1>1, <1>2, <1>3, DecisionNext

LEMMA ClaimStore ==
    ASSUME StoreInv, Store!Claim(Room, FALSE, "inbox")
    PROVE  StoreInv' /\ \A p \in Pubs : Decision(p)' = Decision(p)
<1> DEFINE x == Store!Reclaimed(rooms[Room], "inbox")
<1>1. rooms[Room] \in Store!Room /\ Store!Exists(Room)
  BY NoneAssumption DEF StoreInv, Store!Exists
<1>2. /\ rooms' = [rooms EXCEPT ![Room] = x]
      /\ disk' = rooms' /\ saveOK' = TRUE /\ rejectedFor' = rejectedFor
  BY <1>1 DEF Store!Claim, Store!Commit, Store!Save
<1>3. x \in Store!Room /\ x.requests = rooms[Room].requests
  BY <1>1 DEF Store!Reclaimed, Store!Room
<1> HIDE DEF x
<1>4. rooms' \in [{Room} -> Store!Room] /\ rooms'[Room] = x
  BY <1>2, <1>3 DEF StoreInv
<1> QED
  BY <1>2, <1>3, <1>4, SameStore

LEMMA RestartStore ==
    ASSUME StoreInv, Store!Restart
    PROVE  StoreInv' /\ \A p \in Pubs : Decision(p)' = Decision(p)
BY SameStore DEF StoreInv, Store!Restart

LEMMA UnchangedStore ==
    ASSUME StoreInv, UNCHANGED storeVars
    PROVE  StoreInv' /\ \A p \in Pubs : Decision(p)' = Decision(p)
BY SameStore DEF StoreInv, storeVars

-----------------------------------------------------------------------------
(* What a handler can be about to do, and what may be on its way.           *)

LEMMA TaskTypes ==
    ASSUME NEW t \in TaskType
    PROVE  /\ t.step \in {"idle", "list", "register", "reply", "notify", "done",
                          "broadcast", "result"}
           /\ t = Idle <=> t.step = "idle"
           /\ t.step \in {"register", "reply", "notify"} =>
                t.id \in Pubs /\ t.status \in Store!Status
           /\ t.step = "register" => [t EXCEPT !.step = "reply"] \in TaskType
           /\ t.step = "register" => /\ [t EXCEPT !.step = "reply"].step = "reply"
                                     /\ [t EXCEPT !.step = "reply"].id = t.id
                                     /\ [t EXCEPT !.step = "reply"].status = t.status
           /\ t.step = "done" => t.id \in Pubs
           /\ t.step \in {"broadcast", "result"} =>
                t.list \in SUBSET Pubs /\ t.late \in BOOLEAN
BY DEF TaskType, Idle

LEMMA OvertakenTask ==
    ASSUME NEW t \in TaskType
    PROVE  /\ Overtaken(t) \in TaskType
           /\ Overtaken(t).step = t.step
           /\ t.step \in {"broadcast", "result"} =>
                Overtaken(t).late = TRUE /\ Overtaken(t).list = t.list
           /\ t.step \notin {"broadcast", "result"} => Overtaken(t) = t
<1>1. CASE t.step \in {"broadcast", "result"}
  <2>1. t \in [step : {"broadcast", "result"}, list : SUBSET Pubs, late : BOOLEAN]
    BY <1>1 DEF TaskType, Idle
  <2>2. Overtaken(t) = [t EXCEPT !.late = TRUE]
    BY <1>1 DEF Overtaken
  <2>3. [t EXCEPT !.late = TRUE] \in
          [step : {"broadcast", "result"}, list : SUBSET Pubs, late : BOOLEAN]
    BY <2>1
  <2>4. /\ [t EXCEPT !.late = TRUE].late = TRUE /\ [t EXCEPT !.late = TRUE].list = t.list
        /\ [t EXCEPT !.late = TRUE].step = t.step
    BY <2>1
  <2>5. [t EXCEPT !.late = TRUE] \in TaskType
    BY <2>3 DEF TaskType
  <2> QED
    BY <1>1, <2>2, <2>4, <2>5
<1>2. CASE t.step \notin {"broadcast", "result"}
  BY <1>2 DEF Overtaken
<1> QED
  BY <1>1, <1>2

LEMMA NewTasks ==
    ASSUME NEW p \in Pubs, NEW status \in Store!Status, NEW list \in SUBSET Pubs
    PROVE  /\ Idle \in TaskType /\ [step |-> "list"] \in TaskType
           /\ [step |-> "register", id |-> p, status |-> status] \in TaskType
           /\ [step |-> "notify", id |-> p, status |-> status] \in TaskType
           /\ [step |-> "done", id |-> p] \in TaskType
           /\ [step |-> "broadcast", list |-> list, late |-> FALSE] \in TaskType
           /\ [step |-> "result", list |-> list, late |-> FALSE] \in TaskType
BY DEF TaskType

LEMMA CommandTypes ==
    ASSUME NEW m \in CommandType
    PROVE  /\ m.type \in {"claim", "join-request", "join-approve", "join-reject", "join-done"}
           /\ m.type \in {"join-approve", "join-reject", "join-done"} => m.id \in Pubs
BY DEF CommandType

LEMMA AnswerTypes ==
    ASSUME NEW m \in AnswerType
    PROVE  /\ m.type \in {"claim-result", "join-requests", "join-status"}
           /\ IsList(m) <=> m.type # "join-status"
           /\ IsList(m) => m.list \in SUBSET Pubs
           /\ IsStatus(m) => m.id \in Pubs /\ m.status \in Store!Status
BY DEF AnswerType, IsList, IsStatus

LEMMA NewCommands ==
    ASSUME NEW p \in Pubs
    PROVE  /\ [type |-> "claim"] \in CommandType /\ [type |-> "join-request"] \in CommandType
           /\ [type |-> "join-done", id |-> p] \in CommandType
           /\ [type |-> "join-approve", id |-> p] \in CommandType
           /\ [type |-> "join-reject", id |-> p] \in CommandType
BY DEF CommandType

LEMMA NewAnswers ==
    ASSUME NEW p \in Pubs, NEW status \in Store!Status, NEW list \in SUBSET Pubs
    PROVE  /\ [type |-> "claim-result", list |-> list] \in AnswerType
           /\ [type |-> "join-requests", list |-> list] \in AnswerType
           /\ [type |-> "join-status", id |-> p, status |-> status] \in AnswerType
           /\ [type |-> "join-status", error |-> "too many pending requests"] \in AnswerType
           /\ IsStatus([type |-> "join-status", id |-> p, status |-> status])
           /\ ~IsStatus([type |-> "join-status", error |-> "too many pending requests"])
BY DEF AnswerType, IsStatus

LEMMA DecisionIDs ==
    ASSUME NEW s \in Seq(CommandType)
    PROVE  Decisions(s) \in SUBSET Pubs
<1>1. DOMAIN s = 1..Len(s) /\ \A i \in 1..Len(s) : s[i] \in CommandType
  BY LenProperties
<1>2. \A i \in DOMAIN s : IsDecision(s[i]) => s[i].id \in Pubs
  BY <1>1, CommandTypes DEF IsDecision
<1> QED
  BY <1>2 DEF Decisions, IsDecision

(* What the browser answers to a status is nothing or join-done and claim.  *)
LEMMA AnswerAppended ==
    ASSUME NEW s \in Seq(CommandType), NEW m, m.id \in Pubs
    PROVE  s \o Answer(m) =
             IF m.status = "approved"
               THEN Append(Append(s, [type |-> "join-done", id |-> m.id]), [type |-> "claim"])
               ELSE s
<1>1. CASE m.status = "approved"
  <2> DEFINE a == [type |-> "join-done", id |-> m.id]
             b == [type |-> "claim"]
  <2>1. a \in CommandType /\ b \in CommandType
    BY NewCommands
  <2>2. Answer(m) = <<a, b>>
    BY <1>1 DEF Answer
  <2> HIDE DEF a, b
  <2>3. <<a, b>> \in Seq(CommandType) /\ Len(<<a, b>>) = 2 /\ <<a, b>>[1] = a /\ <<a, b>>[2] = b
    BY <2>1
  <2>4. /\ s \o <<a, b>> \in Seq(CommandType)
        /\ Len(s \o <<a, b>>) = Len(s) + 2
        /\ \A i \in 1..(Len(s) + 2) : (s \o <<a, b>>)[i] =
             IF i <= Len(s) THEN s[i] ELSE <<a, b>>[i - Len(s)]
    BY <2>3, ConcatProperties
  <2> DEFINE u == Append(s, a)
             v == Append(u, b)
  <2>5. /\ u \in Seq(CommandType) /\ Len(s) \in Nat /\ Len(u) = Len(s) + 1
        /\ \A i \in 1..Len(s) : u[i] = s[i]
        /\ u[Len(s) + 1] = a
    BY <2>1, CommandsAppend
  <2> HIDE DEF u
  <2>6. /\ v \in Seq(CommandType) /\ Len(v) = Len(u) + 1
        /\ \A i \in 1..Len(u) : v[i] = u[i]
        /\ v[Len(u) + 1] = b
    BY <2>1, <2>5, CommandsAppend
  <2> DEFINE w == s \o <<a, b>>
  <2> HIDE DEF v, w
  <2>7. w \in Seq(CommandType) /\ Len(w) = Len(v)
    BY <2>4, <2>5, <2>6 DEF w
  <2>8. \A i \in 1..Len(w) : w[i] = v[i]
    <3> TAKE i \in 1..Len(w)
    <3>1. CASE i \in 1..Len(s)
      BY SMTT(30), <2>4, <2>5, <2>6, <3>1 DEF w
    <3>2. CASE i = Len(s) + 1
      BY <2>3, <2>4, <2>5, <2>6, <3>2 DEF w
    <3>3. CASE i = Len(s) + 2
      BY <2>3, <2>4, <2>5, <2>6, <3>3 DEF w
    <3> QED
      BY <2>5, <2>6, <2>7, <3>1, <3>2, <3>3
  <2>9. w = v
    BY <2>6, <2>7, <2>8, SeqEqual
  <2> QED
    BY <1>1, <2>2, <2>9 DEF a, b, u, v, w
<1>2. CASE m.status # "approved"
  BY <1>2, ConcatEmptySeq DEF Answer
<1> QED
  BY <1>1, <1>2

-----------------------------------------------------------------------------
(* The pieces actions are made of.                                          *)

LEMMA Begun ==
    ASSUME TypeOK, NEW c \in Conns, NEW type, Begins(c, type)
    PROVE  /\ c \in online /\ task[c] = Idle /\ todo[c] # <<>>
           /\ todo[c] \in Seq(CommandType)
           /\ Head(todo[c]) \in CommandType /\ Head(todo[c]) \in Range(todo[c])
           /\ Range(Tail(todo[c])) \subseteq Range(todo[c])
           /\ Head(todo[c]).type = type
           /\ todo' \in [Conns -> Seq(CommandType)]
           /\ todo'[c] = Tail(todo[c])
           /\ \A x \in Conns \ {c} : todo'[x] = todo[x]
<1> DEFINE s == todo[c]
<1>1. s \in Seq(CommandType) /\ todo \in [Conns -> Seq(CommandType)]
  BY DEF TypeOK
<1>2. /\ c \in online /\ task[c] = Idle /\ s # <<>> /\ Head(s).type = type
      /\ todo' = [todo EXCEPT ![c] = Tail(s)]
  BY DEF Begins
<1> HIDE DEF s
<1>3. /\ Tail(s) \in Seq(CommandType) /\ Head(s) \in CommandType
      /\ Range(s) = {Head(s)} \cup Range(Tail(s))
  BY <1>1, <1>2, CommandsTail
<1> QED
  BY <1>1, <1>2, <1>3 DEF s

LEMMA Received ==
    ASSUME TypeOK, NEW c \in Conns, NEW type, Receives(c, type)
    PROVE  /\ c \in online /\ queue[c] # <<>> /\ queue[c] \in Seq(AnswerType)
           /\ Head(queue[c]) \in AnswerType /\ Head(queue[c]) \in Range(queue[c])
           /\ Range(Tail(queue[c])) \subseteq Range(queue[c])
           /\ Head(queue[c]).type = type
           /\ queue' \in [Conns -> Seq(AnswerType)]
           /\ queue'[c] = Tail(queue[c])
           /\ \A x \in Conns \ {c} : queue'[x] = queue[x]
<1> DEFINE s == queue[c]
<1>1. s \in Seq(AnswerType) /\ queue \in [Conns -> Seq(AnswerType)]
  BY DEF TypeOK
<1>2. /\ c \in online /\ s # <<>> /\ Head(s).type = type
      /\ queue' = [queue EXCEPT ![c] = Tail(s)]
  BY DEF Receives
<1> HIDE DEF s
<1>3. /\ Tail(s) \in Seq(AnswerType) /\ Head(s) \in AnswerType
      /\ Range(s) = {Head(s)} \cup Range(Tail(s))
  BY <1>1, <1>2, AnswersTail
<1> QED
  BY <1>1, <1>2, <1>3 DEF s

LEMMA Sent ==
    ASSUME TypeOK, NEW cs, NEW m \in AnswerType, SendTo(cs, m)
    PROVE  /\ queue' \in [Conns -> Seq(AnswerType)]
           /\ \A x \in Conns : x \in cs =>
                /\ queue'[x] = Append(queue[x], m)
                /\ Range(queue'[x]) = Range(queue[x]) \cup {m}
           /\ \A x \in Conns : x \notin cs => queue'[x] = queue[x]
<1>1. queue \in [Conns -> Seq(AnswerType)]
  BY DEF TypeOK
<1>2. queue' = [x \in Conns |-> IF x \in cs THEN Append(queue[x], m) ELSE queue[x]]
  BY DEF SendTo
<1>3. \A x \in Conns : /\ Append(queue[x], m) \in Seq(AnswerType)
                        /\ Range(Append(queue[x], m)) = Range(queue[x]) \cup {m}
  BY <1>1, AnswersAppend
<1> QED
  BY <1>1, <1>2, <1>3

(* Another connection's handler stays where it is; a list it has read is    *)
(* marked late when the pending requests change.                            *)
Kept(x) ==
    \/ task'[x] = task[x] /\ PendingNow' = PendingNow
    \/ task'[x] = Overtaken(task[x])

LEMMA Went ==
    ASSUME TypeOK, NEW c \in Conns, NEW t \in TaskType, GoTo(c, t)
    PROVE  /\ task' \in [Conns -> TaskType] /\ task'[c] = t
           /\ \A x \in Conns \ {c} : task'[x] = task[x]
BY DEF TypeOK, GoTo

LEMMA WentOvertaking ==
    ASSUME TypeOK, StoreInv, StoreInv', NEW c \in Conns, NEW t \in TaskType,
           GoToAndOvertake(c, t)
    PROVE  /\ task' \in [Conns -> TaskType] /\ task'[c] = t
           /\ \A x \in Conns \ {c} : Kept(x)
<1>1. Store!Pending(Room) = PendingNow
  BY StorePending
<1>2. (StoreInv => Store!Pending(Room) = PendingNow)'
  BY StorePending, PTL
<1>3. Store!Pending(Room)' = PendingNow'
  BY <1>2
<1>4. task' = [x \in Conns |-> IF x = c THEN t
                               ELSE IF PendingNow' = PendingNow
                                 THEN task[x] ELSE Overtaken(task[x])]
  BY <1>1, <1>3 DEF GoToAndOvertake
<1>5. task \in [Conns -> TaskType]
  BY DEF TypeOK
<1>6. \A x \in Conns : Overtaken(task[x]) \in TaskType
  BY <1>5, OvertakenTask
<1> QED
  BY <1>4, <1>5, <1>6 DEF Kept

LEMMA KeptTask ==
    ASSUME NEW x \in Conns, task[x] \in TaskType, Kept(x)
    PROVE  /\ task'[x].step = task[x].step
           /\ task'[x] = Idle <=> task[x] = Idle
           /\ task[x].step \in {"register", "reply", "notify", "done"} => task'[x] = task[x]
           /\ Tells(task'[x]) <=> Tells(task[x])
<1>1. CASE task'[x] = task[x]
  BY <1>1
<1>2. CASE task'[x] = Overtaken(task[x])
  <2>1. Overtaken(task[x]) \in TaskType /\ Overtaken(task[x]).step = task[x].step
    BY OvertakenTask
  <2>2. task[x].step \notin {"broadcast", "result"} => Overtaken(task[x]) = task[x]
    BY OvertakenTask
  <2>3. Overtaken(task[x]) = Idle <=> task[x] = Idle
    BY <2>1, TaskTypes
  <2> QED
    BY <1>2, <2>1, <2>2, <2>3 DEF Tells
<1> QED
  BY <1>1, <1>2 DEF Kept

(* What no step takes back.                                                 *)
Steady ==
    /\ pubOf' = pubOf
    /\ \A x \in Conns : hasKey[x] => hasKey'[x]
    /\ \A p \in Pubs : Approved(p) => Approved(p)'

LEMMA SteadyStep ==
    ASSUME pubOf' = pubOf, \A x \in Conns : hasKey[x] => hasKey'[x],
           \A p \in Pubs : Decision(p) = "approved" => Approved(p)'
    PROVE  Steady
<1> SUFFICES ASSUME NEW p \in Pubs, NEW a \in Applicants, pubOf[a] = p, hasKey[a]
             PROVE  Approved(p)'
  BY DEF Steady, Approved
<1>1. pubOf'[a] = p /\ hasKey'[a]
  BY DEF Conns
<1> QED
  BY <1>1 DEF Approved

LEMMA MessagesStayHonest ==
    ASSUME TypeOK, Steady, NEW x \in Conns, HonestAt(x)
    PROVE  /\ \A m \in Range(todo[x]) : HonestCommand(x, m)'
           /\ \A m \in Range(queue[x]) : HonestAnswer(x, m)'
<1>1. \A m \in Range(queue[x]) : HonestAnswer(x, m)'
  <2>1. queue[x] \in Seq(AnswerType)
    BY DEF TypeOK
  <2>2. \A m \in Range(queue[x]) : m \in AnswerType
    BY <2>1, LenProperties DEF Range
  <2>3. \A m \in Range(queue[x]) : IsStatus(m) => m.id \in Pubs
    BY <2>2, AnswerTypes
  <2> QED
    BY <2>3 DEF HonestAt, HonestAnswer, Steady
<1>2. \A m \in Range(todo[x]) : HonestCommand(x, m)'
  BY DEF HonestAt, HonestCommand, Steady
<1> QED
  BY <1>1, <1>2

LEMMA TaskStaysHonest ==
    ASSUME Steady, NEW x \in Conns, HonestAt(x), task[x] \in TaskType,
           reqID'[x] = reqID[x], Kept(x)
    PROVE  HonestTask(x, task[x])'
<1>1. /\ task'[x].step = task[x].step
      /\ task[x].step \in {"register", "reply", "notify", "done"} => task'[x] = task[x]
  BY KeptTask
<1>2. task[x].step \in {"register", "reply", "notify"} => task[x].id \in Pubs
  BY TaskTypes
<1>3. ASSUME task'[x].step \in {"broadcast", "result"}, ~task'[x].late
      PROVE  task'[x].list = PendingNow'
  BY <1>1, <1>3, OvertakenTask DEF Kept, HonestAt, HonestTask
<1>4. pubOf'[x] = pubOf[x] /\ (hasKey[x] => hasKey'[x])
  BY DEF Steady
<1>5. HonestTask(x, task[x])
  BY DEF HonestAt
<1>6. PICK k : k = task[x]
  OBVIOUS
<1>7. PICK l : l = task'[x]
  OBVIOUS
<1>8. HonestTask(x, l)'
  <2>1. l.step \in {"register", "reply", "notify", "done"} => l = k
    BY <1>1, <1>6, <1>7
  <2>2. l.step \in {"register", "reply", "notify"} => (Approved(l.id) => Approved(l.id)')
    BY <1>2, <1>6, <2>1 DEF Steady
  <2>3. HonestTask(x, k)
    BY <1>5, <1>6
  <2>4. l.step = "result" => hasKey'[x]
    BY <1>1, <1>4, <1>5, <1>7 DEF HonestTask
  <2>5. l.step \in {"broadcast", "result"} /\ ~l.late => l.list = PendingNow'
    BY <1>3, <1>7
  <2> QED
    BY <1>4, <2>1, <2>2, <2>3, <2>4, <2>5 DEF HonestTask
<1> QED
  BY <1>7, <1>8

(* Nothing happens at x.                                                    *)
Still(x) ==
    /\ x \in online' <=> x \in online
    /\ reqID'[x] = reqID[x] /\ queue'[x] = queue[x] /\ todo'[x] = todo[x]
    /\ hasKey'[x] = hasKey[x] /\ claimed'[x] = claimed[x]
    /\ shown'[x] = shown[x] /\ clicked'[x] = clicked[x] /\ spent[x] \subseteq spent'[x]
    /\ Kept(x)

LEMMA StillSound ==
    ASSUME TypeOK, Steady, NEW x \in Conns, Still(x), Sound(x)
    PROVE  Sound(x)'
<1> USE DEF Still, Steady, Sound
<1>1. task[x] \in TaskType /\ todo[x] \in Seq(CommandType) /\ queue[x] \in Seq(AnswerType)
  BY DEF TypeOK
<1>2. /\ task'[x].step = task[x].step
      /\ task'[x] = Idle <=> task[x] = Idle
      /\ task[x].step \in {"register", "reply", "notify", "done"} => task'[x] = task[x]
  BY <1>1, KeptTask
<1>3. HonestTask(x, task[x])'
  BY <1>1, TaskStaysHonest
<1>4. /\ \A m \in Range(todo[x]) : HonestCommand(x, m)'
      /\ \A m \in Range(queue[x]) : HonestAnswer(x, m)'
  BY MessagesStayHonest
<1>6. HonestAt(x)'
  BY <1>3, <1>4 DEF HonestAt
<1>7. OfflineAt(x)'
  BY <1>2 DEF OfflineAt
<1>8. AsksFirstAt(x)'
  BY <1>2 DEF AsksFirstAt
<1>9. SeesAsMemberAt(x)'
  <2>1. Joining(x)' <=> Joining(x)
    BY <1>2 DEF Joining
  <2> QED
    BY <1>2, <2>1 DEF SeesAsMemberAt
<1>10. ClicksArriveAt(x)'
  BY DEF ClicksArriveAt
<1> QED
  BY <1>6, <1>7, <1>8, <1>9, <1>10

LEMMA StillWaits ==
    ASSUME TypeOK, Steady, NEW x \in Applicants, Still(x), WaitsAt(x),
           banner'[x] = banner[x], window[x] => window'[x],
           \A p \in Pubs : Decision(p) = "pending" => Decision(p)' = "pending",
           \A y \in Conns : task[y].step = "notify" => task'[y] = task[y]
    PROVE  WaitsAt(x)'
<1>1. x \in Conns /\ task[x] \in TaskType /\ pubOf'[x] = pubOf[x] /\ pubOf[x] \in Pubs
  BY DEF TypeOK, Conns, Steady
<1>2. /\ task'[x].step = task[x].step
      /\ task[x].step \in {"register", "reply"} => task'[x] = task[x]
  BY <1>1, KeptTask DEF Still
<1>3. PICK p \in Pubs : p = pubOf[x] /\ p = pubOf'[x]
  BY <1>1
<1>4. Notifying(p) => Notifying(p)'
  BY DEF Notifying
<1>5. Decision(p) = "pending" => Decision(p)' = "pending"
  OBVIOUS
<1>6. WaitsAt(x) <=>
        ((x \in online /\ ~hasKey[x] /\ ~window[x]) =>
          IF task[x].step \in {"register", "reply"}
            THEN task[x].status = "pending" => Decision(p) = "pending"
            ELSE (PendingLast(queue[x], banner[x]) /\ ~Asks(todo[x])) =>
                   reqID[x] = p /\ (Decision(p) = "pending" \/ Notifying(p)))
  BY <1>3 DEF WaitsAt
<1>7. WaitsAt(x)' <=>
        ((x \in online' /\ ~hasKey'[x] /\ ~window'[x]) =>
          IF task'[x].step \in {"register", "reply"}
            THEN task'[x].status = "pending" => Decision(p)' = "pending"
            ELSE (PendingLast(queue'[x], banner'[x]) /\ ~Asks(todo'[x])) =>
                   reqID'[x] = p /\ (Decision(p)' = "pending" \/ Notifying(p)'))
  BY <1>3 DEF WaitsAt
<1> QED
  BY <1>2, <1>4, <1>5, <1>6, <1>7 DEF Still

(* Some handler will tell everybody the list.                               *)
Telling == \E y \in Conns : Tells(task[y])

LEMMA StillFollows ==
    ASSUME NEW x \in Conns, CardsFollowAt(x), Still(x), behind'[x] = behind[x],
           Telling => Telling', PendingNow' = PendingNow \/ Telling'
    PROVE  CardsFollowAt(x)'
BY DEF CardsFollowAt, Still, Telling

LEMMA EmptyQueue ==
    /\ Range(<<>>) = {} /\ ~Asks(<<>>) /\ AskOnce(<<>>) /\ ~Decides(<<>>)
    /\ Decisions(<<>>) = {} /\ ClaimAfterDone(<<>>) /\ ~ClaimResultIn(<<>>)
    /\ \A b : PendingLast(<<>>, b) <=> b = "pending"
    /\ <<>> \in Seq(AnswerType) /\ <<>> \in Seq(CommandType)
<1>1. Len(<<>>) = 0 /\ DOMAIN <<>> = {} /\ Range(<<>>) = {}
  BY DEF Range
<1> QED
  BY <1>1 DEF Asks, AskOnce, Decides, Decisions, ClaimAfterDone, ClaimResultIn, PendingLast

LEMMA OneCommand ==
    ASSUME NEW m \in CommandType, ~IsDecision(m)
    PROVE  /\ <<m>> \in Seq(CommandType) /\ Range(<<m>>) = {m}
           /\ Asks(<<m>>) <=> m.type = "join-request"
           /\ AskOnce(<<m>>) /\ ~Decides(<<m>>) /\ Decisions(<<m>>) = {}
           /\ m.type # "claim" => ClaimAfterDone(<<m>>)
<1> DEFINE s == <<>>
           t == Append(s, m)
<1>1. t = <<m>>
  OBVIOUS
<1>2. /\ s \in Seq(CommandType) /\ Range(s) = {} /\ ~Asks(s) /\ ~Decides(s)
      /\ Decisions(s) = {} /\ ClaimAfterDone(s)
  BY EmptyQueue
<1> HIDE DEF s
<1>3. t \in Seq(CommandType) /\ Range(t) = {m}
  BY <1>2, CommandsAppend
<1>4. /\ Asks(t) <=> m.type = "join-request"
      /\ ~Decides(t) /\ Decisions(t) = {}
      /\ m.type # "claim" => ClaimAfterDone(t)
  BY <1>2, CommandAdded
<1> HIDE DEF t
<1>5. AskOnce(<<m>>)
  BY DEF AskOnce
<1> QED
  BY <1>1, <1>3, <1>4, <1>5

(* What a handler finds when it takes a command.                            *)
LEMMA Taken ==
    ASSUME TypeOK, NEW c \in Conns, Sound(c), NEW type, Begins(c, type)
    PROVE  /\ HonestCommand(c, Head(todo[c]))
           /\ \A m \in Range(todo'[c]) : HonestCommand(c, m)
           /\ ~Asks(todo'[c]) /\ AskOnce(todo'[c])
           /\ type = "join-request" => Asks(todo[c])
           /\ Decides(todo'[c]) \/ type \in {"join-approve", "join-reject"} => Decides(todo[c])
           /\ type \in {"join-approve", "join-reject"} =>
                Decisions(todo[c]) = Decisions(todo'[c]) \cup {Head(todo[c]).id}
           /\ type \notin {"join-approve", "join-reject"} =>
                Decisions(todo[c]) = Decisions(todo'[c])
           /\ Joining(c) => type # "claim"
           /\ Joining(c) /\ type # "join-done" => ClaimAfterDone(todo'[c])
<1> DEFINE s == todo[c]
<1>1. /\ s \in Seq(CommandType) /\ s # <<>> /\ Head(s).type = type
      /\ Head(s) \in Range(s) /\ Range(Tail(s)) \subseteq Range(s) /\ todo'[c] = Tail(s)
  BY Begun
<1>2. /\ AskOnce(s) /\ (Joining(c) => ClaimAfterDone(s))
      /\ \A m \in Range(s) : HonestCommand(c, m)
  BY DEF Sound, HonestAt, AsksFirstAt, SeesAsMemberAt
<1> HIDE DEF s
<1>3. /\ Asks(s) <=> Asks(Tail(s)) \/ Head(s).type = "join-request"
      /\ AskOnce(s) => ~Asks(Tail(s)) /\ AskOnce(Tail(s))
      /\ Decisions(s) = Decisions(Tail(s))
                          \cup IF IsDecision(Head(s)) THEN {Head(s).id} ELSE {}
      /\ Decides(s) <=> Decides(Tail(s)) \/ IsDecision(Head(s))
      /\ ClaimAfterDone(s) => Head(s).type # "claim"
      /\ ClaimAfterDone(s) /\ Head(s).type # "join-done" => ClaimAfterDone(Tail(s))
  BY <1>1, CommandTaken
<1>4. IsDecision(Head(s)) <=> type \in {"join-approve", "join-reject"}
  BY <1>1 DEF IsDecision
<1> QED
  BY <1>1, <1>2, <1>3, <1>4 DEF s

(* A step that happens at one connection.                                   *)
LEMMA LocalStep ==
    ASSUME Inv, NEW c \in Conns, TypeOK', StoreInv', Steady,
           \A x \in Conns \ {c} :
             /\ Still(x) /\ banner'[x] = banner[x]
             /\ window'[x] = window[x] /\ behind'[x] = behind[x],
           Sound(c)', c \in Applicants => WaitsAt(c)', CardsFollowAt(c)',
           \A p \in Pubs : Decision(p) = "pending" => Decision(p)' = "pending",
           task[c].step = "notify" => task'[c] = task[c], Tells(task[c]) => Telling',
           PendingNow' = PendingNow \/ Telling'
    PROVE  Inv'
<1> USE DEF Inv
<1>1. \A x \in Conns : Sound(x)'
  BY StillSound
<1>2. \A x \in Conns \ {c} : task[x] \in TaskType /\ Kept(x)
  BY DEF TypeOK, Still
<1>3. \A y \in Conns : task[y].step = "notify" => task'[y] = task[y]
  BY <1>2, KeptTask
<1>4. \A x \in Applicants : WaitsAt(x)'
  BY <1>3, StillWaits DEF Conns
<1>5. Telling => Telling'
  BY <1>2, KeptTask DEF Telling
<1>6. \A x \in Conns : CardsFollowAt(x)'
  BY <1>5, StillFollows
<1> QED
  BY <1>1, <1>4, <1>6
=============================================================================
