----------------------- MODULE QuorumConsumerProofs -----------------------
(***************************************************************************)
(* Theorems about QuorumConsumer, for any number of instances, findings,   *)
(* faults and deliveries.                                                  *)
(***************************************************************************)
EXTENDS QuorumConsumer, TLAPS

-----------------------------------------------------------------------------
(* The shape of a handler step: which commands and moves it may make. *)

RedisCommand(f) ==
    \/ IncrCount(f) \/ DecrCount(f) \/ DelCount(f) \/ ExpireCountKey(f)
    \/ \E s \in Statuses : SetStatus(f, s)
    \/ SetCoolDown(f)
    \/ UNCHANGED redis

StreamMove(i) == Ack(i) \/ Nak(i) \/ UNCHANGED msg
CacheMove(i)  == CacheAdd(i) \/ CacheRemove(i) \/ UNCHANGED cache
FaultCount    == UNCHANGED faults \/ (faults < MaxFaults /\ faults' = faults + 1)
PostMove(i)   == (Posted(i) \/ UNCHANGED sent) /\ UNCHANGED sighted
ForgetMove(f) == Forget(f) \/ UNCHANGED forgotten

\* The claim script (repo.go SetSendingStatus) sets the status or does nothing.
LEMMA ClaimIsCommand ==
    ASSUME NEW f, SetSendingStatus(f)
    PROVE  RedisCommand(f)
  BY DEF SetSendingStatus, RedisCommand, Statuses

\* Every step of GetConsumeHandler runs at most one Redis command on the keys of
\* the finding in hand, settles at most its message and moves to a known call.
LEMMA HandleShape ==
    ASSUME NEW i \in Instances, Handle(i)
    PROVE  /\ RedisCommand(cur[i])
           /\ StreamMove(i)
           /\ CacheMove(i)
           /\ \E p \in PCs : Goto(i, p)
           /\ PostMove(i)
           /\ ForgetMove(cur[i])
           /\ FaultCount
           /\ UNCHANGED <<deliveries, inbox, cur>>
<1> USE DEF RedisCommand, StreamMove, CacheMove, FaultCount, PostMove, Statuses,
            ForgetMove, PCs, PastStatus, Sending, AckAndReturn, NakAndReturn, NoFault, Fault,
            RedisError, LocalStep, history
<1>1. CASE Incr(i)
  BY <1>1 DEF Incr
<1>2. CASE Expire(i)
  BY <1>2 DEF Expire
<1>3. CASE UndoCount(i)
  BY <1>3 DEF UndoCount
<1>4. CASE GetCount(i)
  BY <1>4 DEF GetCount
<1>5. CASE GetStatus(i)
  BY <1>5 DEF GetStatus
<1>6. CASE ShortenKeys(i)
  BY <1>6 DEF ShortenKeys
<1>7. CASE GetCoolDown(i)
  BY <1>7 DEF GetCoolDown
<1>8. CASE Claim(i)
  BY <1>8, ClaimIsCommand DEF Claim
<1>9. CASE SendFinding(i)
  BY <1>9 DEF SendFinding
<1>10. CASE AckSent(i)
  BY <1>10 DEF AckSent
<1>11. CASE MarkSent(i)
  BY <1>11 DEF MarkSent
<1>12. CASE StartCoolDown(i)
  BY <1>12 DEF StartCoolDown
<1>13. CASE Decr(i)
  BY <1>13 DEF Decr
<1>14. CASE DropCount(i)
  BY <1>14 DEF DropCount
<1>15. CASE Release(i)
  BY <1>15 DEF Release
<1> QED
  BY <1>1, <1>2, <1>3, <1>4, <1>5, <1>6, <1>7, <1>8, <1>9, <1>10,
     <1>11, <1>12, <1>13, <1>14, <1>15 DEF Handle

\* So does a command whose reply is lost (redis.go MaxRetries).
LEMMA LostReplyShape ==
    ASSUME NEW i \in Instances, LostReply(i)
    PROVE  /\ RedisCommand(cur[i])
           /\ FaultCount
           /\ ForgetMove(cur[i])
           /\ UNCHANGED <<nats, handler, sighted, sent>>
  BY ClaimIsCommand DEF LostReply, RedisCommand, FaultCount, Fault, Statuses, ForgetMove

-----------------------------------------------------------------------------
(* Types *)

\* A Redis command keeps the types of the keys.
LEMMA CommandType ==
    ASSUME RedisTypeOK, NEW f \in Findings, RedisCommand(f)
    PROVE  RedisTypeOK'
<1> USE DEF RedisTypeOK
<1>1. CASE IncrCount(f) \/ DecrCount(f)
  BY <1>1 DEF IncrCount, DecrCount
<1>2. CASE DelCount(f)
  BY <1>2 DEF DelCount
<1>3. CASE ExpireCountKey(f)
  BY <1>3 DEF ExpireCountKey
<1>4. CASE \E s \in Statuses : SetStatus(f, s)
  BY <1>4 DEF SetStatus
<1>5. CASE SetCoolDown(f)
  BY <1>5 DEF SetCoolDown
<1>6. CASE UNCHANGED redis
  BY <1>6 DEF redis
<1> QED
  BY <1>1, <1>2, <1>3, <1>4, <1>5, <1>6 DEF RedisCommand

\* Adding an element to one value of a set-valued function, or taking it out.
LEMMA SetValued ==
    ASSUME NEW A, NEW B, NEW g \in [A -> SUBSET B], NEW a \in A, NEW b \in B
    PROVE  /\ [g EXCEPT ![a] = @ \cup {b}] \in [A -> SUBSET B]
           /\ [g EXCEPT ![a] = @ \ {b}] \in [A -> SUBSET B]
  OBVIOUS

\* The fault counter stays within its bound.
LEMMA FaultType ==
    ASSUME faults \in 0..MaxFaults, FaultCount
    PROVE  faults' \in 0..MaxFaults
  BY BoundsAssumption DEF FaultCount

\* A handler step keeps every variable's type.
LEMMA HandleType ==
    ASSUME TypeOK, NEW i \in Instances, Handle(i)
    PROVE  TypeOK'
<1>1. cur[i] \in Findings
  BY DEF TypeOK, HandlerTypeOK
<1>2. RedisTypeOK'
  BY <1>1, HandleShape, CommandType DEF TypeOK
<1>3. NatsTypeOK'
  <2>1. msg' \in [Instances -> [Findings -> MsgStates]]
    <3>1. StreamMove(i)
      BY HandleShape
    <3>2. CASE Ack(i)
      BY <1>1, <3>2 DEF Ack, TypeOK, NatsTypeOK, MsgStates
    <3>3. CASE Nak(i)
      BY <1>1, <3>3 DEF Nak, TypeOK, NatsTypeOK, MsgStates
    <3> QED
      BY <3>1, <3>2, <3>3 DEF StreamMove, TypeOK, NatsTypeOK
  <2> QED
    BY <2>1, HandleShape DEF TypeOK, NatsTypeOK
<1>4. HandlerTypeOK'
  <2>1. cache' \in [Instances -> SUBSET Findings]
    BY <1>1, HandleShape DEF CacheMove, CacheAdd, CacheRemove, TypeOK, HandlerTypeOK
  <2>2. pc' \in [Instances -> PCs]
    BY HandleShape DEF Goto, TypeOK, HandlerTypeOK
  <2> QED
    BY <2>1, <2>2, HandleShape DEF TypeOK, HandlerTypeOK
<1>5. HistoryTypeOK'
  <2>1. sent' \in [Instances -> [Findings -> Nat]]
    BY <1>1, HandleShape DEF PostMove, Posted, TypeOK, HistoryTypeOK
  <2>2. forgotten' \subseteq Findings
    BY <1>1, HandleShape DEF ForgetMove, Forget, TypeOK, HistoryTypeOK
  <2> QED
    BY <2>1, <2>2, HandleShape, FaultType DEF PostMove, TypeOK, HistoryTypeOK
<1> QED
  BY <1>2, <1>3, <1>4, <1>5 DEF TypeOK

\* Every step of the specification does.
LEMMA TypeStep == TypeOK /\ [Next]_vars => TypeOK'
<1> SUFFICES ASSUME TypeOK, [Next]_vars PROVE TypeOK'
  OBVIOUS
<1> USE DEF TypeOK, RedisTypeOK, NatsTypeOK, HandlerTypeOK, HistoryTypeOK,
            redis, nats, handler, history, MsgStates
<1>1. ASSUME NEW i \in Instances, LostReply(i) PROVE TypeOK'
  <2>1. RedisTypeOK'
    BY <1>1, LostReplyShape, CommandType
  <2>2. cur[i] \in Findings /\ ForgetMove(cur[i])
    BY <1>1, LostReplyShape
  <2>3. forgotten' \subseteq Findings
    BY <2>2 DEF ForgetMove, Forget
  <2> QED
    BY <1>1, <2>1, <2>3, LostReplyShape, FaultType
<1>2. ASSUME NEW i \in Instances, Crash(i) PROVE TypeOK'
  BY <1>2, FaultType DEF Crash, Fault, FaultCount, Goto, PCs
<1>3. ASSUME NEW i \in Instances, NEW f \in Findings,
             Publish(i, f) \/ Deliver(i, f) \/ AckTimeout(i, f)
      PROVE  TypeOK'
  <2>1. CASE Publish(i, f)
    BY <2>1 DEF Publish
  <2>2. CASE Deliver(i, f)
    <3>1. msg' \in [Instances -> [Findings -> MsgStates]]
      BY <2>2 DEF Deliver
    <3>2. deliveries' \in [Instances -> [Findings -> Nat]]
      <4>1. CASE UNCHANGED deliveries
        BY <4>1
      <4>2. CASE deliveries' = [deliveries EXCEPT ![i][f] = @ + 1]
        BY <4>2
      <4> QED
        BY <2>2, <4>1, <4>2 DEF Deliver
    <3>3. inbox' \in [Instances -> SUBSET Findings]
      BY <2>2, SetValued DEF Deliver
    <3> QED
      BY <2>2, <3>1, <3>2, <3>3 DEF Deliver
  <2>3. CASE AckTimeout(i, f)
    BY <2>3 DEF AckTimeout
  <2> QED
    BY <1>3, <2>1, <2>2, <2>3
<1>4. ASSUME NEW i \in Instances, NEW f \in Findings, AckLost(i, f)
      PROVE  TypeOK'
  BY <1>4, FaultType DEF AckLost, Fault, FaultCount
<1>5. ASSUME NEW i \in Instances, NEW f \in Findings, Receive(i, f)
      PROVE  TypeOK'
  <2>1. inbox' \in [Instances -> SUBSET Findings] /\ cur' \in [Instances -> Findings]
    BY <1>5, SetValued DEF Receive
  <2>2. CASE f \notin Wanted
    <3>1. msg' = [msg EXCEPT ![i][f] = "settled"] /\ UNCHANGED <<pc, sighted>>
      BY <1>5, <2>2 DEF Receive
    <3>2. msg' \in [Instances -> [Findings -> MsgStates]]
      BY <3>1
    <3> QED
      BY <1>5, <2>1, <3>1, <3>2 DEF Receive
  <2>3. CASE f \in Wanted
    <3>1. pc' \in [Instances -> PCs]
      BY <1>5, <2>3 DEF Receive, Goto, PCs
    <3>2. sighted' = [sighted EXCEPT ![f] = @ \cup {i}]
      BY <1>5, <2>3 DEF Receive
    <3>3. sighted' \in [Findings -> SUBSET Instances]
      BY <3>2, SetValued
    <3> QED
      BY <1>5, <2>1, <2>3, <3>1, <3>3 DEF Receive
  <2> QED
    BY <2>2, <2>3
<1>6. ASSUME NEW i \in Instances, NEW f \in Findings,
             CacheExpires(i, f) \/ Evict(i, f)
      PROVE  TypeOK'
  <2>1. cache' = [cache EXCEPT ![i] = @ \ {f}]
    BY <1>6 DEF CacheExpires, Evict
  <2>2. UNCHANGED <<redis, nats, pc, cur, history>> /\ FaultCount
    BY <1>6 DEF CacheExpires, Evict, Fault, FaultCount
  <2>3. cache' \in [Instances -> SUBSET Findings]
    BY <2>1, SetValued
  <2> QED
    BY <2>2, <2>3, FaultType
<1>7. ASSUME NEW f \in Findings, CountExpires(f) \/ StatusExpires(f)
      PROVE  TypeOK'
  <2>1. RedisCommand(f)
    BY <1>7 DEF CountExpires, StatusExpires, RedisCommand, Statuses
  <2>2. RedisTypeOK'
    BY <2>1, CommandType
  <2>3. forgotten' \subseteq Findings
    BY <1>7 DEF CountExpires, StatusExpires, Forget
  <2> QED
    BY <1>7, <2>2, <2>3, FaultType DEF CountExpires, StatusExpires, Fault, FaultCount
<1>8. CASE UNCHANGED vars
  BY <1>8 DEF vars
<1> QED
  BY <1>1, <1>2, <1>3, <1>4, <1>5, <1>6, <1>7, <1>8, HandleType DEF Next

\* The first state is well typed.
LEMMA InitType == Init => TypeOK
  BY FindingsAssumption, BoundsAssumption
     DEF Init, TypeOK, RedisTypeOK, NatsTypeOK, HandlerTypeOK, HistoryTypeOK,
         Statuses, MsgStates, PCs

\* Every variable keeps its type (consumer.go, repo.go), whatever the faults.
THEOREM TypeCorrect == Spec => []TypeOK
  BY InitType, TypeStep, PTL DEF Spec

-----------------------------------------------------------------------------
(* The claim. OneSender alone is not inductive: that no second instance can   *)
(* claim follows from the status key, which reads "sending" for as long as    *)
(* the holder has not given the claim up.                                     *)

ClaimBacked ==
    \A i \in Instances : pc[i] \in Sending => status[cur[i]] = "sending"

ClaimInv == ClaimBacked /\ OneSender

\* A handler step leaves the status alone, takes a free claim, or gives up its own.
LEMMA HandleClaim ==
    ASSUME TypeOK, NEW i \in Instances, Handle(i)
    PROVE  \/ UNCHANGED status /\ (pc'[i] \in Sending => pc[i] \in Sending)
           \/ status[cur[i]] = "not_send" /\ status' = [status EXCEPT ![cur[i]] = "sending"]
           \/ /\ pc[i] \in Sending /\ pc'[i] \notin Sending
              /\ \E s \in Statuses : status' = [status EXCEPT ![cur[i]] = s]
<1> USE DEF TypeOK, HandlerTypeOK, Sending, Goto, AckAndReturn, NakAndReturn,
            RedisError, redis
<1>1. CASE Incr(i)
  BY <1>1 DEF Incr, IncrCount
<1>2. CASE Expire(i)
  BY <1>2 DEF Expire, ExpireCountKey
<1>3. CASE UndoCount(i)
  BY <1>3 DEF UndoCount, DelCount
<1>4. CASE GetCount(i)
  BY <1>4 DEF GetCount
<1>5. CASE GetStatus(i)
  BY <1>5 DEF GetStatus
<1>6. CASE ShortenKeys(i)
  BY <1>6 DEF ShortenKeys, ExpireCountKey
<1>7. CASE GetCoolDown(i)
  BY <1>7 DEF GetCoolDown
<1>8. CASE Claim(i)
  BY <1>8 DEF Claim, SetSendingStatus, Claimable, SetStatus
<1>9. CASE SendFinding(i)
  BY <1>9 DEF SendFinding
<1>10. CASE AckSent(i)
  BY <1>10 DEF AckSent
<1>11. CASE MarkSent(i)
  BY <1>11 DEF MarkSent, SetStatus, Statuses
<1>12. CASE StartCoolDown(i)
  BY <1>12 DEF StartCoolDown, SetCoolDown
<1>13. CASE Decr(i)
  BY <1>13 DEF Decr, DecrCount
<1>14. CASE DropCount(i)
  BY <1>14 DEF DropCount, DelCount
<1>15. CASE Release(i)
  BY <1>15 DEF Release, SetStatus, Statuses
<1> QED
  BY <1>1, <1>2, <1>3, <1>4, <1>5, <1>6, <1>7, <1>8, <1>9, <1>10,
     <1>11, <1>12, <1>13, <1>14, <1>15 DEF Handle

\* A handler step keeps the claim exclusive: only the holder of the status key
\* goes on to send.
LEMMA HandleKeepsClaim ==
    ASSUME TypeOK, ClaimInv, NEW i \in Instances, Handle(i)
    PROVE  ClaimInv'
<1>1. /\ UNCHANGED cur
      /\ \A j \in Instances \ {i} : pc'[j] = pc[j]
      /\ \A j \in Instances : cur[j] \in Findings
  BY HandleShape DEF Goto, TypeOK, HandlerTypeOK
<1>2. CASE UNCHANGED status /\ (pc'[i] \in Sending => pc[i] \in Sending)
  BY <1>1, <1>2 DEF ClaimInv, ClaimBacked, OneSender, Holds
<1>3. CASE status[cur[i]] = "not_send" /\ status' = [status EXCEPT ![cur[i]] = "sending"]
  <2>1. \A j \in Instances : pc[j] \in Sending => cur[j] # cur[i]
    BY <1>3 DEF ClaimInv, ClaimBacked
  <2>2. ClaimBacked'
    BY <1>1, <1>3, <2>1 DEF ClaimInv, ClaimBacked, TypeOK, RedisTypeOK
  <2>3. OneSender'
    BY <1>1, <2>1 DEF ClaimInv, OneSender, Holds
  <2> QED
    BY <2>2, <2>3 DEF ClaimInv
<1>4. CASE /\ pc[i] \in Sending /\ pc'[i] \notin Sending
           /\ \E s \in Statuses : status' = [status EXCEPT ![cur[i]] = s]
  <2>1. \A j \in Instances \ {i} : pc[j] \in Sending => cur[j] # cur[i]
    BY <1>1, <1>4 DEF ClaimInv, OneSender, Holds
  <2>2. ClaimBacked'
    BY <1>1, <1>4, <2>1 DEF ClaimInv, ClaimBacked, TypeOK, RedisTypeOK
  <2>3. OneSender'
    BY <1>1, <1>4 DEF ClaimInv, OneSender, Holds
  <2> QED
    BY <2>2, <2>3 DEF ClaimInv
<1> QED
  BY <1>2, <1>3, <1>4, HandleClaim

\* Every step but the client's retry keeps the claim exclusive.
LEMMA ClaimStep ==
    ASSUME "lostReply" \notin Faults
    PROVE  TypeOK /\ ClaimInv /\ [Next]_vars => ClaimInv'
<1> SUFFICES ASSUME TypeOK, ClaimInv, [Next]_vars PROVE ClaimInv'
  OBVIOUS
<1> USE DEF ClaimInv, ClaimBacked, OneSender, Holds, redis, nats, handler, Sending
<1>1. ASSUME NEW i \in Instances, LostReply(i) PROVE FALSE
  BY <1>1 DEF LostReply, Fault
<1>2. ASSUME NEW i \in Instances, Crash(i) PROVE ClaimInv'
  BY <1>2 DEF Crash, Goto, TypeOK, HandlerTypeOK
<1>3. ASSUME NEW i \in Instances, NEW f \in Findings,
             \/ Publish(i, f) \/ Deliver(i, f) \/ AckTimeout(i, f)
             \/ AckLost(i, f) \/ CacheExpires(i, f) \/ Evict(i, f)
      PROVE  ClaimInv'
  <2>1. UNCHANGED <<status, pc, cur>>
    BY <1>3 DEF Publish, Deliver, AckTimeout, AckLost, CacheExpires, Evict
  <2> QED
    BY <2>1
<1>4. ASSUME NEW i \in Instances, NEW f \in Findings, Receive(i, f)
      PROVE  ClaimInv'
  <2>1. UNCHANGED status
    BY <1>4 DEF Receive
  <2>2. pc'[i] \notin Sending
    BY <1>4 DEF Receive, Goto, TypeOK, HandlerTypeOK
  <2>3. \A j \in Instances \ {i} : pc'[j] = pc[j] /\ cur'[j] = cur[j]
    BY <1>4 DEF Receive, Goto, TypeOK, HandlerTypeOK
  <2> QED
    BY <2>1, <2>2, <2>3
<1>5. ASSUME NEW f \in Findings, CountExpires(f) PROVE ClaimInv'
  BY <1>5 DEF CountExpires, DelCount
<1>6. ASSUME NEW f \in Findings, StatusExpires(f) PROVE ClaimInv'
  <2>1. UNCHANGED <<pc, cur>> /\ status' = [status EXCEPT ![f] = "not_send"]
    BY <1>6 DEF StatusExpires, SetStatus
  <2>2. \A i \in Instances : pc[i] \in Sending => cur[i] # f
    BY <1>6 DEF StatusExpires, PastStatus
  <2> QED
    BY <2>1, <2>2 DEF TypeOK, RedisTypeOK, HandlerTypeOK
<1>7. CASE UNCHANGED vars
  BY <1>7 DEF vars
<1> QED
  BY <1>1, <1>2, <1>3, <1>4, <1>5, <1>6, <1>7, HandleKeepsClaim DEF Next

\* The claim stays exclusive and backed by the status key in every reachable state.
LEMMA ClaimInvariant ==
    ASSUME "lostReply" \notin Faults
    PROVE  Spec => []ClaimInv
<1>1. Init => ClaimInv
  BY DEF Init, ClaimInv, ClaimBacked, OneSender, Holds, Sending
<1>2. TypeOK /\ ClaimInv /\ [Next]_vars => ClaimInv'
  BY ClaimStep
<1> QED
  BY <1>1, <1>2, TypeCorrect, PTL DEF Spec

\* At most one instance holds the claim on a finding (SetSendingStatus in repo.go
\* and its use in GetConsumeHandler), under crashes, failed Redis commands and
\* sends, lost acknowledgements and every expiry, as long as Redis does not run
\* a command again whose reply was lost.
THEOREM ClaimExclusive ==
    ASSUME "lostReply" \notin Faults
    PROVE  Spec => []OneSender
<1>1. ClaimInv => OneSender
  BY DEF ClaimInv
<1> QED
  BY <1>1, ClaimInvariant, PTL

-----------------------------------------------------------------------------
(* The marks. A handler that is about to mark a finding as sent, or to start  *)
(* its cool-down, has posted it.                                              *)

Marking == {"ack", "markSent", "setCool"}

MarkerPosted ==
    \A i \in Instances : pc[i] \in Marking => sent[i][cur[i]] > 0

MarkInv == MarkerPosted /\ SentIsTruthful

\* What a handler step does to the marks, and what it takes to reach them.
LEMMA HandleMarks ==
    ASSUME TypeOK, NEW i \in Instances, Handle(i)
    PROVE  /\ pc'[i] \in Marking => (pc[i] \in Marking /\ UNCHANGED sent) \/ Posted(i)
           /\ \A f \in Findings : status'[f] = "sent" =>
                  status[f] = "sent" \/ (f = cur[i] /\ pc[i] = "markSent")
           /\ \A b \in cooldown' :
                  b \in cooldown \/ (b = Body[cur[i]] /\ pc[i] = "setCool")
<1> USE DEF TypeOK, HandlerTypeOK, RedisTypeOK, Marking, Goto, AckAndReturn,
            NakAndReturn, RedisError, redis, history
<1>1. CASE Incr(i)
  BY <1>1 DEF Incr, IncrCount
<1>2. CASE Expire(i)
  BY <1>2 DEF Expire, ExpireCountKey
<1>3. CASE UndoCount(i)
  BY <1>3 DEF UndoCount, DelCount
<1>4. CASE GetCount(i)
  BY <1>4 DEF GetCount
<1>5. CASE GetStatus(i)
  BY <1>5 DEF GetStatus
<1>6. CASE ShortenKeys(i)
  BY <1>6 DEF ShortenKeys, ExpireCountKey
<1>7. CASE GetCoolDown(i)
  BY <1>7 DEF GetCoolDown
<1>8. CASE Claim(i)
  BY <1>8 DEF Claim, SetSendingStatus, SetStatus
<1>9. CASE SendFinding(i)
  BY <1>9 DEF SendFinding
<1>10. CASE AckSent(i)
  BY <1>10 DEF AckSent
<1>11. CASE MarkSent(i)
  BY <1>11 DEF MarkSent, SetStatus
<1>12. CASE StartCoolDown(i)
  BY <1>12 DEF StartCoolDown, SetCoolDown
<1>13. CASE Decr(i)
  BY <1>13 DEF Decr, DecrCount
<1>14. CASE DropCount(i)
  BY <1>14 DEF DropCount, DelCount
<1>15. CASE Release(i)
  BY <1>15 DEF Release, SetStatus
<1> QED
  BY <1>1, <1>2, <1>3, <1>4, <1>5, <1>6, <1>7, <1>8, <1>9, <1>10,
     <1>11, <1>12, <1>13, <1>14, <1>15 DEF Handle

\* The client's retry of a command marks nothing that its first run would not.
LEMMA LostReplyMarks ==
    ASSUME TypeOK, NEW i \in Instances, LostReply(i)
    PROVE  /\ \A f \in Findings : status'[f] = "sent" =>
                  status[f] = "sent" \/ (f = cur[i] /\ pc[i] = "markSent")
           /\ \A b \in cooldown' :
                  b \in cooldown \/ (b = Body[cur[i]] /\ pc[i] = "setCool")
  BY DEF LostReply, TypeOK, HandlerTypeOK, RedisTypeOK, IncrCount, DecrCount, DelCount,
         ExpireCountKey, SetSendingStatus, SetStatus, SetCoolDown, redis

\* Notifications are never taken back.
LEMMA PostedStays ==
    ASSUME TypeOK, NEW i \in Instances, PostMove(i)
    PROVE  \A j \in Instances, f \in Findings : sent[j][f] > 0 => sent'[j][f] > 0
  BY DEF PostMove, Posted, TypeOK, HandlerTypeOK, HistoryTypeOK

\* Marks that stood, or that an instance sets after posting, are truthful.
LEMMA MarksStayTruthful ==
    ASSUME TypeOK, MarkInv, NEW i \in Instances,
           \A j \in Instances, f \in Findings : sent[j][f] > 0 => sent'[j][f] > 0,
           \A f \in Findings : status'[f] = "sent" =>
               status[f] = "sent" \/ (f = cur[i] /\ pc[i] = "markSent"),
           \A b \in cooldown' :
               b \in cooldown \/ (b = Body[cur[i]] /\ pc[i] = "setCool")
    PROVE  SentIsTruthful'
<1>1. cur[i] \in Findings
  BY DEF TypeOK, HandlerTypeOK
<1>2. pc[i] \in {"markSent", "setCool"} => Delivered(cur[i])
  BY DEF MarkInv, MarkerPosted, Marking, Delivered
<1>3. \A f \in Findings : Delivered(f) => Delivered(f)'
  BY DEF Delivered
<1> QED
  BY <1>1, <1>2, <1>3 DEF MarkInv, SentIsTruthful

\* A handler step marks a finding sent, or its body as cooling down, only after
\* it has posted the finding.
LEMMA HandleKeepsMarks ==
    ASSUME TypeOK, MarkInv, NEW i \in Instances, Handle(i)
    PROVE  MarkInv'
<1>1. PostMove(i) /\ UNCHANGED cur /\ \A j \in Instances \ {i} : pc'[j] = pc[j]
  BY HandleShape DEF Goto, TypeOK, HandlerTypeOK
<1>2. \A j \in Instances, f \in Findings : sent[j][f] > 0 => sent'[j][f] > 0
  BY <1>1, PostedStays
<1>3. MarkerPosted'
  <2>1. pc'[i] \in Marking => sent'[i][cur[i]] > 0
    BY <1>1, HandleMarks
       DEF MarkInv, MarkerPosted, Posted, TypeOK, HandlerTypeOK, HistoryTypeOK
  <2>2. \A j \in Instances \ {i} : pc'[j] \in Marking => sent'[j][cur[j]] > 0
    BY <1>1, <1>2 DEF MarkInv, MarkerPosted, TypeOK, HandlerTypeOK
  <2> QED
    BY <1>1, <2>1, <2>2 DEF MarkerPosted
<1>4. SentIsTruthful'
  BY <1>2, HandleMarks, MarksStayTruthful
<1> QED
  BY <1>3, <1>4 DEF MarkInv

\* Every step keeps the marks truthful.
LEMMA MarkStep == TypeOK /\ MarkInv /\ [Next]_vars => MarkInv'
<1> SUFFICES ASSUME TypeOK, MarkInv, [Next]_vars PROVE MarkInv'
  OBVIOUS
<1> USE DEF MarkInv, MarkerPosted, SentIsTruthful, Delivered, Marking,
            redis, nats, handler, history
<1>1. ASSUME NEW i \in Instances, LostReply(i) PROVE MarkInv'
  <2>1. UNCHANGED <<pc, cur, sent>>
    BY <1>1, LostReplyShape
  <2>2. SentIsTruthful'
    BY <1>1, <2>1, LostReplyMarks, MarksStayTruthful
  <2> QED
    BY <2>1, <2>2
<1>2. ASSUME NEW i \in Instances, Crash(i) PROVE MarkInv'
  BY <1>2 DEF Crash, Goto, TypeOK, HandlerTypeOK
<1>3. ASSUME NEW i \in Instances, NEW f \in Findings,
             \/ Publish(i, f) \/ Deliver(i, f) \/ AckTimeout(i, f)
             \/ AckLost(i, f) \/ CacheExpires(i, f) \/ Evict(i, f)
      PROVE  MarkInv'
  <2>1. UNCHANGED <<status, cooldown, pc, cur, sent>>
    BY <1>3 DEF Publish, Deliver, AckTimeout, AckLost, CacheExpires, Evict
  <2> QED
    BY <2>1
<1>4. ASSUME NEW i \in Instances, NEW f \in Findings, Receive(i, f)
      PROVE  MarkInv'
  <2>1. UNCHANGED <<status, cooldown, sent>>
    BY <1>4 DEF Receive
  <2>2. pc'[i] \notin Marking
    BY <1>4 DEF Receive, Goto, TypeOK, HandlerTypeOK
  <2>3. \A j \in Instances \ {i} : pc'[j] = pc[j] /\ cur'[j] = cur[j]
    BY <1>4 DEF Receive, Goto, TypeOK, HandlerTypeOK
  <2> QED
    BY <2>1, <2>2, <2>3
<1>5. ASSUME NEW f \in Findings, CountExpires(f) PROVE MarkInv'
  BY <1>5 DEF CountExpires, DelCount
<1>6. ASSUME NEW f \in Findings, StatusExpires(f) PROVE MarkInv'
  BY <1>6 DEF StatusExpires, SetStatus, TypeOK, RedisTypeOK
<1>7. CASE UNCHANGED vars
  BY <1>7 DEF vars
<1> QED
  BY <1>1, <1>2, <1>3, <1>4, <1>5, <1>6, <1>7, HandleKeepsMarks DEF Next

\* The marks are truthful, and their setters have posted, in every reachable state.
LEMMA MarkInvariant == Spec => []MarkInv
<1>1. Init => MarkInv
  BY DEF Init, MarkInv, MarkerPosted, SentIsTruthful, Marking
<1> QED
  BY <1>1, MarkStep, TypeCorrect, PTL DEF Spec

\* What Redis says of a finding is true under every fault: an instance that drops
\* its copy because the finding is marked sent or its body is on cool-down
\* (GetConsumeHandler) never drops the only copy of an unposted alert for it.
THEOREM MarksTruthful == Spec => []SentIsTruthful
<1>1. MarkInv => SentIsTruthful
  BY DEF MarkInv
<1> QED
  BY <1>1, MarkInvariant, PTL
=============================================================================
