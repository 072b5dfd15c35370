------------------------- MODULE QuorumCountProofs -------------------------
(***************************************************************************)
(* Theorems about the count key of QuorumConsumer: it does not stay in     *)
(* Redis forever, what follows from its absence, and what it counts.       *)
(***************************************************************************)
EXTENDS QuorumConsumerProofs, FiniteSetTheorems

-----------------------------------------------------------------------------
(* Steps that leave the count keys and the handlers alone. *)

\* What the server does with a message touches no key, handler or history.
LEMMA TransportShape ==
    ASSUME NEW i \in Instances, NEW f \in Findings,
           Publish(i, f) \/ Deliver(i, f) \/ AckTimeout(i, f) \/ AckLost(i, f)
    PROVE  UNCHANGED <<redis, handler, history>>
  BY DEF Publish, Deliver, AckTimeout, AckLost

\* No fault of a kind that is not allowed.
LEMMA NotAFault ==
    ASSUME NEW kind, kind \notin Faults
    PROVE  ~ Fault(kind)
  BY DEF Fault

-----------------------------------------------------------------------------
(* Count keys without a TTL. That each has somebody to see to it needs that a  *)
(* key which is not there counts as 0: the INCR that creates it then returns   *)
(* 1, the DECR that creates it -1, and the handler acts on either.             *)

Absent == \A f \in Findings \ stored : count[f] = 0

ExpiryInv == Absent /\ CountKeyExpires

Tending == {"expire", "undo", "dropCount"}

\* What a handler step does to the count key of its finding, where commands do not
\* fail: it creates or changes it and tends to it next, or it ends its care.
LEMMA HandleCount ==
    ASSUME TypeOK, NEW i \in Instances, Handle(i), "redisError" \notin Faults
    PROVE  \/ UNCHANGED <<count, stored, mortal>> /\ pc[i] \notin Tending
           \/ /\ IncrCount(cur[i]) /\ pc[i] = "incr"
              /\ count'[cur[i]] = 1 => pc'[i] = "expire"
           \/ /\ DecrCount(cur[i]) /\ pc[i] = "decr"
              /\ count'[cur[i]] <= 0 => pc'[i] = "dropCount"
           \/ DelCount(cur[i])
           \/ ExpireCountKey(cur[i])
<1> USE NotAFault DEF TypeOK, HandlerTypeOK, Goto, AckAndReturn, NakAndReturn,
            RedisError, redis, Tending
<1>1. CASE Incr(i)
  BY <1>1 DEF Incr
<1>2. CASE Expire(i)
  BY <1>2 DEF Expire
<1>3. CASE UndoCount(i)
  BY <1>3 DEF UndoCount
<1>4. CASE GetCount(i)
  BY <1>4 DEF GetCount
<1>5. CASE GetStatus(i)
  BY <1>5 DEF GetStatus
<1>6. CASE ShortenKeys(i)
  BY <1>6 DEF ShortenKeys
<1>7. CASE GetCoolDown(i)
  BY <1>7 DEF GetCoolDown
<1>8. CASE Claim(i)
  BY <1>8 DEF Claim, SetSendingStatus, SetStatus
<1>9. CASE SendFinding(i)
  BY <1>9 DEF SendFinding
<1>10. CASE AckSent(i)
  BY <1>10 DEF AckSent
<1>11. CASE MarkSent(i)
  BY <1>11 DEF MarkSent, SetStatus
<1>12. CASE StartCoolDown(i)
  BY <1>12 DEF StartCoolDown, SetCoolDown
<1>13. CASE Decr(i)
  BY <1>13 DEF Decr
<1>14. CASE DropCount(i)
  BY <1>14 DEF DropCount
<1>15. CASE Release(i)
  BY <1>15 DEF Release, SetStatus
<1> QED
  BY <1>1, <1>2, <1>3, <1>4, <1>5, <1>6, <1>7, <1>8, <1>9, <1>10,
     <1>11, <1>12, <1>13, <1>14, <1>15 DEF Handle

\* A handler step leaves no count key without a TTL and without a handler.
LEMMA HandleKeepsExpiry ==
    ASSUME TypeOK, ExpiryInv, NEW i \in Instances, Handle(i), "redisError" \notin Faults
    PROVE  ExpiryInv'
<1> DEFINE c == cur[i]
<1>1. /\ c \in Findings /\ UNCHANGED cur
      /\ \A j \in Instances \ {i} : pc'[j] = pc[j]
      /\ count \in [Findings -> Int]
  BY HandleShape DEF Goto, TypeOK, HandlerTypeOK, RedisTypeOK
<1>2. ASSUME stored' \ mortal' \subseteq stored \ mortal,
             c \in stored' \ mortal' => pc[i] \notin Tending \/ pc'[i] \in Tending
      PROVE  CountKeyExpires'
  BY <1>1, <1>2 DEF ExpiryInv, CountKeyExpires, Tending
<1>3. ASSUME stored' \ mortal' \subseteq (stored \ mortal) \cup {c}, pc'[i] \in Tending
      PROVE  CountKeyExpires'
  BY <1>1, <1>3 DEF ExpiryInv, CountKeyExpires, Tending
<1>4. CASE UNCHANGED <<count, stored, mortal>> /\ pc[i] \notin Tending
  BY <1>2, <1>4 DEF ExpiryInv, Absent
<1>5. CASE IncrCount(c) /\ pc[i] = "incr" /\ (count'[c] = 1 => pc'[i] = "expire")
  <2>1. Absent'
    BY <1>1, <1>5 DEF IncrCount, ExpiryInv, Absent
  <2>2. CASE c \in stored
    BY <1>2, <1>5, <2>1, <2>2 DEF IncrCount, Tending, ExpiryInv
  <2>3. CASE c \notin stored
    <3>1. pc'[i] = "expire"
      BY <1>1, <1>5, <2>3 DEF IncrCount, ExpiryInv, Absent
    <3> QED
      BY <1>3, <1>5, <2>1, <3>1 DEF IncrCount, Tending, ExpiryInv
  <2> QED
    BY <2>2, <2>3
<1>6. CASE DecrCount(c) /\ pc[i] = "decr" /\ (count'[c] <= 0 => pc'[i] = "dropCount")
  <2>1. Absent'
    BY <1>1, <1>6 DEF DecrCount, ExpiryInv, Absent
  <2>2. CASE c \in stored
    BY <1>2, <1>6, <2>1, <2>2 DEF DecrCount, Tending, ExpiryInv
  <2>3. CASE c \notin stored
    <3>1. pc'[i] = "dropCount"
      BY <1>1, <1>6, <2>3 DEF DecrCount, ExpiryInv, Absent
    <3> QED
      BY <1>3, <1>6, <2>1, <3>1 DEF DecrCount, Tending, ExpiryInv
  <2> QED
    BY <2>2, <2>3
<1>7. CASE DelCount(c)
  BY <1>1, <1>2, <1>7 DEF DelCount, ExpiryInv, Absent
<1>8. CASE ExpireCountKey(c)
  BY <1>1, <1>2, <1>8 DEF ExpireCountKey, ExpiryInv, Absent
<1> QED
  BY <1>4, <1>5, <1>6, <1>7, <1>8, HandleCount

\* Every other step does not either, where processes live and commands are not
\* run again.
LEMMA ExpiryStep ==
    ASSUME Faults \cap {"crash", "redisError", "lostReply"} = {}
    PROVE  TypeOK /\ ExpiryInv /\ [Next]_vars => ExpiryInv'
<1> SUFFICES ASSUME TypeOK, ExpiryInv, [Next]_vars PROVE ExpiryInv'
  OBVIOUS
<1>1. ASSUME NEW i \in Instances, LostReply(i) \/ Crash(i) PROVE FALSE
  BY <1>1, NotAFault DEF LostReply, Crash
<1>2. ASSUME UNCHANGED <<count, stored, mortal>>,
             \A i \in Instances : pc[i] \in Tending => pc'[i] = pc[i] /\ cur'[i] = cur[i]
      PROVE  ExpiryInv'
  BY <1>2 DEF ExpiryInv, Absent, CountKeyExpires, Tending
<1>3. ASSUME NEW i \in Instances, NEW f \in Findings,
             \/ Publish(i, f) \/ Deliver(i, f) \/ AckTimeout(i, f)
             \/ AckLost(i, f) \/ CacheExpires(i, f) \/ Evict(i, f)
      PROVE  ExpiryInv'
  <2>1. UNCHANGED <<count, stored, mortal, pc, cur>>
    BY <1>3, TransportShape DEF CacheExpires, Evict, redis, handler
  <2> QED
    BY <1>2, <2>1
<1>4. ASSUME NEW i \in Instances, NEW f \in Findings, Receive(i, f) PROVE ExpiryInv'
  <2>1. UNCHANGED <<count, stored, mortal>> /\ pc[i] = "idle"
    BY <1>4 DEF Receive, redis
  <2>2. \A j \in Instances \ {i} : pc'[j] = pc[j] /\ cur'[j] = cur[j]
    BY <1>4 DEF Receive, Goto, TypeOK, HandlerTypeOK
  <2> QED
    BY <1>2, <2>1, <2>2 DEF Tending
<1>5. ASSUME NEW f \in Findings, CountExpires(f) PROVE ExpiryInv'
  BY <1>5 DEF CountExpires, DelCount, handler, ExpiryInv, Absent, CountKeyExpires,
              TypeOK, RedisTypeOK
<1>6. ASSUME NEW f \in Findings, StatusExpires(f) PROVE ExpiryInv'
  BY <1>2, <1>6 DEF StatusExpires, SetStatus, handler
<1>7. CASE UNCHANGED vars
  BY <1>2, <1>7 DEF vars, redis, handler
<1> QED
  BY <1>1, <1>3, <1>4, <1>5, <1>6, <1>7, HandleKeepsExpiry DEF Next

\* Count keys are seen to in every reachable state.
LEMMA ExpiryInvariant ==
    ASSUME Faults \cap {"crash", "redisError", "lostReply"} = {}
    PROVE  Spec => []ExpiryInv
<1>1. Init => ExpiryInv
  BY DEF Init, ExpiryInv, Absent, CountKeyExpires
<1>2. TypeOK /\ ExpiryInv /\ [Next]_vars => ExpiryInv'
  BY ExpiryStep
<1> QED
  BY <1>1, <1>2, TypeCorrect, PTL DEF Spec

\* A count key gets its TTL or is deleted (consumer.go collectQuorumCount and the
\* undo of a failed send), under failed sends, lost acknowledgements, evictions and
\* every expiry, however many instances race. With crashes, failed commands or
\* commands run again it need not: the hazards say where.
THEOREM NoCountKeyForever ==
    ASSUME Faults \cap {"crash", "redisError", "lostReply"} = {}
    PROVE  Spec => []CountKeyExpires
<1>1. ExpiryInv => CountKeyExpires
  BY DEF ExpiryInv
<1> QED
  BY <1>1, ExpiryInvariant, PTL

-----------------------------------------------------------------------------
(* Nothing dropped. A handler that finds no count key for a finding it has      *)
(* counted acknowledges the copy. No instance that waits for the quorum meets  *)
(* that: the key is there unless Redis was made to forget it, because the undo *)
(* of a failed send leaves the confirmations of the others. It takes back one  *)
(* of a quorum of at least two, and nobody else takes one back meanwhile.      *)

WaitsFor(i, f) == f \in cache[i] \/ (cur[i] = f /\ pc[i] = "get")

WaitersCounted ==
    \A i \in Instances, f \in Findings \ forgotten : WaitsFor(i, f) => f \in stored

\* The holder of the claim still has the quorum, and is never the one that deletes
\* the key.
QuorumHeld ==
    \A i \in Instances : cur[i] \notin forgotten =>
        /\ pc[i] \in {"send", "decr"} => count[cur[i]] >= QuorumSize
        /\ pc[i] # "dropCount"

KeepInv == WaitersCounted /\ QuorumHeld /\ NothingDropped

TextIsOut(f) == \E g \in Findings : Body[g] = Body[f] /\ Delivered(g)

\* What a handler step does to the count key, the LRU and the message, and what it
\* takes to come to the send and its undo.
LEMMA HandleKeep ==
    ASSUME TypeOK, NEW i \in Instances, Handle(i)
    PROVE  /\ \/ UNCHANGED <<count, stored>>
              \/ IncrCount(cur[i])
              \/ DecrCount(cur[i]) /\ pc[i] = "decr"
              \/ DelCount(cur[i]) /\ (pc[i] = "dropCount" \/ Forget(cur[i]))
           /\ pc'[i] # "get"
           /\ \A f \in cache'[i] : f \in cache[i] \/ (f = cur[i] /\ IncrCount(f))
           /\ pc'[i] \in {"send", "decr"} =>
                  /\ UNCHANGED <<count, forgotten>>
                  /\ pc[i] = "send" \/ (pc[i] = "claim" /\ count[cur[i]] >= QuorumSize)
           /\ pc'[i] = "dropCount" =>
                  pc[i] = "decr" /\ DecrCount(cur[i]) /\ count'[cur[i]] <= 0
<1> USE DEF TypeOK, HandlerTypeOK, Goto, AckAndReturn, NakAndReturn, CacheAdd, CacheRemove,
            RedisError, redis, history
<1>1. CASE Incr(i)
  BY <1>1 DEF Incr
<1>2. CASE Expire(i)
  BY <1>2 DEF Expire, ExpireCountKey
<1>3. CASE UndoCount(i)
  BY <1>3 DEF UndoCount
<1>4. CASE GetCount(i)
  BY <1>4 DEF GetCount
<1>5. CASE GetStatus(i)
  BY <1>5 DEF GetStatus
<1>6. CASE ShortenKeys(i)
  BY <1>6 DEF ShortenKeys, ExpireCountKey
<1>7. CASE GetCoolDown(i)
  BY <1>7 DEF GetCoolDown
<1>8. CASE Claim(i)
  BY <1>8 DEF Claim, SetSendingStatus, SetStatus, Claimable
<1>9. CASE SendFinding(i)
  BY <1>9 DEF SendFinding
<1>10. CASE AckSent(i)
  BY <1>10 DEF AckSent
<1>11. CASE MarkSent(i)
  BY <1>11 DEF MarkSent, SetStatus
<1>12. CASE StartCoolDown(i)
  BY <1>12 DEF StartCoolDown, SetCoolDown
<1>13. CASE Decr(i)
  BY <1>13 DEF Decr
<1>14. CASE DropCount(i)
  BY <1>14 DEF DropCount
<1>15. CASE Release(i)
  BY <1>15 DEF Release, SetStatus
<1> QED
  BY <1>1, <1>2, <1>3, <1>4, <1>5, <1>6, <1>7, <1>8, <1>9, <1>10,
     <1>11, <1>12, <1>13, <1>14, <1>15 DEF Handle

\* When a handler settles its message: no count key, a mark in Redis, or its own post.
LEMMA HandleSettles ==
    ASSUME TypeOK, NEW i \in Instances, Handle(i), NEW f \in Findings,
           msg'[i][f] = "settled", msg[i][f] # "settled"
    PROVE  /\ f = cur[i]
           /\ \/ pc[i] = "get" /\ f \notin stored
              \/ status[f] = "sent"
              \/ Body[f] \in cooldown
              \/ pc[i] = "ack"
<1> USE DEF TypeOK, HandlerTypeOK, NatsTypeOK, AckAndReturn, NakAndReturn, Ack, Nak
<1>1. f = cur[i] /\ ~ Nak(i) /\ ~ UNCHANGED msg
  <2>1. StreamMove(i)
    BY HandleShape
  <2>2. ~ Nak(i) /\ ~ UNCHANGED msg
    BY DEF MsgStates
  <2> QED
    BY <2>1, <2>2 DEF StreamMove
<1>2. pc[i] \in {"get", "status", "cooldown", "ack"}
  BY <1>1 DEF Handle, Incr, Expire, UndoCount, GetCount, GetStatus, ShortenKeys, GetCoolDown,
              Claim, SendFinding, AckSent, MarkSent, StartCoolDown, Decr, DropCount, Release
<1>3. CASE GetCount(i)
  BY <1>1, <1>3 DEF GetCount
<1>4. CASE GetStatus(i)
  BY <1>1, <1>4 DEF GetStatus
<1>5. CASE GetCoolDown(i)
  BY <1>1, <1>5 DEF GetCoolDown
<1>6. CASE AckSent(i)
  BY <1>1, <1>6 DEF AckSent
<1> QED
  BY <1>1, <1>2, <1>3, <1>4, <1>5, <1>6
     DEF Handle, Incr, Expire, UndoCount, ShortenKeys, Claim, SendFinding, MarkSent,
         StartCoolDown, Decr, DropCount, Release

\* Notifications are not taken back and findings not remembered again.
LEMMA OutStaysOut ==
    ASSUME TypeOK, \A j \in Instances, f \in Findings : sent[j][f] > 0 => sent'[j][f] > 0
    PROVE  /\ \A f \in Findings : Delivered(f) => Delivered(f)'
           /\ \A f \in Findings : TextIsOut(f) => TextIsOut(f)'
<1>1. \A f \in Findings : Delivered(f) => Delivered(f)'
  BY DEF Delivered
<1> QED
  BY <1>1 DEF TextIsOut

\* A handler step drops nothing, and keeps the keys that others wait for.
LEMMA HandleKeepsKeys ==
    ASSUME TypeOK, MarkInv, ClaimInv, KeepInv, QuorumSize >= 2, NEW i \in Instances, Handle(i)
    PROVE  KeepInv'
<1> DEFINE c == cur[i]
<1>1. /\ c \in Findings /\ UNCHANGED cur
      /\ count \in [Findings -> Int]
      /\ \A j \in Instances \ {i} : pc'[j] = pc[j] /\ cache'[j] = cache[j] /\ msg'[j] = msg[j]
  BY HandleShape DEF Goto, StreamMove, Ack, Nak, CacheMove, CacheAdd, CacheRemove,
                     TypeOK, HandlerTypeOK, RedisTypeOK, NatsTypeOK
<1>2. forgotten \subseteq forgotten'
  BY HandleShape DEF ForgetMove, Forget
<1>3. \A j \in Instances, f \in Findings : sent[j][f] > 0 => sent'[j][f] > 0
  BY HandleShape, PostedStays
<1>4. \/ c \in forgotten'
      \/ UNCHANGED <<count, stored>>
      \/ IncrCount(c)
      \/ DecrCount(c) /\ pc[i] = "decr"
  BY <1>2, HandleKeep DEF Forget, KeepInv, QuorumHeld
<1>5. WaitersCounted'
  <2> SUFFICES ASSUME NEW j \in Instances, NEW f \in Findings, f \notin forgotten',
                      WaitsFor(j, f)'
               PROVE  f \in stored'
    BY DEF WaitersCounted
  <2>1. WaitsFor(j, f) \/ (f = c /\ IncrCount(f))
    BY <1>1, HandleKeep DEF WaitsFor
  <2>2. CASE WaitsFor(j, f)
    <3>1. f \in stored /\ f \notin forgotten
      BY <1>2, <2>2 DEF KeepInv, WaitersCounted
    <3>2. CASE f = c
      BY <1>4, <3>1, <3>2 DEF IncrCount, DecrCount
    <3>3. CASE f # c
      BY <3>1, <3>3, HandleKeep DEF IncrCount, DecrCount, DelCount
    <3> QED
      BY <3>2, <3>3
  <2> QED
    BY <2>1, <2>2 DEF IncrCount
<1>6. QuorumHeld'
  <2> SUFFICES ASSUME NEW j \in Instances, cur[j] \notin forgotten'
               PROVE  /\ pc'[j] \in {"send", "decr"} => count'[cur[j]] >= QuorumSize
                      /\ pc'[j] # "dropCount"
    BY <1>1 DEF QuorumHeld
  <2>1. /\ cur[j] \in Findings /\ cur[j] \notin forgotten
        /\ pc[j] \in {"send", "decr"} => count[cur[j]] >= QuorumSize
        /\ pc[j] # "dropCount"
    BY <1>2 DEF KeepInv, QuorumHeld, TypeOK, HandlerTypeOK
  <2>2. CASE j = i
    <3>1. pc'[i] \in {"send", "decr"} => count'[c] >= QuorumSize
      BY <2>1, <2>2, HandleKeep
    <3>2. pc'[i] # "dropCount"
      <4>1. QuorumSize \in Nat /\ count[c] \in Int
        BY <1>1, QuorumAssumption
      <4> QED
        BY <1>1, <2>1, <2>2, <4>1, HandleKeep DEF DecrCount
    <3> QED
      BY <2>2, <3>1, <3>2
  <2>3. CASE j # i
    <3>1. pc'[j] = pc[j]
      BY <1>1, <2>3
    <3>2. ASSUME pc[j] \in {"send", "decr"} PROVE count'[cur[j]] >= count[cur[j]]
      <4>1. cur[j] = c => pc[i] \notin Sending
        BY <2>1, <2>3, <3>2 DEF ClaimInv, OneSender, Holds, Sending
      <4>2. count[cur[j]] \in Int
        BY <1>1, <2>1
      <4>3. CASE cur[j] = c
        BY <1>1, <1>4, <2>1, <4>1, <4>2, <4>3 DEF IncrCount, Sending
      <4>4. CASE cur[j] # c
        BY <1>1, <2>1, <4>2, <4>4, HandleKeep DEF IncrCount, DecrCount, DelCount
      <4> QED
        BY <4>3, <4>4
    <3>3. count'[cur[j]] \in Int /\ count[cur[j]] \in Int /\ QuorumSize \in Nat
      <4>1. TypeOK'
        BY HandleType
      <4> QED
        BY <2>1, <4>1, QuorumAssumption DEF TypeOK, RedisTypeOK
    <3> QED
      BY <2>1, <3>1, <3>2, <3>3
  <2> QED
    BY <2>2, <2>3
<1>7. NothingDropped'
  <2> SUFFICES ASSUME NEW j \in Instances, NEW f \in Wanted, f \notin forgotten',
                      msg'[j][f] = "settled"
               PROVE  TextIsOut(f)'
    BY DEF NothingDropped, TextIsOut
  <2>1. f \in Findings /\ f \notin forgotten
    BY <1>2, FindingsAssumption
  <2>2. TextIsOut(f)
    <3>1. CASE msg[j][f] = "settled"
      BY <2>1, <3>1 DEF KeepInv, NothingDropped, TextIsOut
    <3>2. CASE msg[j][f] # "settled"
      <4>1. j = i
        BY <1>1, <3>2
      <4>2. f = c /\ \/ pc[i] = "get" /\ f \notin stored
                     \/ status[f] = "sent" \/ Body[f] \in cooldown \/ pc[i] = "ack"
        BY <2>1, <3>2, <4>1, HandleSettles
      <4>3. ~ (pc[i] = "get" /\ f \notin stored)
        BY <2>1, <4>2 DEF KeepInv, WaitersCounted, WaitsFor
      <4>4. CASE status[f] = "sent" \/ Body[f] \in cooldown
        BY <2>1, <4>4 DEF MarkInv, SentIsTruthful, TextIsOut
      <4>5. CASE pc[i] = "ack"
        BY <2>1, <4>2, <4>5 DEF MarkInv, MarkerPosted, Marking, TextIsOut, Delivered
      <4> QED
        BY <4>2, <4>3, <4>4, <4>5
    <3> QED
      BY <3>1, <3>2
  <2> QED
    BY <1>3, <2>1, <2>2, OutStaysOut
<1> QED
  BY <1>5, <1>6, <1>7 DEF KeepInv

\* Every other step keeps the keys too, unless a command is run again.
LEMMA KeepStep ==
    ASSUME "lostReply" \notin Faults, QuorumSize >= 2
    PROVE  TypeOK /\ MarkInv /\ ClaimInv /\ KeepInv /\ [Next]_vars => KeepInv'
<1> SUFFICES ASSUME TypeOK, MarkInv, ClaimInv, KeepInv, [Next]_vars PROVE KeepInv'
  OBVIOUS
<1> USE DEF KeepInv, WaitersCounted, WaitsFor, QuorumHeld, NothingDropped, Delivered
<1>1. ASSUME NEW i \in Instances, LostReply(i) PROVE FALSE
  BY <1>1, NotAFault DEF LostReply
<1>2. ASSUME NEW i \in Instances, Crash(i) PROVE KeepInv'
  <2>1. /\ UNCHANGED <<count, stored, forgotten, msg, sent, cur>>
        /\ pc' = [pc EXCEPT ![i] = "idle"] /\ cache' = [cache EXCEPT ![i] = {}]
    BY <1>2 DEF Crash, Goto, redis, history
  <2>2. pc \in [Instances -> PCs] /\ cache \in [Instances -> SUBSET Findings]
    BY DEF TypeOK, HandlerTypeOK
  <2> QED
    BY <2>1, <2>2
<1>3. ASSUME NEW i \in Instances, NEW f \in Findings,
             Publish(i, f) \/ Deliver(i, f) \/ AckTimeout(i, f) \/ AckLost(i, f)
      PROVE  KeepInv'
  <2>1. UNCHANGED <<count, stored, forgotten, sent, pc, cur, cache>>
    BY <1>3, TransportShape DEF redis, handler, history
  <2>2. \A j \in Instances, g \in Findings : msg'[j][g] = "settled" => msg[j][g] = "settled"
    BY <1>3 DEF Publish, Deliver, AckTimeout, AckLost, TypeOK, NatsTypeOK
  <2> QED
    BY <2>1, <2>2, FindingsAssumption
<1>4. ASSUME NEW i \in Instances, NEW f \in Findings, CacheExpires(i, f) \/ Evict(i, f)
      PROVE  KeepInv'
  <2>1. /\ UNCHANGED <<count, stored, forgotten, msg, sent, pc, cur>>
        /\ cache' = [cache EXCEPT ![i] = @ \ {f}]
    BY <1>4 DEF CacheExpires, Evict, redis, nats, history
  <2>2. \A j \in Instances : cache'[j] \subseteq cache[j]
    BY <2>1 DEF TypeOK, HandlerTypeOK
  <2> QED
    BY <2>1, <2>2
<1>5. ASSUME NEW i \in Instances, NEW f \in Findings, Receive(i, f) PROVE KeepInv'
  <2>1. UNCHANGED <<count, stored, forgotten, sent, cache>> /\ cur'[i] = f
    BY <1>5 DEF Receive, redis, TypeOK, HandlerTypeOK
  <2>2. pc'[i] \in {"idle", "incr", "get"} /\ (pc'[i] = "get" => f \in cache[i])
    BY <1>5 DEF Receive, Goto, TypeOK, HandlerTypeOK
  <2>3. \A j \in Instances \ {i} : pc'[j] = pc[j] /\ cur'[j] = cur[j]
    BY <1>5 DEF Receive, Goto, TypeOK, HandlerTypeOK
  <2>4. \A j \in Instances, g \in Wanted : msg'[j][g] = "settled" => msg[j][g] = "settled"
    <3>1. UNCHANGED msg \/ (f \notin Wanted /\ msg' = [msg EXCEPT ![i][f] = "settled"])
      BY <1>5 DEF Receive
    <3>2. msg \in [Instances -> [Findings -> MsgStates]] /\ Wanted \subseteq Findings
      BY FindingsAssumption DEF TypeOK, NatsTypeOK
    <3> QED
      BY <3>1, <3>2
  <2>5. WaitersCounted' /\ QuorumHeld'
    BY <2>1, <2>2, <2>3
  <2>6. NothingDropped'
    BY <2>1, <2>4
  <2> QED
    BY <2>5, <2>6
<1>6. ASSUME NEW f \in Findings, CountExpires(f) PROVE KeepInv'
  <2>1. /\ UNCHANGED <<pc, cur, cache, msg, sent>>
        /\ DelCount(f) /\ Forget(f)
    BY <1>6 DEF CountExpires, nats, handler
  <2>2. /\ forgotten' = forgotten \cup {f} /\ stored' = stored \ {f}
        /\ \A g \in Findings \ {f} : count'[g] = count[g]
    BY <2>1 DEF DelCount, Forget, TypeOK, RedisTypeOK
  <2>3. \A i \in Instances : cur[i] \in Findings
    BY DEF TypeOK, HandlerTypeOK
  <2>4. WaitersCounted'
    BY <2>1, <2>2
  <2>5. QuorumHeld'
    BY <2>1, <2>2, <2>3
  <2>6. NothingDropped'
    BY <2>1, <2>2
  <2> QED
    BY <2>4, <2>5, <2>6
<1>7. ASSUME NEW f \in Findings, StatusExpires(f) PROVE KeepInv'
  BY <1>7 DEF StatusExpires, SetStatus, nats, handler, history
<1>8. CASE UNCHANGED vars
  BY <1>8 DEF vars, redis, nats, handler, history
<1> QED
  BY <1>1, <1>2, <1>3, <1>4, <1>5, <1>6, <1>7, <1>8, HandleKeepsKeys DEF Next

\* The keys stay where they are waited for in every reachable state.
LEMMA KeepInvariant ==
    ASSUME "lostReply" \notin Faults, QuorumSize >= 2
    PROVE  Spec => []KeepInv
<1>1. Init => KeepInv
  BY FindingsAssumption
     DEF Init, KeepInv, WaitersCounted, WaitsFor, QuorumHeld, NothingDropped
<1>2. TypeOK /\ MarkInv /\ ClaimInv /\ KeepInv /\ [Next]_vars => KeepInv'
  BY KeepStep
<1> QED
  BY <1>1, <1>2, TypeCorrect, MarkInvariant, ClaimInvariant, PTL DEF Spec

\* A wanted message leaves the stream only when its text is out, unless its count
\* key expired or was deleted for want of a TTL (collectQuorumCount acknowledges
\* on a missing key). Under every fault but a command run again, and for a quorum of
\* two or more: a quorum of one lets the last holder delete the key just after
\* another instance has counted.
THEOREM NoneDropped ==
    ASSUME "lostReply" \notin Faults, QuorumSize >= 2
    PROVE  Spec => []NothingDropped
<1>1. KeepInv => NothingDropped
  BY DEF KeepInv
<1> QED
  BY <1>1, KeepInvariant, PTL

\* Nothing is forgotten where count keys outlive their findings and EXPIRE does not
\* fail.
Remembered == forgotten = {} /\ \A i \in Instances : pc[i] # "undo"

\* Only an expiry or an undone count forgets, and only a failed EXPIRE is undone.
LEMMA RememberStep ==
    ASSUME Faults \cap {"redisError", "countExpiry", "lostReply"} = {}
    PROVE  TypeOK /\ Remembered /\ [Next]_vars => Remembered'
<1> SUFFICES ASSUME TypeOK, Remembered, [Next]_vars PROVE Remembered'
  OBVIOUS
<1> USE DEF Remembered, TypeOK, HandlerTypeOK, history, handler, Goto
<1>1. ASSUME NEW i \in Instances, Handle(i) PROVE Remembered'
  <2>1. pc' = [pc EXCEPT ![i] = pc'[i]]
    BY <1>1, HandleShape
  <2>2. UNCHANGED forgotten
    BY <1>1, NotAFault DEF Handle, Incr, Expire, UndoCount, GetCount, GetStatus, ShortenKeys,
       GetCoolDown, Claim, SendFinding, AckSent, MarkSent, StartCoolDown, Decr, DropCount, Release
  <2>3. pc'[i] # "undo"
    BY <1>1, NotAFault DEF RedisError, AckAndReturn, NakAndReturn, Handle, Incr, Expire, UndoCount,
       GetCount, GetStatus, ShortenKeys, GetCoolDown, Claim, SendFinding, AckSent, MarkSent,
       StartCoolDown, Decr, DropCount, Release
  <2> QED
    BY <2>1, <2>2, <2>3
<1>2. ASSUME NEW i \in Instances, Crash(i) PROVE Remembered'
  BY <1>2 DEF Crash
<1>3. ASSUME NEW i \in Instances, NEW f \in Findings,
             Publish(i, f) \/ Deliver(i, f) \/ AckTimeout(i, f) \/ AckLost(i, f)
      PROVE  Remembered'
  BY <1>3, TransportShape
<1>4. ASSUME NEW i \in Instances, NEW f \in Findings,
             Receive(i, f) \/ CacheExpires(i, f) \/ Evict(i, f)
      PROVE  Remembered'
  BY <1>4 DEF Receive, CacheExpires, Evict
<1>5. ASSUME NEW f \in Findings, StatusExpires(f) PROVE Remembered'
  BY <1>5 DEF StatusExpires
<1>6. /\ \A f \in Findings : ~ CountExpires(f)
      /\ \A i \in Instances : ~ LostReply(i)
  BY NotAFault DEF CountExpires, LostReply
<1>7. CASE UNCHANGED vars
  BY <1>7 DEF vars
<1> QED
  BY <1>1, <1>2, <1>3, <1>4, <1>5, <1>6, <1>7 DEF Next

\* Where Redis forgets nothing and runs nothing twice, and the quorum is two or more, a
\* wanted message leaves the stream only when its text is out: failed and unanswered
\* sends, crashes, lost acknowledgements, evictions and the expiry of the status key
\* drop nothing. With a quorum of one a failed send can (see NoneDropped).
THEOREM SettledIsNotified ==
    ASSUME Faults \cap {"redisError", "countExpiry", "lostReply"} = {}, QuorumSize >= 2
    PROVE  Spec => []SettledMeansNotified
<1>1. Init => Remembered
  BY DEF Init, Remembered
<1>2. TypeOK /\ Remembered /\ [Next]_vars => Remembered'
  BY RememberStep
<1>3. Remembered /\ NothingDropped => SettledMeansNotified
  BY DEF Remembered, NothingDropped, SettledMeansNotified
<1>4. Spec => []NothingDropped
  BY NoneDropped
<1> QED
  BY <1>1, <1>2, <1>3, <1>4, TypeCorrect, PTL DEF Spec

-----------------------------------------------------------------------------
(* What the count key counts. Until a finding is posted its count is at most    *)
(* the number of instances that remember having counted it and have not taken  *)
(* that back: nobody confirms twice. So a claim has a quorum of sightings      *)
(* behind it. After the post the count may exceed them (an instance that finds *)
(* the finding sent forgets it and leaves the count), and nobody reads it.     *)

\* The LRU says they counted f, and they have not taken it back.
Confirmed(f) ==
    {i \in Instances : f \in cache[i] /\ ~ (cur[i] = f /\ pc[i] \in {"dropCount", "release"})}

CountBacked ==
    \A f \in Findings : Delivered(f) \/ count[f] <= Cardinality(Confirmed(f))

\* An instance counts what its LRU does not hold, and only what it has taken up.
CountersFresh ==
    /\ \A i \in Instances : pc[i] = "incr" => cur[i] \notin cache[i]
    /\ \A i \in Instances : pc[i] # "idle" => i \in sighted[cur[i]]
    /\ \A i \in Instances : \A f \in cache[i] : i \in sighted[f]

SendersHaveQuorum ==
    \A i \in Instances : pc[i] = "send" => Cardinality(sighted[cur[i]]) >= QuorumSize

QuorumInv == CountBacked /\ CountersFresh /\ SendersHaveQuorum /\ QuorumBeforeSend

\* There is a number of them, before and after a step.
LEMMA ConfirmedFinite ==
    \A f : Cardinality(Confirmed(f)) \in Nat /\ Cardinality(Confirmed(f)') \in Nat
  BY InstancesAssumption, FS_Subset, FS_CardinalityType DEF Confirmed

\* Two sets of instances that differ in i at most have about the same size.
LEMMA NearlySame ==
    ASSUME NEW S \in SUBSET Instances, NEW T \in SUBSET Instances, NEW i, S \ {i} = T \ {i}
    PROVE  /\ Cardinality(S) \in Nat /\ Cardinality(T) \in Nat
           /\ Cardinality(T) >= Cardinality(S) - 1
           /\ i \in T /\ i \notin S => Cardinality(T) = Cardinality(S) + 1
           /\ (i \in S => i \in T) => Cardinality(T) >= Cardinality(S)
<1>1. IsFiniteSet(S) /\ IsFiniteSet(T)
  BY InstancesAssumption, FS_Subset
<1>2. Cardinality(S) \in Nat /\ Cardinality(T) \in Nat
  BY <1>1, FS_CardinalityType
<1>3. /\ Cardinality(S \ {i}) = IF i \in S THEN Cardinality(S) - 1 ELSE Cardinality(S)
      /\ Cardinality(T \ {i}) = IF i \in T THEN Cardinality(T) - 1 ELSE Cardinality(T)
  BY <1>1, FS_RemoveElement
<1>4. Cardinality(S \ {i}) = Cardinality(T \ {i})
  OBVIOUS
<1> QED
  BY <1>2, <1>3, <1>4

\* The sightings of a finding only become more.
LEMMA MoreSighted ==
    ASSUME TypeOK, NEW f \in Findings, sighted'[f] \subseteq Instances,
           sighted[f] \subseteq sighted'[f]
    PROVE  Cardinality(sighted[f]) >= QuorumSize => Cardinality(sighted'[f]) >= QuorumSize
<1>1. IsFiniteSet(sighted'[f]) /\ IsFiniteSet(sighted[f])
  BY InstancesAssumption, FS_Subset DEF TypeOK, HistoryTypeOK
<1>2. Cardinality(sighted[f]) <= Cardinality(sighted'[f])
  BY <1>1, FS_Subset
<1> QED
  BY <1>1, <1>2, FS_CardinalityType, QuorumAssumption

\* What a handler step does to the count and to its own confirmation, where commands
\* do not fail: they go up and down together, the finding is known to be sent, or
\* there is no key any more.
LEMMA HandleConfirms ==
    ASSUME TypeOK, NEW i \in Instances, Handle(i), "redisError" \notin Faults
    PROVE  \/ DelCount(cur[i]) \/ DecrCount(cur[i])
           \/ IncrCount(cur[i]) /\ pc[i] = "incr" /\ i \in Confirmed(cur[i])'
           \/ /\ UNCHANGED count
              /\ \/ i \in Confirmed(cur[i]) => i \in Confirmed(cur[i])'
                 \/ cur[i] \notin stored
                 \/ status[cur[i]] = "sent"
<1> USE NotAFault DEF TypeOK, HandlerTypeOK, Goto, AckAndReturn, NakAndReturn,
            CacheAdd, CacheRemove, RedisError, LocalStep, redis, Confirmed
<1>1. CASE Incr(i)
  BY <1>1 DEF Incr
<1>2. CASE Expire(i)
  BY <1>2 DEF Expire, ExpireCountKey
<1>3. CASE UndoCount(i)
  BY <1>3 DEF UndoCount
<1>4. CASE GetCount(i)
  BY <1>4 DEF GetCount
<1>5. CASE GetStatus(i)
  BY <1>5 DEF GetStatus
<1>6. CASE ShortenKeys(i)
  BY <1>6 DEF ShortenKeys, ExpireCountKey
<1>7. CASE GetCoolDown(i)
  BY <1>7 DEF GetCoolDown
<1>8. CASE Claim(i)
  BY <1>8 DEF Claim, SetSendingStatus, SetStatus
<1>9. CASE SendFinding(i)
  BY <1>9 DEF SendFinding
<1>10. CASE AckSent(i)
  BY <1>10 DEF AckSent
<1>11. CASE MarkSent(i)
  BY <1>11 DEF MarkSent, SetStatus
<1>12. CASE StartCoolDown(i)
  BY <1>12 DEF StartCoolDown, SetCoolDown
<1>13. CASE Decr(i)
  BY <1>13 DEF Decr
<1>14. CASE DropCount(i)
  BY <1>14 DEF DropCount
<1>15. CASE Release(i)
  BY <1>15 DEF Release, SetStatus
<1> QED
  BY <1>1, <1>2, <1>3, <1>4, <1>5, <1>6, <1>7, <1>8, <1>9, <1>10,
     <1>11, <1>12, <1>13, <1>14, <1>15 DEF Handle

\* How a handler comes to count, to send and to post.
LEMMA HandleProgress ==
    ASSUME TypeOK, NEW i \in Instances, Handle(i)
    PROVE  /\ pc[i] # "idle" /\ pc'[i] # "incr"
           /\ \A f \in cache'[i] : f \in cache[i] \/ f = cur[i]
           /\ pc'[i] = "send" => pc[i] = "claim" /\ count[cur[i]] >= QuorumSize
           /\ UNCHANGED sent \/ (pc[i] = "send" /\ Posted(i))
<1> USE DEF TypeOK, HandlerTypeOK, Goto, AckAndReturn, NakAndReturn, CacheAdd, CacheRemove,
            history
<1>1. \A f \in cache'[i] : f \in cache[i] \/ f = cur[i]
  BY HandleShape DEF CacheMove
<1>2. pc[i] # "idle" /\ pc'[i] # "incr"
  BY DEF Handle, Incr, Expire, UndoCount, GetCount, GetStatus, ShortenKeys, GetCoolDown,
         Claim, SendFinding, AckSent, MarkSent, StartCoolDown, Decr, DropCount, Release
<1>3. pc'[i] = "send" => pc[i] = "claim" /\ count[cur[i]] >= QuorumSize
  BY DEF Handle, Incr, Expire, UndoCount, GetCount, GetStatus, ShortenKeys, GetCoolDown,
         Claim, SendFinding, AckSent, MarkSent, StartCoolDown, Decr, DropCount, Release, Claimable
<1>4. UNCHANGED sent \/ (pc[i] = "send" /\ Posted(i))
  BY DEF Handle, Incr, Expire, UndoCount, GetCount, GetStatus, ShortenKeys, GetCoolDown,
         Claim, SendFinding, AckSent, MarkSent, StartCoolDown, Decr, DropCount, Release
<1> QED
  BY <1>1, <1>2, <1>3, <1>4

\* A handler step keeps the count backed by sightings and sends only with a quorum.
LEMMA HandleKeepsQuorum ==
    ASSUME TypeOK, MarkInv, ExpiryInv, QuorumInv, NEW i \in Instances, Handle(i),
           "redisError" \notin Faults
    PROVE  QuorumInv'
<1> DEFINE c == cur[i]
<1>1. /\ c \in Findings /\ UNCHANGED <<cur, sighted>>
      /\ \A j \in Instances \ {i} : pc'[j] = pc[j] /\ cache'[j] = cache[j]
  BY HandleShape DEF Goto, CacheMove, CacheAdd, CacheRemove, PostMove, TypeOK, HandlerTypeOK
<1>2. /\ \A f \in Findings : count[f] \in Int /\ count'[f] \in Int
      /\ \A f \in Findings \ {c} : count'[f] = count[f]
  <2>1. TypeOK'
    BY HandleType
  <2>2. \A f \in Findings \ {c} : count'[f] = count[f]
    BY HandleShape DEF RedisCommand, IncrCount, DecrCount, DelCount, ExpireCountKey,
                       SetStatus, SetCoolDown, redis, TypeOK, RedisTypeOK
  <2> QED
    BY <2>1, <2>2 DEF TypeOK, RedisTypeOK
<1>3. \A f \in Findings : Delivered(f) => Delivered(f)'
  <2>1. \A j \in Instances, f \in Findings : sent[j][f] > 0 => sent'[j][f] > 0
    BY HandleShape, PostedStays
  <2> QED
    BY <2>1, OutStaysOut
<1>4. \A f \in Findings : Confirmed(f) \in SUBSET Instances /\ Confirmed(f)' \in SUBSET Instances
  BY DEF Confirmed
<1>5. CountBacked'
  <2> SUFFICES ASSUME NEW f \in Findings, ~ Delivered(f)'
               PROVE  count'[f] <= Cardinality(Confirmed(f)')
    BY DEF CountBacked
  <2>1. count[f] <= Cardinality(Confirmed(f))
    BY <1>3 DEF QuorumInv, CountBacked
  <2>2. CASE f # c
    <3>1. Confirmed(f)' = Confirmed(f)
      <4>1. \A g \in Findings \ {c} : g \in cache'[i] <=> g \in cache[i]
        BY <1>1, HandleShape DEF CacheMove, CacheAdd, CacheRemove, TypeOK, HandlerTypeOK
      <4> QED
        BY <1>1, <2>2, <4>1 DEF Confirmed
    <3> QED
      BY <1>2, <2>1, <2>2, <3>1
  <2>3. CASE f = c
    <3>1. Confirmed(c) \ {i} = Confirmed(c)' \ {i}
      BY <1>1 DEF Confirmed
    <3> DEFINE S == Confirmed(c)
               T == Confirmed(c)'
    <3>0. S \in SUBSET Instances /\ T \in SUBSET Instances
      BY <1>1, <1>4
    <3>2. /\ Cardinality(Confirmed(c)) \in Nat /\ Cardinality(Confirmed(c)') \in Nat
          /\ Cardinality(Confirmed(c)') >= Cardinality(Confirmed(c)) - 1
          /\ i \in Confirmed(c)' /\ i \notin Confirmed(c) =>
                 Cardinality(Confirmed(c)') = Cardinality(Confirmed(c)) + 1
          /\ (i \in Confirmed(c) => i \in Confirmed(c)') =>
                 Cardinality(Confirmed(c)') >= Cardinality(Confirmed(c))
      <4> HIDE DEF S, T
      <4>1. S \ {i} = T \ {i}
        BY <3>1 DEF S, T
      <4>2. /\ Cardinality(S) \in Nat /\ Cardinality(T) \in Nat
            /\ Cardinality(T) >= Cardinality(S) - 1
            /\ i \in T /\ i \notin S => Cardinality(T) = Cardinality(S) + 1
            /\ (i \in S => i \in T) => Cardinality(T) >= Cardinality(S)
        BY <3>0, <4>1, NearlySame
      <4> QED
        BY <4>2 DEF S, T
    <3>3. CASE DelCount(c)
      BY <1>1, <2>3, <3>2, <3>3 DEF DelCount, TypeOK, RedisTypeOK
    <3>4. CASE DecrCount(c)
      BY <1>1, <1>2, <2>1, <2>3, <3>2, <3>4 DEF DecrCount, TypeOK, RedisTypeOK
    <3>5. CASE IncrCount(c) /\ pc[i] = "incr" /\ i \in Confirmed(c)'
      <4>1. i \notin Confirmed(c)
        BY <3>5 DEF Confirmed, QuorumInv, CountersFresh
      <4>2. count'[c] = count[c] + 1
        BY <1>1, <3>5 DEF IncrCount, TypeOK, RedisTypeOK
      <4> QED
        BY <1>1, <1>2, <2>1, <2>3, <3>2, <3>5, <4>1, <4>2
    <3>6. CASE UNCHANGED count /\ (i \in Confirmed(c) => i \in Confirmed(c)')
      BY <1>1, <1>2, <2>1, <2>3, <3>2, <3>6
    <3>7. CASE UNCHANGED count /\ c \notin stored
      BY <1>1, <2>3, <3>2, <3>7 DEF ExpiryInv, Absent
    <3>8. status[c] # "sent"
      BY <1>1, <1>3, <2>3 DEF MarkInv, SentIsTruthful
    <3> QED
      BY <3>3, <3>4, <3>5, <3>6, <3>7, <3>8, HandleConfirms
  <2> QED
    BY <2>2, <2>3
<1>6. CountersFresh'
  BY <1>1, HandleProgress DEF QuorumInv, CountersFresh
<1>7. SendersHaveQuorum'
  <2>1. ASSUME pc'[i] = "send" PROVE Cardinality(sighted[c]) >= QuorumSize
    <3>1. count[c] >= QuorumSize
      BY <2>1, HandleProgress
    <3>2. CASE Delivered(c)
      BY <1>1, <3>2 DEF QuorumInv, QuorumBeforeSend
    <3>3. CASE ~ Delivered(c)
      <4>1. count[c] <= Cardinality(Confirmed(c))
        BY <1>1, <3>3 DEF QuorumInv, CountBacked
      <4>2. Confirmed(c) \subseteq sighted[c]
        BY DEF Confirmed, QuorumInv, CountersFresh
      <4>3. IsFiniteSet(sighted[c])
        BY <1>1, InstancesAssumption, FS_Subset DEF TypeOK, HistoryTypeOK
      <4>4. Cardinality(Confirmed(c)) <= Cardinality(sighted[c])
        BY <4>2, <4>3, FS_Subset
      <4>5. Cardinality(sighted[c]) \in Nat /\ Cardinality(Confirmed(c)) \in Nat
        BY <4>2, <4>3, FS_Subset, FS_CardinalityType
      <4> QED
        BY <1>1, <1>2, <3>1, <4>1, <4>4, <4>5, QuorumAssumption
    <3> QED
      BY <3>2, <3>3
  <2> QED
    BY <1>1, <2>1 DEF QuorumInv, SendersHaveQuorum
<1>8. QuorumBeforeSend'
  <2> SUFFICES ASSUME NEW f \in Findings, Delivered(f)'
               PROVE  Cardinality(sighted[f]) >= QuorumSize
    BY <1>1 DEF QuorumBeforeSend
  <2>1. Delivered(f) \/ (pc[i] = "send" /\ f = c)
    BY <1>1, HandleProgress DEF Delivered, Posted, TypeOK, HistoryTypeOK
  <2> QED
    BY <2>1 DEF QuorumInv, QuorumBeforeSend, SendersHaveQuorum
<1> QED
  BY <1>5, <1>6, <1>7, <1>8 DEF QuorumInv

\* Every other step does so too, where an instance keeps its memory.
LEMMA QuorumStep ==
    ASSUME Faults \cap {"crash", "redisError", "lostReply", "evict"} = {}
    PROVE  TypeOK /\ MarkInv /\ ExpiryInv /\ QuorumInv /\ [Next]_vars => QuorumInv'
<1> SUFFICES ASSUME TypeOK, MarkInv, ExpiryInv, QuorumInv, [Next]_vars PROVE QuorumInv'
  OBVIOUS
<1>1. /\ \A i \in Instances : ~ LostReply(i) /\ ~ Crash(i)
      /\ \A i \in Instances, f \in Findings : ~ Evict(i, f)
  BY NotAFault DEF LostReply, Crash, Evict
<1>2. ASSUME NEW i \in Instances, NEW f \in Findings,
             Publish(i, f) \/ Deliver(i, f) \/ AckTimeout(i, f) \/ AckLost(i, f)
      PROVE  QuorumInv'
  BY <1>2, TransportShape
     DEF redis, handler, history, QuorumInv, CountBacked, CountersFresh, SendersHaveQuorum,
         QuorumBeforeSend, Delivered, Confirmed
<1>3. ASSUME NEW i \in Instances, NEW f \in Findings, Receive(i, f) PROVE QuorumInv'
  <2>1. UNCHANGED <<count, cache, sent>> /\ cur'[i] = f /\ pc[i] = "idle"
    BY <1>3 DEF Receive, redis, TypeOK, HandlerTypeOK
  <2>2. \A j \in Instances \ {i} : pc'[j] = pc[j] /\ cur'[j] = cur[j]
    BY <1>3 DEF Receive, Goto, TypeOK, HandlerTypeOK
  <2>3. /\ pc'[i] \in {"idle", "incr", "get"}
        /\ pc'[i] = "incr" => f \notin cache[i]
        /\ pc'[i] # "idle" => i \in sighted'[f]
    BY <1>3 DEF Receive, Goto, TypeOK, HandlerTypeOK, HistoryTypeOK
  <2>4. \A g \in Findings : sighted[g] \subseteq sighted'[g] /\ sighted'[g] \subseteq Instances
    BY <1>3 DEF Receive, TypeOK, HistoryTypeOK
  <2>5. \A g \in Findings : Cardinality(sighted[g]) >= QuorumSize
                                => Cardinality(sighted'[g]) >= QuorumSize
    BY <2>4, MoreSighted
  <2>6. \A g \in Findings : Confirmed(g)' = Confirmed(g)
    BY <2>1, <2>2, <2>3 DEF Confirmed
  <2>7. cur \in [Instances -> Findings] /\ cache \in [Instances -> SUBSET Findings]
    BY DEF TypeOK, HandlerTypeOK
  <2>8. CountBacked'
    BY <2>1, <2>6 DEF QuorumInv, CountBacked, Delivered
  <2>9. CountersFresh'
    BY <2>1, <2>2, <2>3, <2>4, <2>7 DEF QuorumInv, CountersFresh
  <2>10. SendersHaveQuorum'
    BY <2>2, <2>3, <2>5, <2>7 DEF QuorumInv, SendersHaveQuorum
  <2>11. QuorumBeforeSend'
    BY <2>1, <2>5 DEF QuorumInv, QuorumBeforeSend, Delivered
  <2> QED
    BY <2>8, <2>9, <2>10, <2>11 DEF QuorumInv
<1>4. ASSUME NEW i \in Instances, NEW f \in Findings, CacheExpires(i, f) PROVE QuorumInv'
  <2>1. UNCHANGED <<count, sighted, sent, pc, cur>> /\ cache' = [cache EXCEPT ![i] = @ \ {f}]
    BY <1>4 DEF CacheExpires, redis, history
  <2>2. \A j \in Instances : cache'[j] \subseteq cache[j] /\ cache[j] \ {f} = cache'[j] \ {f}
    BY <2>1 DEF TypeOK, HandlerTypeOK
  <2>3. f \notin stored
    BY <1>4 DEF CacheExpires, ExpiryInv, CountKeyExpires
  <2>4. count[f] = 0 /\ Cardinality(Confirmed(f)') \in Nat
    BY <2>3, ConfirmedFinite DEF ExpiryInv, Absent
  <2>5. \A g \in Findings \ {f} : Confirmed(g)' = Confirmed(g)
    BY <2>1, <2>2 DEF Confirmed
  <2>6. CountBacked'
    BY <2>1, <2>4, <2>5 DEF QuorumInv, CountBacked, Delivered
  <2>7. CountersFresh' /\ SendersHaveQuorum' /\ QuorumBeforeSend'
    BY <2>1, <2>2 DEF QuorumInv, CountersFresh, SendersHaveQuorum, QuorumBeforeSend, Delivered
  <2> QED
    BY <2>6, <2>7 DEF QuorumInv
<1>5. ASSUME NEW f \in Findings, CountExpires(f) PROVE QuorumInv'
  <2>1. UNCHANGED <<sighted, sent, cache, pc, cur>> /\ count' = [count EXCEPT ![f] = 0]
    BY <1>5 DEF CountExpires, DelCount, handler
  <2>2. \A g \in Findings : count'[g] = IF g = f THEN 0 ELSE count[g]
    BY <2>1 DEF TypeOK, RedisTypeOK
  <2>3. \A g \in Findings : Confirmed(g)' = Confirmed(g)
    BY <2>1 DEF Confirmed
  <2>4. CountBacked'
    BY <2>1, <2>2, <2>3, ConfirmedFinite DEF QuorumInv, CountBacked, Delivered
  <2>5. CountersFresh' /\ SendersHaveQuorum' /\ QuorumBeforeSend'
    BY <2>1 DEF QuorumInv, CountersFresh, SendersHaveQuorum, QuorumBeforeSend, Delivered
  <2> QED
    BY <2>4, <2>5 DEF QuorumInv
<1>6. ASSUME NEW f \in Findings, StatusExpires(f) PROVE QuorumInv'
  BY <1>6
  DEF StatusExpires, SetStatus, handler, history, QuorumInv, CountBacked, CountersFresh, SendersHaveQuorum,
              QuorumBeforeSend, Delivered, Confirmed
<1>7. CASE UNCHANGED vars
  BY <1>7
  DEF vars, redis, handler, history, QuorumInv, CountBacked, CountersFresh, SendersHaveQuorum,
              QuorumBeforeSend, Delivered, Confirmed
<1> QED
  BY <1>1, <1>2, <1>3, <1>4, <1>5, <1>6, <1>7, HandleKeepsQuorum DEF Next

\* The count stays backed by sightings in every reachable state.
LEMMA QuorumInvariant ==
    ASSUME Faults \cap {"crash", "redisError", "lostReply", "evict"} = {}
    PROVE  Spec => []QuorumInv
<1>1. Init => QuorumInv
  <2> SUFFICES ASSUME Init PROVE QuorumInv
    OBVIOUS
  <2>1. CountersFresh /\ SendersHaveQuorum /\ QuorumBeforeSend
    BY DEF Init, CountersFresh, SendersHaveQuorum, QuorumBeforeSend, Delivered
  <2>2. CountBacked
    BY ConfirmedFinite DEF Init, CountBacked
  <2> QED
    BY <2>1, <2>2 DEF QuorumInv
<1>2. TypeOK /\ MarkInv /\ ExpiryInv /\ QuorumInv /\ [Next]_vars => QuorumInv'
  BY QuorumStep
<1>3. Spec => []ExpiryInv
  BY ExpiryInvariant
<1> QED
  BY <1>1, <1>2, <1>3, TypeCorrect, MarkInvariant, PTL DEF Spec

\* A notification goes out only for a finding that QuorumSize instances have taken
\* up themselves (collectQuorumCount and SetSendingStatus): under failed and
\* unanswered sends, lost acknowledgements and every expiry nobody confirms a
\* finding twice. An instance that loses its memory may, and so may one whose DECR
\* fails or whose INCR is run again.
THEOREM QuorumComesFirst ==
    ASSUME Faults \cap {"crash", "redisError", "lostReply", "evict"} = {}
    PROVE  Spec => []QuorumBeforeSend
<1>1. QuorumInv => QuorumBeforeSend
  BY DEF QuorumInv
<1> QED
  BY <1>1, QuorumInvariant, PTL
=============================================================================
