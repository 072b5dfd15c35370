------------------------ MODULE QuorumPromiseProofs ------------------------
(***************************************************************************)
(* Theorems about the notifications of QuorumConsumer: a text goes out     *)
(* once per instance, a finding once, and the whole keeps the promise that *)
(* module Alert states.                                                    *)
(***************************************************************************)
EXTENDS QuorumCountProofs

-----------------------------------------------------------------------------
(* How a handler comes to post, and what it does afterwards. *)

\* The handler holds the claim and has not posted, unless the answer was lost.
Unposted == {"send", "decr", "dropCount", "release"}

\* A handler step posts only from "send", and goes on to mark the finding.
LEMMA HandlePosts ==
    ASSUME TypeOK, NEW i \in Instances, Handle(i), "sendLost" \notin Faults
    PROVE  /\ \/ UNCHANGED sent
              \/ pc[i] = "send" /\ pc'[i] = "ack" /\ Posted(i) /\ UNCHANGED <<status, cooldown>>
           /\ pc'[i] \in Unposted =>
                  /\ UNCHANGED sent
                  /\ pc[i] \in Unposted \/ (pc[i] = "claim" /\ status[cur[i]] = "not_send")
           /\ pc'[i] = "send" => pc[i] = "claim" /\ UNCHANGED sent
           /\ pc'[i] = "claim" =>
                  /\ pc[i] = "cooldown" /\ UNCHANGED <<sent, redis>>
                  /\ Body[cur[i]] \notin cooldown \/ "redisError" \in Faults
           /\ \A f \in Findings : status'[f] = "not_send" =>
                  status[f] = "not_send" \/ (f = cur[i] /\ pc[i] = "release")
<1> USE NotAFault DEF TypeOK, HandlerTypeOK, RedisTypeOK, Goto, AckAndReturn, NakAndReturn,
            Fault, RedisError, redis, history, Unposted
<1>1. CASE Incr(i)
  BY <1>1 DEF Incr, IncrCount
<1>2. CASE Expire(i)
  BY <1>2 DEF Expire, ExpireCountKey
<1>3. CASE UndoCount(i)
  BY <1>3 DEF UndoCount, DelCount
<1>4. CASE GetCount(i)
  BY <1>4 DEF GetCount
<1>5. CASE GetStatus(i)
  BY <1>5 DEF GetStatus
<1>6. CASE ShortenKeys(i)
  BY <1>6 DEF ShortenKeys, ExpireCountKey
<1>7. CASE GetCoolDown(i)
  BY <1>7 DEF GetCoolDown
<1>8. CASE Claim(i)
  BY <1>8 DEF Claim, SetSendingStatus, SetStatus, Claimable
<1>9. CASE SendFinding(i)
  BY <1>9 DEF SendFinding
<1>10. CASE AckSent(i)
  BY <1>10 DEF AckSent
<1>11. CASE MarkSent(i)
  BY <1>11 DEF MarkSent, SetStatus
<1>12. CASE StartCoolDown(i)
  BY <1>12 DEF StartCoolDown, SetCoolDown
<1>13. CASE Decr(i)
  BY <1>13 DEF Decr, DecrCount
<1>14. CASE DropCount(i)
  BY <1>14 DEF DropCount, DelCount
<1>15. CASE Release(i)
  BY <1>15 DEF Release, SetStatus
<1> QED
  BY <1>1, <1>2, <1>3, <1>4, <1>5, <1>6, <1>7, <1>8, <1>9, <1>10,
     <1>11, <1>12, <1>13, <1>14, <1>15 DEF Handle

\* What a handler does from the post to its return, where commands do not fail; the
\* cool-down it starts stays.
LEMMA HandleMarksOn ==
    ASSUME TypeOK, NEW i \in Instances, Handle(i), "redisError" \notin Faults
    PROVE  /\ cooldown \subseteq cooldown'
           /\ pc[i] \in {"ack", "markSent"} => pc'[i] \in Marking /\ UNCHANGED sent
           /\ pc[i] = "setCool" => Body[cur[i]] \in cooldown' /\ UNCHANGED sent
           /\ pc'[i] = "setCool" => status'[cur[i]] = "sent"
<1> USE NotAFault DEF TypeOK, HandlerTypeOK, RedisTypeOK, Goto, AckAndReturn, NakAndReturn,
            RedisError, redis, history, Marking
<1>1. cooldown \subseteq cooldown'
  BY HandleShape
     DEF RedisCommand, IncrCount, DecrCount, DelCount, ExpireCountKey, SetStatus, SetCoolDown
<1>2. CASE AckSent(i)
  BY <1>1, <1>2 DEF AckSent
<1>3. CASE MarkSent(i)
  BY <1>1, <1>3 DEF MarkSent, SetStatus
<1>4. CASE StartCoolDown(i)
  BY <1>1, <1>4 DEF StartCoolDown, SetCoolDown
<1>5. CASE ~ (AckSent(i) \/ MarkSent(i) \/ StartCoolDown(i))
  BY <1>1, <1>5
     DEF Handle, Incr, Expire, UndoCount, GetCount, GetStatus, ShortenKeys, GetCoolDown,
         Claim, SendFinding, Decr, DropCount, Release
<1> QED
  BY <1>2, <1>3, <1>4, <1>5

-----------------------------------------------------------------------------
(* One text per instance. What an instance has posted is on cool-down, or is    *)
(* the finding whose cool-down its handler is about to start; the handler does *)
(* not take up another one before.                                             *)

PostedIsCooling ==
    \A i \in Instances, f \in Findings : sent[i][f] > 0 =>
        Body[f] \in cooldown \/ (cur[i] = f /\ pc[i] \in Marking)

SendersAreFirst ==
    \A i \in Instances : pc[i] \in {"claim", "send"} =>
        \A g \in Findings : Body[g] = Body[cur[i]] => sent[i][g] = 0

SilenceInv == PostedIsCooling /\ SendersAreFirst /\ CoolDownSilences

\* A handler step posts no text a second time.
LEMMA HandleKeepsSilence ==
    ASSUME TypeOK, SilenceInv, NEW i \in Instances, Handle(i),
           Faults \cap {"redisError", "sendLost"} = {}
    PROVE  SilenceInv'
<1> DEFINE c == cur[i]
<1>1. /\ c \in Findings /\ UNCHANGED cur
      /\ \A j \in Instances \ {i} : pc'[j] = pc[j] /\ sent'[j] = sent[j]
      /\ \A f \in Findings \ {c} : sent'[i][f] = sent[i][f]
      /\ \A f \in Findings : sent[i][f] \in Nat /\ sent'[i][f] \in Nat
      /\ cur \in [Instances -> Findings]
  <2>1. TypeOK'
    BY HandleType
  <2>2. \A j \in Instances \ {i} : pc'[j] = pc[j] /\ sent'[j] = sent[j]
    BY HandleShape DEF Goto, PostMove, Posted, TypeOK, HandlerTypeOK, HistoryTypeOK
  <2>3. \A f \in Findings \ {c} : sent'[i][f] = sent[i][f]
    BY HandleShape DEF PostMove, Posted, TypeOK, HistoryTypeOK
  <2> QED
    BY <2>1, <2>2, <2>3, HandleShape DEF TypeOK, HandlerTypeOK, HistoryTypeOK
<1>2. cooldown \subseteq cooldown'
  BY HandleMarksOn
<1>3. \A g \in Findings : sent'[i][g] > 0 => sent[i][g] > 0 \/ (g = c /\ pc[i] = "send" /\ pc'[i] = "ack")
  BY <1>1, HandlePosts
<1>4. PostedIsCooling'
  <2> SUFFICES ASSUME NEW j \in Instances, NEW f \in Findings, sent'[j][f] > 0
               PROVE  Body[f] \in cooldown' \/ (cur[j] = f /\ pc'[j] \in Marking)
    BY <1>1 DEF PostedIsCooling
  <2>1. CASE j # i
    BY <1>1, <1>2, <2>1 DEF SilenceInv, PostedIsCooling
  <2>2. CASE j = i /\ sent[i][f] > 0
    <3>1. Body[f] \in cooldown \/ (c = f /\ pc[i] \in Marking)
      BY <2>2 DEF SilenceInv, PostedIsCooling
    <3> QED
      BY <1>2, <2>2, <3>1, HandleMarksOn DEF Marking
  <2>3. CASE j = i /\ ~ (sent[i][f] > 0)
    BY <1>3, <2>3 DEF Marking
  <2> QED
    BY <2>1, <2>2, <2>3
<1>5. SendersAreFirst'
  <2>1. ASSUME pc'[i] = "claim", NEW g \in Findings, Body[g] = Body[c] PROVE sent'[i][g] = 0
    <3>1. UNCHANGED sent /\ Body[c] \notin cooldown /\ pc[i] = "cooldown"
      BY <2>1, HandlePosts
    <3> QED
      BY <1>1, <2>1, <3>1 DEF SilenceInv, PostedIsCooling, Marking
  <2>2. ASSUME pc'[i] = "send", NEW g \in Findings, Body[g] = Body[c] PROVE sent'[i][g] = 0
    BY <2>2, HandlePosts DEF SilenceInv, SendersAreFirst
  <2> QED
    BY <1>1, <2>1, <2>2 DEF SilenceInv, SendersAreFirst
<1>6. CoolDownSilences'
  <2>1. CASE UNCHANGED sent
    BY <2>1 DEF SilenceInv, CoolDownSilences
  <2>2. CASE pc[i] = "send"
    BY <1>1, <2>2 DEF SilenceInv, SendersAreFirst, CoolDownSilences
  <2> QED
    BY <2>1, <2>2, HandlePosts
<1> QED
  BY <1>4, <1>5, <1>6 DEF SilenceInv

\* No other step posts anything.
LEMMA SilenceStep ==
    ASSUME Faults \cap {"crash", "redisError", "sendLost"} = {}
    PROVE  TypeOK /\ SilenceInv /\ [Next]_vars => SilenceInv'
<1> SUFFICES ASSUME TypeOK, SilenceInv, [Next]_vars PROVE SilenceInv'
  OBVIOUS
<1>1. ASSUME cooldown \subseteq cooldown', UNCHANGED sent,
             \A i \in Instances :
                 \/ pc'[i] = pc[i] /\ cur'[i] = cur[i]
                 \/ pc[i] \notin Marking /\ pc'[i] \notin {"claim", "send"}
      PROVE  SilenceInv'
  BY <1>1 DEF SilenceInv, PostedIsCooling, SendersAreFirst, CoolDownSilences
<1>2. ASSUME NEW i \in Instances, LostReply(i) PROVE SilenceInv'
  <2>1. cooldown \subseteq cooldown'
    BY <1>2, LostReplyShape
       DEF RedisCommand, IncrCount, DecrCount, DelCount, ExpireCountKey, SetStatus, SetCoolDown,
           redis
  <2> QED
    BY <1>1, <1>2, <2>1, LostReplyShape DEF handler
<1>3. \A i \in Instances : ~ Crash(i)
  BY NotAFault DEF Crash
<1>4. ASSUME NEW i \in Instances, NEW f \in Findings,
             \/ Publish(i, f) \/ Deliver(i, f) \/ AckTimeout(i, f)
             \/ AckLost(i, f) \/ CacheExpires(i, f) \/ Evict(i, f)
      PROVE  SilenceInv'
  <2>1. UNCHANGED <<cooldown, sent, pc, cur>>
    BY <1>4, TransportShape DEF CacheExpires, Evict, redis, handler, history
  <2> QED
    BY <1>1, <2>1
<1>5. ASSUME NEW i \in Instances, NEW f \in Findings, Receive(i, f) PROVE SilenceInv'
  <2>1. UNCHANGED <<cooldown, sent>>
    BY <1>5 DEF Receive, redis
  <2>2. pc[i] = "idle" /\ pc'[i] \in {"idle", "get", "incr"}
    BY <1>5 DEF Receive, Goto, TypeOK, HandlerTypeOK
  <2>3. \A j \in Instances \ {i} : pc'[j] = pc[j] /\ cur'[j] = cur[j]
    BY <1>5 DEF Receive, Goto, TypeOK, HandlerTypeOK
  <2> QED
    BY <1>1, <2>1, <2>2, <2>3 DEF Marking
<1>6. ASSUME NEW f \in Findings, CountExpires(f) \/ StatusExpires(f) PROVE SilenceInv'
  <2>1. UNCHANGED <<cooldown, sent, pc, cur>>
    BY <1>6 DEF CountExpires, DelCount, StatusExpires, SetStatus, handler, history
  <2> QED
    BY <1>1, <2>1
<1>7. CASE UNCHANGED vars
  BY <1>1, <1>7 DEF vars, redis, handler, history
<1> QED
  BY <1>2, <1>3, <1>4, <1>5, <1>6, <1>7, HandleKeepsSilence DEF Next

\* Texts stay silenced in every reachable state.
LEMMA SilenceInvariant ==
    ASSUME Faults \cap {"crash", "redisError", "sendLost"} = {}
    PROVE  Spec => []SilenceInv
<1>1. Init => SilenceInv
  BY DEF Init, SilenceInv, PostedIsCooling, SendersAreFirst, CoolDownSilences
<1>2. TypeOK /\ SilenceInv /\ [Next]_vars => SilenceInv'
  BY SilenceStep
<1> QED
  BY <1>1, <1>2, TypeCorrect, PTL DEF Spec

\* An instance posts a text once, however many findings carry it (getCoolDownKey
\* and its use in GetConsumeHandler): under failed sends, lost acknowledgements,
\* commands run again, evictions and every expiry but that of the cool-down itself.
\* A crash before SetCoolDown, a failure of it or of GetCoolDown, and a send whose
\* answer is lost leave the text open.
THEOREM TextOncePerInstance ==
    ASSUME Faults \cap {"crash", "redisError", "sendLost"} = {}
    PROVE  Spec => []CoolDownSilences
<1>1. SilenceInv => CoolDownSilences
  BY DEF SilenceInv
<1> QED
  BY <1>1, SilenceInvariant, PTL

-----------------------------------------------------------------------------
(* One notification per finding. The claim keeps two instances from posting at  *)
(* a time; that nobody claims after the post takes a mark that stays. Without   *)
(* the expiry of the status key that is the key itself, which a poster leaves   *)
(* at "sending" or "sent" even where it crashes or its commands fail. Where it  *)
(* expires it is the cool-down, which the poster starts before the key can.     *)

ClaimersBlocked ==
    \A i \in Instances : pc[i] = "claim" /\ Delivered(cur[i]) => status[cur[i]] # "not_send"

UndoersUnposted ==
    \A i \in Instances : pc[i] \in Unposted => ~ Delivered(cur[i])

OnceInv == ClaimersBlocked /\ UndoersUnposted /\ DeliveredAtMostOnce

StatusStays == \A f \in Findings : Delivered(f) => status[f] # "not_send"

CoolersMarked == \A i \in Instances : pc[i] = "setCool" => status[cur[i]] = "sent"

\* Where a handler is from the post to its return, the status key says so.
LEMMA MarkingIsBlocked ==
    ASSUME TypeOK, ClaimInv, CoolersMarked, NEW i \in Instances, pc[i] \in Marking
    PROVE  status[cur[i]] # "not_send"
  BY DEF Marking, CoolersMarked, ClaimInv, ClaimBacked, Sending

\* A handler step posts once, given that one which passes the cool-down is blocked
\* by the status.
LEMMA HandleKeepsOnce ==
    ASSUME TypeOK, ClaimInv, OnceInv, NEW i \in Instances, Handle(i), "sendLost" \notin Faults,
           pc'[i] = "claim" /\ Delivered(cur[i]) => status[cur[i]] # "not_send"
    PROVE  OnceInv'
<1> DEFINE c == cur[i]
<1>1. /\ c \in Findings /\ UNCHANGED cur
      /\ \A j \in Instances : cur[j] \in Findings
      /\ \A j \in Instances \ {i} : pc'[j] = pc[j]
      /\ sent \in [Instances -> [Findings -> Nat]]
  BY HandleShape DEF Goto, TypeOK, HandlerTypeOK, HistoryTypeOK
<1>2. \A f \in Findings : Delivered(f)' =>
          Delivered(f) \/ (f = c /\ pc[i] = "send" /\ pc'[i] = "ack" /\ UNCHANGED status)
  BY <1>1, HandlePosts DEF Delivered, Posted
<1>3. pc[i] \in Unposted => ~ Delivered(c)
  BY DEF OnceInv, UndoersUnposted
<1>4. ClaimersBlocked'
  <2> SUFFICES ASSUME NEW j \in Instances, pc'[j] = "claim", Delivered(cur[j])'
               PROVE  status'[cur[j]] # "not_send"
    BY <1>1 DEF ClaimersBlocked
  <2>1. CASE j = i
    BY <1>1, <1>2, <2>1, HandlePosts DEF redis
  <2>2. CASE j # i /\ Delivered(cur[j])
    <3>1. status[cur[j]] # "not_send"
      BY <1>1, <2>2 DEF OnceInv, ClaimersBlocked
    <3>2. ~ (cur[j] = c /\ pc[i] = "release")
      BY <1>3, <2>2 DEF Unposted
    <3> QED
      BY <1>1, <3>1, <3>2, HandlePosts
  <2>3. CASE cur[j] = c /\ pc[i] = "send" /\ UNCHANGED status
    BY <2>3 DEF ClaimInv, ClaimBacked, Sending
  <2> QED
    BY <1>1, <1>2, <2>1, <2>2, <2>3
<1>5. UndoersUnposted'
  <2> SUFFICES ASSUME NEW j \in Instances, pc'[j] \in Unposted
               PROVE  ~ Delivered(cur[j])'
    BY <1>1 DEF UndoersUnposted
  <2>1. CASE j = i
    <3>1. ~ Delivered(c)
      BY <1>3, <2>1, HandlePosts DEF OnceInv, ClaimersBlocked
    <3> QED
      BY <1>1, <1>2, <2>1, <3>1 DEF Unposted
  <2>2. CASE j # i
    <3>1. pc[j] \in Unposted /\ ~ Delivered(cur[j])
      BY <1>1, <2>2 DEF OnceInv, UndoersUnposted
    <3>2. ~ (cur[j] = c /\ pc[i] = "send")
      BY <1>1, <2>2, <3>1 DEF ClaimInv, OneSender, Holds, Sending, Unposted
    <3> QED
      BY <1>1, <1>2, <3>1, <3>2
  <2> QED
    BY <2>1, <2>2
<1>6. DeliveredAtMostOnce'
  <2>1. CASE UNCHANGED sent
    BY <2>1 DEF OnceInv, DeliveredAtMostOnce
  <2>2. CASE pc[i] = "send" /\ Posted(i)
    <3>1. \A j \in Instances : sent[j][c] = 0
      BY <1>1, <1>3, <2>2 DEF Unposted, Delivered
    <3> QED
      BY <1>1, <2>2, <3>1 DEF Posted, OnceInv, DeliveredAtMostOnce
  <2> QED
    BY <2>1, <2>2, HandlePosts
<1> QED
  BY <1>4, <1>5, <1>6 DEF OnceInv

\* Nor does any other step, given that none takes away the status of a posted
\* finding that an instance is about to claim.
LEMMA OthersKeepOnce ==
    ASSUME TypeOK, OnceInv, [Next]_vars, \A i \in Instances : ~ Handle(i),
           "lostReply" \notin Faults
    PROVE  OnceInv' /\ UNCHANGED sent
<1>1. ASSUME UNCHANGED sent,
             \A i \in Instances :
                 \/ pc'[i] = pc[i] /\ cur'[i] = cur[i]
                 \/ pc'[i] \notin {"claim"} \cup Unposted,
             \A i \in Instances : pc[i] = "claim" => status'[cur[i]] = status[cur[i]]
      PROVE  OnceInv'
  BY <1>1 DEF OnceInv, ClaimersBlocked, UndoersUnposted, DeliveredAtMostOnce, Delivered
<1>2. ASSUME NEW i \in Instances, Crash(i) PROVE OnceInv' /\ UNCHANGED sent
  <2>1. UNCHANGED <<status, sent, cur>> /\ pc' = [pc EXCEPT ![i] = "idle"]
    BY <1>2 DEF Crash, Goto, redis, history
  <2>2. pc'[i] = "idle" /\ \A j \in Instances \ {i} : pc'[j] = pc[j]
    BY <2>1 DEF TypeOK, HandlerTypeOK
  <2> QED
    BY <1>1, <2>1, <2>2 DEF Unposted
<1>3. \A i \in Instances : ~ LostReply(i)
  BY NotAFault DEF LostReply
<1>4. ASSUME NEW i \in Instances, NEW f \in Findings,
             \/ Publish(i, f) \/ Deliver(i, f) \/ AckTimeout(i, f)
             \/ AckLost(i, f) \/ CacheExpires(i, f) \/ Evict(i, f)
      PROVE  OnceInv' /\ UNCHANGED sent
  <2>1. UNCHANGED <<status, sent, pc, cur>>
    BY <1>4, TransportShape DEF CacheExpires, Evict, redis, handler, history
  <2> QED
    BY <1>1, <2>1
<1>5. ASSUME NEW i \in Instances, NEW f \in Findings, Receive(i, f)
      PROVE  OnceInv' /\ UNCHANGED sent
  <2>1. UNCHANGED <<status, sent>>
    BY <1>5 DEF Receive, redis
  <2>2. pc'[i] \in {"idle", "get", "incr"}
    BY <1>5 DEF Receive, Goto, TypeOK, HandlerTypeOK
  <2>3. \A j \in Instances \ {i} : pc'[j] = pc[j] /\ cur'[j] = cur[j]
    BY <1>5 DEF Receive, Goto, TypeOK, HandlerTypeOK
  <2> QED
    BY <1>1, <2>1, <2>2, <2>3 DEF Unposted
<1>6. ASSUME NEW f \in Findings, CountExpires(f) PROVE OnceInv' /\ UNCHANGED sent
  BY <1>1, <1>6 DEF CountExpires, DelCount, handler
<1>7. ASSUME NEW f \in Findings, StatusExpires(f) PROVE OnceInv' /\ UNCHANGED sent
  <2>1. UNCHANGED <<sent, pc, cur>> /\ status' = [status EXCEPT ![f] = "not_send"]
    BY <1>7 DEF StatusExpires, SetStatus, handler, history
  <2>2. \A i \in Instances : pc[i] = "claim" => cur[i] # f
    BY <1>7 DEF StatusExpires, PastStatus
  <2>3. \A i \in Instances : pc[i] = "claim" => status'[cur[i]] = status[cur[i]]
    BY <2>1, <2>2 DEF TypeOK, RedisTypeOK, HandlerTypeOK
  <2> QED
    BY <1>1, <2>1, <2>3
<1>8. CASE UNCHANGED vars
  BY <1>1, <1>8 DEF vars, redis, handler, history
<1> QED
  BY <1>2, <1>3, <1>4, <1>5, <1>6, <1>7, <1>8 DEF Next

\* Where the status key does not expire it blocks every later claim.
LEMMA OnceByStatus ==
    ASSUME Faults \cap {"lostReply", "sendLost", "statusExpiry"} = {}
    PROVE  TypeOK /\ ClaimInv /\ OnceInv /\ StatusStays /\ [Next]_vars
               => OnceInv' /\ StatusStays'
<1> SUFFICES ASSUME TypeOK, ClaimInv, OnceInv, StatusStays, [Next]_vars
             PROVE  OnceInv' /\ StatusStays'
  OBVIOUS
<1>1. ASSUME NEW i \in Instances, Handle(i) PROVE OnceInv' /\ StatusStays'
  <2>1. cur[i] \in Findings
    BY DEF TypeOK, HandlerTypeOK
  <2>2. OnceInv'
    BY <1>1, <2>1, HandleKeepsOnce DEF StatusStays
  <2>3. ASSUME NEW f \in Findings, Delivered(f)', status'[f] = "not_send" PROVE FALSE
    <3>1. CASE Delivered(f)
      <4>1. f = cur[i] /\ pc[i] = "release"
        BY <1>1, <2>3, <3>1, HandlePosts DEF StatusStays
      <4> QED
        BY <3>1, <4>1 DEF OnceInv, UndoersUnposted, Unposted
    <3>2. CASE ~ Delivered(f)
      <4>1. f = cur[i] /\ pc[i] = "send" /\ UNCHANGED status
        BY <1>1, <2>1, <2>3, <3>2, HandlePosts DEF Delivered, Posted, TypeOK, HistoryTypeOK
      <4> QED
        BY <2>3, <4>1 DEF ClaimInv, ClaimBacked, Sending
    <3> QED
      BY <3>1, <3>2
  <2> QED
    BY <2>2, <2>3 DEF StatusStays
<1>2. CASE \A i \in Instances : ~ Handle(i)
  <2>1. OnceInv' /\ UNCHANGED sent
    BY <1>2, OthersKeepOnce
  <2>2. UNCHANGED status
    BY <1>2, NotAFault, TransportShape
       DEF Next, vars, redis, LostReply, Crash, CacheExpires, Evict, Receive, CountExpires,
           DelCount, StatusExpires
  <2> QED
    BY <2>1, <2>2 DEF StatusStays, Delivered
<1> QED
  BY <1>1, <1>2

\* Where it does, the cool-down has been started before.
LEMMA OnceByCoolDown ==
    ASSUME Faults \cap {"lostReply", "sendLost", "crash", "redisError"} = {}
    PROVE  TypeOK /\ ClaimInv /\ SilenceInv /\ OnceInv /\ CoolersMarked /\ [Next]_vars
               => OnceInv' /\ CoolersMarked'
<1> SUFFICES ASSUME TypeOK, ClaimInv, SilenceInv, OnceInv, CoolersMarked, [Next]_vars
             PROVE  OnceInv' /\ CoolersMarked'
  OBVIOUS
<1>1. \A i \in Instances : cur[i] \in Findings
  BY DEF TypeOK, HandlerTypeOK
<1>2. ASSUME NEW i \in Instances, Handle(i) PROVE OnceInv' /\ CoolersMarked'
  <2>1. ASSUME pc'[i] = "claim", Delivered(cur[i]) PROVE status[cur[i]] # "not_send"
    <3>1. Body[cur[i]] \notin cooldown
      BY <1>2, <2>1, HandlePosts
    <3>2. PICK j \in Instances : sent[j][cur[i]] > 0
      BY <2>1 DEF Delivered
    <3>3. cur[j] = cur[i] /\ pc[j] \in Marking
      BY <1>1, <3>1, <3>2 DEF SilenceInv, PostedIsCooling
    <3> QED
      BY <3>3, MarkingIsBlocked
  <2>2. OnceInv'
    BY <1>2, <2>1, HandleKeepsOnce
  <2>3. CoolersMarked'
    <3> SUFFICES ASSUME NEW j \in Instances, pc'[j] = "setCool"
                 PROVE  status'[cur[j]] = "sent"
      BY <1>2, HandleShape DEF CoolersMarked
    <3>1. CASE j = i
      BY <1>2, <3>1, HandleMarksOn
    <3>2. CASE j # i
      <4>1. pc[j] = "setCool" /\ status[cur[j]] = "sent"
        BY <1>2, <3>2, HandleShape DEF Goto, TypeOK, HandlerTypeOK, CoolersMarked
      <4>2. \/ UNCHANGED status
            \/ status[cur[i]] = "not_send" /\ status' = [status EXCEPT ![cur[i]] = "sending"]
            \/ status[cur[i]] = "sending" /\ \E s \in Statuses : status' = [status EXCEPT ![cur[i]] = s]
        BY <1>2, HandleClaim DEF ClaimInv, ClaimBacked
      <4> QED
        BY <1>1, <4>1, <4>2 DEF TypeOK, RedisTypeOK
    <3> QED
      BY <3>1, <3>2
  <2> QED
    BY <2>2, <2>3
<1>3. CASE \A i \in Instances : ~ Handle(i)
  <2>1. OnceInv'
    BY <1>3, OthersKeepOnce
  <2>2. \A j \in Instances : pc'[j] = "setCool" =>
            pc[j] = "setCool" /\ cur'[j] = cur[j] /\ status'[cur[j]] = status[cur[j]]
    <3>1. ASSUME NEW i \in Instances, NEW f \in Findings, Receive(i, f)
          PROVE  /\ UNCHANGED status /\ pc'[i] # "setCool"
                 /\ \A j \in Instances \ {i} : pc'[j] = pc[j] /\ cur'[j] = cur[j]
      BY <3>1 DEF Receive, Goto, redis, TypeOK, HandlerTypeOK
    <3>2. ASSUME NEW f \in Findings, StatusExpires(f)
          PROVE  /\ UNCHANGED <<pc, cur>>
                 /\ \A j \in Instances : pc[j] = "setCool" => status'[cur[j]] = status[cur[j]]
      BY <3>2 DEF StatusExpires, SetStatus, PastStatus, handler, TypeOK, RedisTypeOK, HandlerTypeOK
    <3>3. ASSUME NEW i \in Instances, NEW f \in Findings,
                 \/ Publish(i, f) \/ Deliver(i, f) \/ AckTimeout(i, f)
                 \/ AckLost(i, f) \/ CacheExpires(i, f) \/ Evict(i, f)
          PROVE  UNCHANGED <<status, pc, cur>>
      BY <3>3, TransportShape DEF CacheExpires, Evict, redis, handler
    <3>4. ASSUME NEW f \in Findings, CountExpires(f) PROVE UNCHANGED <<status, pc, cur>>
      BY <3>4 DEF CountExpires, DelCount, handler
    <3>5. \A i \in Instances : ~ LostReply(i) /\ ~ Crash(i)
      BY NotAFault DEF LostReply, Crash
    <3> QED
      BY <1>3, <3>1, <3>2, <3>3, <3>4, <3>5 DEF Next, vars, redis, handler
  <2> QED
    BY <2>1, <2>2 DEF CoolersMarked
<1> QED
  BY <1>2, <1>3

\* Nothing is posted twice in any reachable state.
LEMMA OnceInvariant ==
    ASSUME Faults \cap {"lostReply", "sendLost"} = {},
           "statusExpiry" \notin Faults \/ Faults \cap {"crash", "redisError"} = {}
    PROVE  Spec => []OnceInv
<1>1. Spec => []ClaimInv
  BY ClaimInvariant
<1>2. Init => OnceInv /\ StatusStays /\ CoolersMarked
  BY DEF Init, OnceInv, ClaimersBlocked, UndoersUnposted, DeliveredAtMostOnce, Delivered,
         Unposted, StatusStays, CoolersMarked
<1>3. ASSUME "statusExpiry" \notin Faults PROVE Spec => []OnceInv
  <2>1. TypeOK /\ ClaimInv /\ OnceInv /\ StatusStays /\ [Next]_vars => OnceInv' /\ StatusStays'
    BY <1>3, OnceByStatus
  <2> QED
    BY <1>1, <1>2, <2>1, TypeCorrect, PTL DEF Spec
<1>4. ASSUME Faults \cap {"crash", "redisError"} = {} PROVE Spec => []OnceInv
  <2>1. /\ TypeOK /\ ClaimInv /\ SilenceInv /\ OnceInv /\ CoolersMarked /\ [Next]_vars
               => OnceInv' /\ CoolersMarked'
    BY <1>4, OnceByCoolDown
  <2>2. Spec => []SilenceInv
    BY <1>4, SilenceInvariant
  <2> QED
    BY <1>1, <1>2, <2>1, <2>2, TypeCorrect, PTL DEF Spec
<1> QED
  BY <1>3, <1>4

\* A finding is posted once, by one instance (SetSendingStatus, SeStatusSent and the
\* cool-down in GetConsumeHandler): under failed sends, lost acknowledgements,
\* evictions and the expiry of counts, and besides that either under crashes and
\* failed commands or under the expiry of the status key. Both together repeat it:
\* a poster that dies before SetCoolDown leaves only the status key.
THEOREM DeliveredOnce ==
    ASSUME Faults \cap {"lostReply", "sendLost"} = {},
           "statusExpiry" \notin Faults \/ Faults \cap {"crash", "redisError"} = {}
    PROVE  Spec => []DeliveredAtMostOnce
<1>1. OnceInv => DeliveredAtMostOnce
  BY DEF OnceInv
<1> QED
  BY <1>1, OnceInvariant, PTL

-----------------------------------------------------------------------------
(* The promise. Every step of the instances is a step of Alert or leaves its    *)
(* variables as they are; seen and forgotten are history variables of this      *)
(* specification, posts and settled are read off the notifications and the      *)
(* messages.                                                                    *)

PostsMap == [f \in Findings |-> UNION {{i} \X (1..sent[i][f]) : i \in Instances}]

SettledMap == [f \in Findings |-> {i \in Instances : msg[i][f] = "settled"}]

\* A finding has posts when somebody has delivered it.
LEMMA PostsMeanDelivered ==
    ASSUME TypeOK, NEW f \in Findings
    PROVE  PostsMap[f] # {} <=> Delivered(f)
<1>1. \A i \in Instances : sent[i][f] \in Nat
  BY DEF TypeOK, HistoryTypeOK
<1>2. ASSUME NEW i \in Instances, sent[i][f] > 0 PROVE PostsMap[f] # {}
  <2>1. <<i, 1>> \in {i} \X (1..sent[i][f])
    BY <1>1, <1>2
  <2> QED
    BY <2>1 DEF PostsMap
<1>3. ASSUME PostsMap[f] # {} PROVE Delivered(f)
  <2>1. PICK i \in Instances : {i} \X (1..sent[i][f]) # {}
    BY <1>3 DEF PostsMap
  <2>2. sent[i][f] > 0
    BY <1>1, <2>1
  <2> QED
    BY <2>2 DEF Delivered
<1> QED
  BY <1>2, <1>3 DEF Delivered

\* The first post of a finding is the first in the map.
LEMMA FirstPost ==
    ASSUME TypeOK, NEW i \in Instances, Posted(i), ~ Delivered(cur[i])
    PROVE  PostsMap' = [PostsMap EXCEPT ![cur[i]] = {<<i, 1>>}]
<1> DEFINE c == cur[i]
<1>1. /\ c \in Findings
      /\ \A j \in Instances, f \in Findings :
            sent'[j][f] = IF j = i /\ f = c THEN sent[i][c] + 1 ELSE sent[j][f]
  BY DEF Posted, TypeOK, HandlerTypeOK, HistoryTypeOK
<1>2. \A j \in Instances : sent[j][c] = 0
  BY <1>1 DEF Delivered, TypeOK, HistoryTypeOK
<1>3. \A f \in Findings \ {c} : PostsMap'[f] = PostsMap[f]
  BY <1>1 DEF PostsMap
<1>4. PostsMap'[c] = {<<i, 1>>}
  <2>1. \A j \in Instances : {j} \X (1..sent'[j][c]) = IF j = i THEN {<<i, 1>>} ELSE {}
    BY <1>1, <1>2
  <2> QED
    BY <1>1, <2>1 DEF PostsMap
<1> QED
  BY <1>1, <1>3, <1>4 DEF PostsMap

\* Where the messages of the other instances and findings stay settled or unsettled.
LEMMA SettledMove ==
    ASSUME NEW i \in Instances, NEW f \in Findings,
           \A j \in Instances, g \in Findings : (j = i /\ g = f)
               \/ (msg'[j][g] = "settled" <=> msg[j][g] = "settled")
    PROVE  /\ msg'[i][f] = "settled" => SettledMap' = [SettledMap EXCEPT ![f] = @ \cup {i}]
           /\ msg'[i][f] # "settled" => SettledMap' = [SettledMap EXCEPT ![f] = @ \ {i}]
           /\ (msg'[i][f] = "settled" <=> msg[i][f] = "settled") => SettledMap' = SettledMap
<1>1. \A g \in Findings \ {f} : SettledMap'[g] = SettledMap[g]
  BY DEF SettledMap
<1>2. msg'[i][f] = "settled" => SettledMap'[f] = SettledMap[f] \cup {i}
  BY DEF SettledMap
<1>3. msg'[i][f] # "settled" => SettledMap'[f] = SettledMap[f] \ {i}
  BY DEF SettledMap
<1>4. (msg'[i][f] = "settled" <=> msg[i][f] = "settled") => SettledMap'[f] = SettledMap[f]
  BY DEF SettledMap
<1>5. /\ SettledMap = [g \in Findings |-> SettledMap[g]]
      /\ SettledMap' = [g \in Findings |-> SettledMap'[g]]
  BY DEF SettledMap
<1> HIDE DEF SettledMap
<1> QED
  BY <1>1, <1>2, <1>3, <1>4, <1>5

\* Alert counts as this specification does.
LEMMA SameCardinality ==
    \A S : Promise!Cardinality(S) = Cardinality(S)
  BY Zenon DEF Promise!Cardinality, Cardinality

\* What a handler step does to the variables of Alert.
LEMMA HandleAbstract ==
    ASSUME TypeOK, NEW i \in Instances, Handle(i), "sendLost" \notin Faults
    PROVE  /\ UNCHANGED sighted
           /\ \/ UNCHANGED <<sent, forgotten>> /\ (Ack(i) \/ Nak(i) \/ UNCHANGED msg)
              \/ pc[i] = "send" /\ Posted(i) /\ UNCHANGED <<msg, forgotten>>
              \/ Forget(cur[i]) /\ Nak(i) /\ UNCHANGED sent
<1> USE NotAFault DEF AckAndReturn, NakAndReturn, history
<1>1. UNCHANGED sighted
  BY HandleShape DEF PostMove
<1>2. CASE UndoCount(i)
  BY <1>1, <1>2 DEF UndoCount
<1>3. CASE SendFinding(i)
  BY <1>1, <1>3 DEF SendFinding
<1>4. CASE ~ (UndoCount(i) \/ SendFinding(i))
  BY <1>1, <1>4
     DEF Handle, Incr, Expire, GetCount, GetStatus, ShortenKeys, GetCoolDown, Claim, AckSent,
         MarkSent, StartCoolDown, Decr, DropCount, Release
<1> QED
  BY <1>2, <1>3, <1>4

\* Everything the refinement rests on.
PromiseInv == TypeOK /\ KeepInv /\ QuorumInv /\ OnceInv

\* Settling a copy, posting, and what else a handler does.
LEMMA HandleImplements ==
    ASSUME PromiseInv, KeepInv', NEW i \in Instances, Handle(i), "sendLost" \notin Faults
    PROVE  [Promise!Next]_(Promise!vars)
<1>0. PICK c \in Findings : c = cur[i]
  BY DEF PromiseInv, TypeOK, HandlerTypeOK
<1>1. TypeOK /\ msg \in [Instances -> [Findings -> MsgStates]]
  BY DEF PromiseInv, TypeOK, NatsTypeOK
<1>2. CASE UNCHANGED <<sent, forgotten, sighted>> /\ Ack(i)
  <2>1. /\ msg'[i][c] = "settled"
        /\ \A j \in Instances, g \in Findings :
              (j = i /\ g = c) \/ (msg'[j][g] = "settled" <=> msg[j][g] = "settled")
    BY <1>0, <1>1, <1>2 DEF Ack
  <2>2. SettledMap' = [SettledMap EXCEPT ![c] = @ \cup {i}]
    BY <1>1, <2>1, SettledMove
  <2>3. c \in Wanted => c \in forgotten \/ \E g \in Findings : Body[g] = Body[c] /\ PostsMap[g] # {}
    <3>1. c \in Wanted => c \in forgotten \/ TextIsOut(c)
      BY <1>2, <2>1 DEF KeepInv, NothingDropped, TextIsOut, Delivered
    <3> QED
      BY <1>1, <3>1, PostsMeanDelivered DEF TextIsOut
  <2>4. PostsMap' = PostsMap
    BY <1>2 DEF PostsMap
  <2>5. Promise!Settle(i, c)
    BY <1>2, <2>2, <2>3, <2>4 DEF Promise!Settle, Promise!TextIsOut, PostsMap, SettledMap
  <2> QED
    BY <2>5 DEF Promise!Next
<1>3. CASE UNCHANGED <<sent, forgotten, sighted>> /\ (Nak(i) \/ UNCHANGED msg)
  <2>1. \A j \in Instances, g \in Findings : msg'[j][g] = "settled" <=> msg[j][g] = "settled"
    BY <1>0, <1>1, <1>3 DEF Nak
  <2>2. SettledMap' = SettledMap /\ PostsMap' = PostsMap
    BY <1>3, <2>1 DEF SettledMap, PostsMap
  <2> QED
    BY <1>3, <2>2 DEF Promise!vars, SettledMap, PostsMap
<1>4. CASE UNCHANGED sighted /\ pc[i] = "send" /\ Posted(i) /\ UNCHANGED <<msg, forgotten>>
  <2>1. ~ Delivered(c)
    BY <1>0, <1>4 DEF PromiseInv, OnceInv, UndoersUnposted, Unposted
  <2>2. PostsMap' = [PostsMap EXCEPT ![c] = {<<i, 1>>}] /\ PostsMap[c] = {}
    BY <1>0, <1>1, <1>4, <2>1, FirstPost, PostsMeanDelivered
  <2>3. i \in sighted[c] /\ Cardinality(sighted[c]) >= QuorumSize
    BY <1>0, <1>4 DEF PromiseInv, QuorumInv, CountersFresh, SendersHaveQuorum
  <2>4. SettledMap' = SettledMap
    BY <1>4 DEF SettledMap
  <2>5. Promise!Post(i, c)
    BY <1>4, <2>2, <2>3, <2>4, SameCardinality DEF Promise!Post, PostsMap, SettledMap
  <2> QED
    BY <2>5 DEF Promise!Next
<1>5. CASE UNCHANGED <<sent, sighted>> /\ Forget(c) /\ Nak(i)
  <2>1. \A j \in Instances, g \in Findings : msg'[j][g] = "settled" <=> msg[j][g] = "settled"
    BY <1>0, <1>1, <1>5 DEF Nak
  <2>2. SettledMap' = SettledMap /\ PostsMap' = PostsMap
    BY <1>5, <2>1 DEF SettledMap, PostsMap
  <2>3. Promise!Forget(c)
    BY <1>5, <2>2 DEF Promise!Forget, Forget, PostsMap, SettledMap
  <2> QED
    BY <2>3 DEF Promise!Next
<1> QED
  BY <1>0, <1>1, <1>2, <1>3, <1>4, <1>5, HandleAbstract

\* Every step of the specification is a step of Alert or a stutter.
LEMMA StepImplements ==
    ASSUME Faults \cap {"crash", "redisError", "lostReply", "sendLost", "evict"} = {}
    PROVE  PromiseInv /\ KeepInv' /\ [Next]_vars => [Promise!Next]_(Promise!vars)
<1> SUFFICES ASSUME PromiseInv, KeepInv', [Next]_vars PROVE [Promise!Next]_(Promise!vars)
  OBVIOUS
<1>1. msg \in [Instances -> [Findings -> MsgStates]] /\ Wanted \subseteq Findings
  BY FindingsAssumption DEF PromiseInv, TypeOK, NatsTypeOK
<1>2. ASSUME UNCHANGED <<sent, forgotten, sighted>>,
             \A j \in Instances, g \in Findings : msg'[j][g] = "settled" <=> msg[j][g] = "settled"
      PROVE  [Promise!Next]_(Promise!vars)
  <2>1. SettledMap' = SettledMap /\ PostsMap' = PostsMap
    BY <1>2 DEF SettledMap, PostsMap
  <2> QED
    BY <1>2, <2>1 DEF Promise!vars, SettledMap, PostsMap
<1>3. ASSUME NEW i \in Instances, NEW f \in Findings,
             Publish(i, f) \/ Deliver(i, f) \/ AckTimeout(i, f)
      PROVE  [Promise!Next]_(Promise!vars)
  <2>1. UNCHANGED <<sent, forgotten, sighted>>
    BY <1>3, TransportShape DEF history
  <2>2. \A j \in Instances, g \in Findings : msg'[j][g] = "settled" <=> msg[j][g] = "settled"
    BY <1>1, <1>3 DEF Publish, Deliver, AckTimeout
  <2> QED
    BY <1>2, <2>1, <2>2
<1>4. ASSUME NEW i \in Instances, NEW f \in Findings, AckLost(i, f)
      PROVE  [Promise!Next]_(Promise!vars)
  <2>1. UNCHANGED <<sent, forgotten, sighted>> /\ msg' = [msg EXCEPT ![i][f] = "outstanding"]
    BY <1>4 DEF AckLost, history
  <2>2. SettledMap' = [SettledMap EXCEPT ![f] = @ \ {i}]
    BY <1>1, <2>1, SettledMove
  <2>3. PostsMap' = PostsMap
    BY <2>1 DEF PostsMap
  <2>4. Promise!Redeliver(i, f)
    BY <2>1, <2>2, <2>3 DEF Promise!Redeliver, PostsMap, SettledMap
  <2> QED
    BY <2>4 DEF Promise!Next
<1>5. ASSUME NEW i \in Instances, NEW f \in Findings, Receive(i, f)
      PROVE  [Promise!Next]_(Promise!vars)
  <2>1. UNCHANGED <<sent, forgotten>>
    BY <1>5 DEF Receive
  <2>2. PostsMap' = PostsMap
    BY <2>1 DEF PostsMap
  <2>3. CASE f \in Wanted
    <3>1. sighted' = [sighted EXCEPT ![f] = @ \cup {i}] /\ UNCHANGED msg
      BY <1>5, <2>3 DEF Receive
    <3>2. SettledMap' = SettledMap
      BY <3>1 DEF SettledMap
    <3>3. Promise!See(i, f)
      BY <2>1, <2>2, <2>3, <3>1, <3>2 DEF Promise!See, PostsMap, SettledMap
    <3> QED
      BY <3>3 DEF Promise!Next
  <2>4. CASE f \notin Wanted
    <3>1. UNCHANGED sighted /\ msg' = [msg EXCEPT ![i][f] = "settled"]
      BY <1>5, <2>4 DEF Receive
    <3>2. SettledMap' = [SettledMap EXCEPT ![f] = @ \cup {i}]
      BY <1>1, <3>1, SettledMove
    <3>3. Promise!Settle(i, f)
      BY <2>1, <2>2, <2>4, <3>1, <3>2 DEF Promise!Settle, PostsMap, SettledMap
    <3> QED
      BY <3>3 DEF Promise!Next
  <2> QED
    BY <2>3, <2>4
<1>6. ASSUME NEW f \in Findings, CountExpires(f)
      PROVE  [Promise!Next]_(Promise!vars)
  <2>1. UNCHANGED <<sent, sighted, msg>> /\ Forget(f)
    BY <1>6 DEF CountExpires, nats
  <2>2. SettledMap' = SettledMap /\ PostsMap' = PostsMap
    BY <2>1 DEF SettledMap, PostsMap
  <2>3. Promise!Forget(f)
    BY <2>1, <2>2 DEF Promise!Forget, Forget, PostsMap, SettledMap
  <2> QED
    BY <2>3 DEF Promise!Next
<1>7. ASSUME NEW i \in Instances, NEW f \in Findings, CacheExpires(i, f)
      PROVE  [Promise!Next]_(Promise!vars)
  BY <1>2, <1>7 DEF CacheExpires, nats, history
<1>8. ASSUME NEW f \in Findings, StatusExpires(f)
      PROVE  [Promise!Next]_(Promise!vars)
  BY <1>2, <1>8 DEF StatusExpires, nats, history
<1>9. CASE UNCHANGED vars
  BY <1>2, <1>9 DEF vars, nats, history
<1>10. /\ \A i \in Instances : ~ LostReply(i) /\ ~ Crash(i)
       /\ \A i \in Instances, f \in Findings : ~ Evict(i, f)
  BY NotAFault DEF LostReply, Crash, Evict
<1> QED
  BY <1>3, <1>4, <1>5, <1>6, <1>7, <1>8, <1>9, <1>10, HandleImplements DEF Next

\* The instances keep the promise of Alert: a finding is posted once, after
\* QuorumSize of them have seen it, and none lets go of its copy before the text is
\* out or Redis has forgotten the count, however they race and whatever expires.
\* For any number of them and a quorum of two or more, where sends fail, copies are
\* delivered again and keys expire, but Redis and the processes work: no crashes,
\* evictions, Redis errors, commands run again or sends without an answer.
THEOREM PromiseKept ==
    ASSUME Faults \cap {"crash", "redisError", "lostReply", "sendLost", "evict"} = {},
           QuorumSize >= 2
    PROVE  Spec => ImplementsAlert
<1>1. Init => Promise!Init
  <2> SUFFICES ASSUME Init PROVE Promise!Init
    OBVIOUS
  <2>1. TypeOK /\ \A f \in Findings : ~ Delivered(f)
    BY InitType DEF Init, Delivered
  <2>2. PostsMap = [f \in Findings |-> {}]
    BY <2>1, PostsMeanDelivered DEF PostsMap
  <2>3. SettledMap = [f \in Findings |-> {}]
    BY DEF Init, SettledMap
  <2> QED
    BY <2>2, <2>3 DEF Init, Promise!Init, PostsMap, SettledMap
<1>2. Spec => []KeepInv
  BY KeepInvariant
<1>3. Spec => []QuorumInv
  BY QuorumInvariant
<1>4. Spec => []OnceInv
  BY OnceInvariant
<1>5. PromiseInv /\ KeepInv' /\ [Next]_vars => [Promise!Next]_(Promise!vars)
  BY StepImplements
<1>6. TypeOK /\ KeepInv /\ QuorumInv /\ OnceInv => PromiseInv
  BY DEF PromiseInv
<1> QED
  BY <1>1, <1>2, <1>3, <1>4, <1>5, <1>6, TypeCorrect, PTL DEF Spec, ImplementsAlert, Promise!Spec
=============================================================================
