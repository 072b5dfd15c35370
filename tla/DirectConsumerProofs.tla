------------------------ MODULE DirectConsumerProofs ------------------------
(***************************************************************************)
(* Theorems about DirectConsumer, for any set of findings, any limit of    *)
(* deliveries and any number of faults.                                    *)
(***************************************************************************)
EXTENDS DirectConsumer, TLAPS

-----------------------------------------------------------------------------
(* Types *)

\* A message that is acknowledged or put back keeps a state of the server.
LEMMA SettleType ==
    ASSUME TypeOK, Ack \/ Nak
    PROVE  msg' \in [Findings -> MsgStates]
<1>1. CASE Ack
  BY <1>1 DEF Ack, TypeOK, MsgStates
<1>2. CASE Nak
  BY <1>2 DEF Nak, TypeOK, MsgStates
<1> QED
  BY <1>1, <1>2

\* The faults stay within their bound and their kinds within those allowed; the
\* history of kinds only grows.
LEMMA TroubleMove ==
    ASSUME TypeOK, [Next]_vars
    PROVE  /\ faults' \in 0..MaxFaults
           /\ kinds' \subseteq Faults
           /\ kinds \subseteq kinds'
<1>1. CASE NoFault
  BY <1>1 DEF NoFault, trouble, TypeOK
<1>2. ASSUME NEW k, Fault(k)
      PROVE  faults' \in 0..MaxFaults /\ kinds' \subseteq Faults /\ kinds \subseteq kinds'
  BY <1>2, DirectAssumption DEF Fault, TypeOK
<1>3. CASE UNCHANGED trouble
  BY <1>3 DEF trouble, TypeOK
<1>4. NoFault \/ (\E k \in Faults : Fault(k)) \/ UNCHANGED trouble
  BY DEF Next, vars, Handle, SetNX, SendFinding, AckSent, UndoDedup, LostReply, Crash,
         Publish, Deliver, AckTimeout, Receive, AckLost, MaxAge, RedisError, Fault
<1> QED
  BY <1>1, <1>2, <1>3, <1>4

\* Every step keeps every variable's type.
LEMMA TypeStep == TypeOK /\ [Next]_vars => TypeOK'
<1> SUFFICES ASSUME TypeOK, [Next]_vars PROVE TypeOK'
  OBVIOUS
<1>1. faults' \in 0..MaxFaults /\ kinds' \subseteq Faults
  BY TroubleMove
<1> USE DEF TypeOK, PCs
<1>2. CASE SetNX
  <2>1. msg' \in [Findings -> MsgStates]
    BY <1>2, SettleType DEF SetNX
  <2> QED
    BY <1>1, <1>2, <2>1 DEF SetNX, RedisError, history
<1>3. CASE SendFinding
  BY <1>1, <1>3 DEF SendFinding, Posted, Refused, nats
<1>4. CASE AckSent
  BY <1>1, <1>4, SettleType DEF AckSent, history
<1>5. CASE UndoDedup
  <2>1. msg' \in [Findings -> MsgStates]
    BY <1>5, SettleType DEF UndoDedup
  <2> QED
    BY <1>1, <1>5, <2>1 DEF UndoDedup, RedisError, history
<1>6. CASE LostReply
  BY <1>1, <1>6 DEF LostReply, history, nats
<1>7. CASE Crash
  BY <1>1, <1>7 DEF Crash, history
<1>8. ASSUME NEW f \in Findings,
             Publish(f) \/ Deliver(f) \/ AckTimeout(f) \/ Receive(f) \/ AckLost(f)
                 \/ MaxAge(f)
      PROVE  TypeOK'
  <2>1. CASE Deliver(f)
    <3>1. deliveries' \in [Findings -> 0..MaxDeliver]
      BY <2>1, DirectAssumption DEF Deliver
    <3> QED
      BY <1>1, <2>1, <3>1 DEF Deliver, MsgStates, history
  <2>2. CASE Publish(f) \/ AckTimeout(f) \/ Receive(f) \/ AckLost(f) \/ MaxAge(f)
    BY <1>1, <2>2 DEF Publish, AckTimeout, Receive, AckLost, MaxAge, MsgStates, history
  <2> QED
    BY <1>8, <2>1, <2>2
<1>9. CASE UNCHANGED vars
  BY <1>1, <1>9 DEF vars, nats, history
<1> QED
  BY <1>2, <1>3, <1>4, <1>5, <1>6, <1>7, <1>8, <1>9 DEF Next, Handle

\* Every variable keeps its type (consumer.go handleWithoutQuorum), whatever the
\* faults.
THEOREM TypeCorrect == Spec => []TypeOK
<1>1. Init => TypeOK
  BY DirectAssumption DEF Init, TypeOK, PCs, MsgStates
<1> QED
  BY <1>1, TypeStep, PTL DEF Spec

-----------------------------------------------------------------------------
(* Posted at most once. The dedup key alone does not say so: a failed send     *)
(* deletes it. It is safe because nothing is posted without the key, and a     *)
(* handler that will delete the key has not posted its finding.                *)

OnceInv ==
    "sendLost" \notin kinds =>
        /\ \A f \in Findings : sent[f] <= 1
        /\ \A f \in Findings \ dedup : sent[f] = 0
        /\ pc = "send" => cur \in dedup
        /\ pc \in {"send", "undo"} => sent[cur] = 0

\* Every step keeps it.
LEMMA OnceStep == TypeOK /\ OnceInv /\ [Next]_vars => OnceInv'
<1> SUFFICES ASSUME TypeOK, OnceInv, [Next]_vars, "sendLost" \notin kinds'
             PROVE  /\ \A f \in Findings : sent'[f] <= 1
                    /\ \A f \in Findings \ dedup' : sent'[f] = 0
                    /\ pc' = "send" => cur' \in dedup'
                    /\ pc' \in {"send", "undo"} => sent'[cur'] = 0
  BY DEF OnceInv
<1>1. "sendLost" \notin kinds
  BY TroubleMove
<1> USE <1>1 DEF OnceInv, TypeOK
<1>2. CASE SetNX
  BY <1>2 DEF SetNX, RedisError, history
<1>3. CASE SendFinding
  <2>1. CASE NoFault /\ Posted /\ pc' = "ack"
    <3>1. sent[cur] = 0 /\ cur \in dedup /\ UNCHANGED <<dedup, cur>>
      BY <1>3 DEF SendFinding
    <3> QED
      BY <2>1, <3>1 DEF Posted
  <2>2. CASE Fault("sendError") /\ Refused /\ pc' = "undo"
    BY <1>3, <2>2 DEF SendFinding, Refused
  <2>3. ~ Fault("sendLost")
    BY DEF Fault
  <2> QED
    BY <1>3, <2>1, <2>2, <2>3 DEF SendFinding
<1>4. CASE AckSent
  BY <1>4 DEF AckSent, history
<1>5. CASE UndoDedup
  BY <1>5 DEF UndoDedup, RedisError, history
<1>6. CASE LostReply
  BY <1>6 DEF LostReply, history, nats
<1>7. CASE Crash
  BY <1>7 DEF Crash, history
<1>8. ASSUME NEW f \in Findings,
             Publish(f) \/ Deliver(f) \/ AckTimeout(f) \/ Receive(f) \/ AckLost(f)
                 \/ MaxAge(f)
      PROVE  /\ UNCHANGED <<sent, dedup>>
             /\ pc' \in {"send", "undo"} => pc = pc' /\ cur = cur'
  BY <1>8 DEF Publish, Deliver, AckTimeout, Receive, AckLost, MaxAge, history
<1>9. CASE UNCHANGED vars
  BY <1>9 DEF vars, nats, history
<1> QED
  BY <1>2, <1>3, <1>4, <1>5, <1>6, <1>7, <1>8, <1>9 DEF Next, Handle

\* Repeated deliveries do not repeat the notification (handleWithoutQuorum), under
\* crashes, failed and retried Redis commands, failed sends and lost
\* acknowledgements: only a notification whose answer was lost is posted again.
THEOREM PostedOnce == Spec => []PostedAtMostOnce
<1>1. Init => OnceInv
  BY DEF Init, OnceInv
<1>2. TypeOK /\ OnceInv /\ [Next]_vars => OnceInv'
  BY OnceStep
<1>3. OnceInv => PostedAtMostOnce
  BY DEF OnceInv, PostedAtMostOnce
<1> QED
  BY <1>1, <1>2, <1>3, TypeCorrect, PTL DEF Spec

-----------------------------------------------------------------------------
(* Nothing dropped. As long as no lossy fault has struck, a dedup key stands   *)
(* for a notification that went out or is in the handler's hands; so a copy    *)
(* that finds the key can be dropped.                                          *)

KeyTruthful ==
    \A f \in dedup : sent[f] > 0 \/ (f = cur /\ pc \in {"send", "undo"})

DropInv ==
    kinds \cap Lossy = {} =>
        /\ \A f \in Findings : msg[f] = "settled" => sent[f] > 0
        /\ KeyTruthful
        /\ pc = "ack" => sent[cur] > 0

\* Every step keeps it.
LEMMA DropStep == TypeOK /\ DropInv /\ [Next]_vars => DropInv'
<1> SUFFICES ASSUME TypeOK, DropInv, [Next]_vars, kinds' \cap Lossy = {}
             PROVE  /\ \A f \in Findings : msg'[f] = "settled" => sent'[f] > 0
                    /\ KeyTruthful'
                    /\ pc' = "ack" => sent'[cur'] > 0
  BY DEF DropInv
<1>1. kinds \cap Lossy = {}
  BY TroubleMove
<1>2. ~ Fault("crash") /\ ~ Fault("redisError") /\ ~ Fault("lostReply")
  BY DEF Fault, Lossy
<1> USE <1>1 DEF DropInv, TypeOK, KeyTruthful
<1>3. CASE SetNX
  <2>1. CASE cur \notin dedup /\ dedup' = dedup \cup {cur} /\ pc' = "send" /\ UNCHANGED msg
    BY <1>3, <2>1 DEF SetNX, history
  <2>2. CASE cur \in dedup /\ UNCHANGED dedup /\ Ack /\ pc' = "idle"
    BY <1>3, <2>2 DEF SetNX, Ack, history
  <2> QED
    BY <1>2, <1>3, <2>1, <2>2 DEF SetNX, RedisError, history
<1>4. CASE SendFinding
  BY <1>4 DEF SendFinding, Posted, Refused, nats
<1>5. CASE AckSent
  BY <1>5 DEF AckSent, Ack, history
<1>6. CASE UndoDedup
  BY <1>2, <1>6 DEF UndoDedup, RedisError, Nak, history
<1>7. CASE LostReply \/ Crash
  BY <1>2, <1>7 DEF LostReply, Crash
<1>8. ASSUME NEW f \in Findings,
             Publish(f) \/ Deliver(f) \/ AckTimeout(f) \/ Receive(f) \/ AckLost(f)
                 \/ MaxAge(f)
      PROVE  /\ UNCHANGED <<sent, dedup>>
             /\ \A g \in Findings : msg'[g] = "settled" => msg[g] = "settled"
             /\ pc' \in {"send", "undo", "ack"} => pc = pc' /\ cur = cur'
             /\ pc \in {"send", "undo"} => pc = pc' /\ cur = cur'
  BY <1>8 DEF Publish, Deliver, AckTimeout, Receive, AckLost, MaxAge, history
<1>9. CASE UNCHANGED vars
  BY <1>9 DEF vars, nats, history
<1> QED
  BY <1>3, <1>4, <1>5, <1>6, <1>7, <1>8, <1>9 DEF Next, Handle

\* A message leaves the stream only when its finding has been posted, unless a
\* crash, a failed Redis command or its retry struck before
\* (handleWithoutQuorum): failed or unanswered sends, redelivery and lost
\* acknowledgements do not make the handler drop a copy of something unposted.
THEOREM NothingUnpostedIsDropped == Spec => []SettledMeansPosted
<1>1. Init => DropInv
  BY DEF Init, DropInv, KeyTruthful
<1>2. TypeOK /\ DropInv /\ [Next]_vars => DropInv'
  BY DropStep
<1>3. DropInv => SettledMeansPosted
  BY DEF DropInv, SettledMeansPosted
<1> QED
  BY <1>1, <1>2, <1>3, TypeCorrect, PTL DEF Spec

-----------------------------------------------------------------------------
(* The limit of deliveries. While a finding is unposted, each of its           *)
(* deliveries is a failed send or a copy whose send is still to be tried: the  *)
(* one in the buffer, the one in hand.                                         *)

Buffered(f) == IF f \in inbox THEN 1 ELSE 0
InHand(f) == IF f = cur /\ pc \in {"setNX", "send"} THEN 1 ELSE 0

LimitInv ==
    kinds \cap Lossy = {} =>
        \A f \in Findings :
            sent[f] = 0 => deliveries[f] = failed[f] + Buffered(f) + InHand(f)

\* A copy goes from the stream to the buffer to the hand.
LEMMA CopyStep ==
    ASSUME TypeOK, LimitInv, kinds \cap Lossy = {},
           NEW f \in Findings, Deliver(f) \/ Receive(f),
           NEW g \in Findings, sent[g] = 0
    PROVE  deliveries'[g] = failed'[g] + Buffered(g)' + InHand(g)'
<1>1. deliveries[g] = failed[g] + Buffered(g) + InHand(g)
  BY DEF LimitInv
<1>2. deliveries[g] \in Nat /\ failed[g] \in Nat /\ InHand(g) \in Nat
  BY DirectAssumption DEF TypeOK, InHand
<1>3. CASE Deliver(f)
  <2>1. /\ deliveries' = [deliveries EXCEPT ![f] = @ + 1]
        /\ f \notin inbox /\ inbox' = inbox \cup {f} /\ UNCHANGED <<failed, pc, cur>>
    BY <1>3 DEF Deliver, history
  <2>2. InHand(g)' = InHand(g)
    BY <2>1 DEF InHand
  <2>3. CASE g = f
    <3>1. deliveries'[g] = deliveries[g] + 1 /\ Buffered(g) = 0 /\ Buffered(g)' = 1
      BY <2>1, <2>3 DEF Buffered, TypeOK
    <3> QED
      BY <1>1, <1>2, <2>1, <2>2, <3>1
  <2>4. CASE g # f
    <3>1. deliveries'[g] = deliveries[g] /\ Buffered(g)' = Buffered(g)
      BY <2>1, <2>4 DEF Buffered, TypeOK
    <3> QED
      BY <1>1, <2>1, <2>2, <3>1
  <2> QED
    BY <2>3, <2>4
<1>4. CASE Receive(f)
  <2>1. /\ pc = "idle" /\ pc' = "setNX" /\ cur' = f
        /\ f \in inbox /\ inbox' = inbox \ {f} /\ UNCHANGED <<failed, deliveries>>
    BY <1>4 DEF Receive, history
  <2>2. InHand(g) = 0
    BY <2>1 DEF InHand
  <2>3. CASE g = f
    <3>1. Buffered(g) = 1 /\ Buffered(g)' = 0 /\ InHand(g)' = 1
      BY <2>1, <2>3 DEF Buffered, InHand
    <3> QED
      BY <1>1, <1>2, <2>1, <2>2, <3>1
  <2>4. CASE g # f
    <3>1. Buffered(g)' = Buffered(g) /\ InHand(g)' = 0
      BY <2>1, <2>4 DEF Buffered, InHand
    <3> QED
      BY <1>1, <2>1, <2>2, <3>1
  <2> QED
    BY <2>3, <2>4
<1> QED
  BY <1>3, <1>4

\* Every step keeps it. A copy is dropped as a duplicate only when its finding is
\* posted (KeyTruthful), so a copy of an unposted one ends in a send.
LEMMA LimitStep == TypeOK /\ DropInv /\ LimitInv /\ [Next]_vars => LimitInv'
<1> SUFFICES ASSUME TypeOK, DropInv, LimitInv, [Next]_vars, kinds' \cap Lossy = {},
                    NEW g \in Findings, sent'[g] = 0
             PROVE  deliveries'[g] = failed'[g] + Buffered(g)' + InHand(g)'
  BY DEF LimitInv
<1>1. kinds \cap Lossy = {}
  BY TroubleMove
<1>2. ~ Fault("crash") /\ ~ Fault("redisError") /\ ~ Fault("lostReply")
  BY DEF Fault, Lossy
<1>3. sent[g] \in Nat /\ deliveries[g] \in Nat /\ failed[g] \in Nat
  BY DirectAssumption DEF TypeOK
<1>4. sent[g] = 0 => deliveries[g] = failed[g] + Buffered(g) + InHand(g)
  BY <1>1 DEF LimitInv
<1>5. CASE SetNX
  <2>1. UNCHANGED <<deliveries, inbox, cur, sent, failed>> /\ pc = "setNX"
    BY <1>5 DEF SetNX, history
  <2>2. CASE pc' = "send"
    BY <1>4, <2>1, <2>2 DEF Buffered, InHand
  <2>3. CASE cur \in dedup
    <3>1. sent[cur] > 0
      BY <1>1, <2>1, <2>3 DEF DropInv, KeyTruthful
    <3>2. g # cur
      BY <2>1, <3>1
    <3> QED
      BY <1>4, <2>1, <3>2 DEF Buffered, InHand
  <2> QED
    BY <1>2, <1>5, <2>2, <2>3 DEF SetNX, RedisError
<1>6. CASE SendFinding
  <2>1. pc = "send" /\ pc' \in {"ack", "undo"} /\ UNCHANGED <<deliveries, inbox, cur>>
    BY <1>6 DEF SendFinding, nats
  <2>2. Buffered(g)' = Buffered(g) /\ InHand(g)' = 0
    BY <2>1 DEF Buffered, InHand
  <2>3. CASE Posted
    <3>1. g # cur
      BY <1>3, <2>3 DEF Posted, TypeOK
    <3>2. sent[g] = 0 /\ InHand(g) = 0
      BY <2>3, <3>1 DEF Posted, InHand, TypeOK
    <3> QED
      BY <1>3, <1>4, <2>1, <2>2, <2>3, <3>2 DEF Posted
  <2>4. CASE Refused
    <3>1. sent[g] = 0 /\ failed' = [failed EXCEPT ![cur] = @ + 1]
      BY <2>4 DEF Refused
    <3>2. CASE g = cur
      <4>1. InHand(g) = 1 /\ failed'[g] = failed[g] + 1
        BY <2>1, <3>1, <3>2 DEF InHand, TypeOK
      <4>2. Buffered(g) \in Nat
        BY DEF Buffered
      <4> QED
        BY <1>3, <1>4, <2>1, <2>2, <3>1, <4>1, <4>2
    <3>3. CASE g # cur
      <4>1. InHand(g) = 0 /\ failed'[g] = failed[g]
        BY <3>1, <3>3 DEF InHand, TypeOK
      <4> QED
        BY <1>4, <2>1, <2>2, <3>1, <4>1
    <3> QED
      BY <3>2, <3>3
  <2> QED
    BY <1>6, <2>3, <2>4 DEF SendFinding
<1>7. CASE AckSent \/ UndoDedup
  <2>1. UNCHANGED <<deliveries, inbox, cur, sent, failed>> /\ pc \in {"ack", "undo"}
        /\ pc' = "idle"
    BY <1>7 DEF AckSent, UndoDedup, history
  <2> QED
    BY <1>4, <2>1 DEF Buffered, InHand
<1>8. CASE LostReply \/ Crash
  BY <1>2, <1>8 DEF LostReply, Crash
<1>9. ASSUME NEW f \in Findings, Deliver(f) \/ Receive(f)
      PROVE  deliveries'[g] = failed'[g] + Buffered(g)' + InHand(g)'
  <2>1. sent[g] = 0
    BY <1>9 DEF Deliver, Receive, history
  <2> QED
    BY <1>1, <1>9, <2>1, CopyStep
<1>10. ASSUME NEW f \in Findings, Publish(f) \/ AckTimeout(f) \/ AckLost(f) \/ MaxAge(f)
       PROVE  UNCHANGED <<deliveries, inbox, pc, cur, sent, failed>>
  BY <1>10 DEF Publish, AckTimeout, AckLost, MaxAge, history
<1>11. CASE UNCHANGED <<deliveries, inbox, pc, cur, sent, failed>>
  BY <1>4, <1>11 DEF Buffered, InHand
<1>12. CASE UNCHANGED vars
  BY <1>11, <1>12 DEF vars, nats, history
<1> QED
  BY <1>5, <1>6, <1>7, <1>8, <1>9, <1>10, <1>11, <1>12 DEF Next, Handle

\* A finding runs out of deliveries (ConsumeFindings: MaxDeliver) only through
\* failed sends, as many as it has deliveries: ack timeouts, lost acknowledgements,
\* duplicates and the age of the message cost none of them, until a crash, a Redis
\* error or a retried command strikes.
THEOREM GivenUpAfterFailures == Spec => []GivenUpMeansFailed
<1>1. Init => DropInv /\ LimitInv
  <2> SUFFICES ASSUME Init PROVE DropInv /\ LimitInv
    OBVIOUS
  <2>1. DropInv
    BY DEF Init, DropInv, KeyTruthful
  <2>2. LimitInv
    BY DEF Init, LimitInv, Buffered, InHand
  <2> QED
    BY <2>1, <2>2
<1>2. TypeOK /\ DropInv /\ LimitInv /\ [Next]_vars => DropInv' /\ LimitInv'
  BY DropStep, LimitStep
<1>3. TypeOK /\ LimitInv => GivenUpMeansFailed
  <2> SUFFICES ASSUME TypeOK, LimitInv, kinds \cap Lossy = {}, NEW f \in Findings,
                      deliveries[f] = MaxDeliver, ~Untried(f), ~(sent[f] > 0)
               PROVE  failed[f] = MaxDeliver
    BY DEF GivenUpMeansFailed
  <2>1. sent[f] = 0 /\ failed[f] \in Nat
    BY DEF TypeOK
  <2>2. Buffered(f) = 0 /\ InHand(f) = 0
    BY DEF Untried, Buffered, InHand
  <2> QED
    BY <2>1, <2>2 DEF LimitInv
<1> QED
  BY <1>1, <1>2, <1>3, TypeCorrect, PTL DEF Spec
=============================================================================
