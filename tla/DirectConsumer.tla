--------------------------- MODULE DirectConsumer ---------------------------
(***************************************************************************)
(* A consumer that does not wait for a quorum (handleWithoutQuorum): a     *)
(* dedup key in Redis, claimed with SETNX before the notification is sent, *)
(* keeps redelivered copies of a message from being posted again.          *)
(*                                                                         *)
(* SOURCE is part of the key and unique per forwarder, so the instances do *)
(* not meet here: one instance, its stream and its keys are the system.    *)
(* The consumer has MaxAckPending 1: one message is in flight at a time.   *)
(***************************************************************************)
EXTENDS Naturals, FiniteSets

CONSTANTS
    Findings,    \* unique keys of the wanted findings
    MaxDeliver,  \* ConsumerConfig.MaxDeliver
    Faults,      \* the faults of the environment that may happen
    MaxFaults    \* how many of them may happen in one behaviour

FaultNames == {"crash", "redisError", "lostReply", "sendError", "sendLost", "ackLost",
               "maxAge"}

ASSUME DirectAssumption ==
    /\ Findings # {} /\ MaxDeliver \in Nat \ {0}
    /\ Faults \subseteq FaultNames /\ MaxFaults \in Nat

VARIABLES
    dedup,       \* Redis: findings whose dedup key exists (its TTL of 15 minutes
                 \* outlives the message, which the stream drops after 10)
    msg,         \* NATS: state of the message of a finding
    deliveries,  \* NATS: how often it was delivered
    inbox,       \* copies the client has buffered
    pc,          \* the call the handler makes next
    cur,         \* the finding it handles
    sent,        \* history: notifications posted for a finding
    failed,      \* history: sends of it that failed and posted nothing
    faults,      \* number of faults so far
    kinds        \* history: the kinds of them

nats    == <<msg, deliveries, inbox>>
history == <<sent, failed>>
trouble == <<faults, kinds>>
vars    == <<dedup, nats, pc, cur, history, trouble>>

MsgStates == {"unpublished", "ready", "outstanding", "settled", "expired"}
PCs == {"idle", "setNX", "send", "undo", "ack"}

TypeOK ==
    /\ dedup \subseteq Findings
    /\ msg \in [Findings -> MsgStates]
    /\ deliveries \in [Findings -> 0..MaxDeliver]
    /\ inbox \subseteq Findings
    /\ pc \in PCs
    /\ cur \in Findings
    /\ sent \in [Findings -> Nat] /\ failed \in [Findings -> Nat]
    /\ faults \in 0..MaxFaults
    /\ kinds \subseteq Faults

Init ==
    /\ dedup = {}
    /\ msg = [f \in Findings |-> "unpublished"]
    /\ deliveries = [f \in Findings |-> 0]
    /\ inbox = {}
    /\ pc = "idle"
    /\ cur = CHOOSE f \in Findings : TRUE
    /\ sent = [f \in Findings |-> 0] /\ failed = [f \in Findings |-> 0]
    /\ faults = 0
    /\ kinds = {}

NoFault == UNCHANGED trouble

Fault(kind) ==
    /\ kind \in Faults
    /\ faults < MaxFaults
    /\ faults' = faults + 1
    /\ kinds' = kinds \cup {kind}

\* The command did not reach Redis: the client returns an error.
RedisError == Fault("redisError") /\ UNCHANGED dedup

\* Mutant: the duplicate is terminated, which the stream does not count as settled.
Ack_Terminates == msg' = [msg EXCEPT ![cur] = "terminated"]

\* What has left the stream stays out of it.
Ack == msg' = [msg EXCEPT ![cur] = IF @ = "expired" THEN @ ELSE "settled"]
Nak == msg' = [msg EXCEPT ![cur] = IF @ \in {"settled", "expired"} THEN @ ELSE "ready"]

-----------------------------------------------------------------------------
(* NATS *)

Publish(f) ==
    /\ msg[f] = "unpublished"
    /\ msg' = [msg EXCEPT ![f] = "ready"]
    /\ UNCHANGED <<dedup, deliveries, inbox, pc, cur, history, trouble>>

\* A message waits for the settlement of the one before it (MaxAckPending). One that
\* has been delivered MaxDeliver times is not delivered again, and nobody waits for
\* it. At most one copy is buffered besides the one in hand.
Deliver(f) ==
    /\ msg[f] = "ready"
    /\ \A g \in Findings : msg[g] # "outstanding"
    /\ f \notin inbox
    /\ deliveries[f] < MaxDeliver
    /\ deliveries' = [deliveries EXCEPT ![f] = @ + 1]
    /\ msg' = [msg EXCEPT ![f] = "outstanding"]
    /\ inbox' = inbox \cup {f}
    /\ UNCHANGED <<dedup, pc, cur, history, trouble>>

AckTimeout(f) ==
    /\ msg[f] = "outstanding"
    /\ msg' = [msg EXCEPT ![f] = "ready"]
    /\ UNCHANGED <<dedup, deliveries, inbox, pc, cur, history, trouble>>

-----------------------------------------------------------------------------
(* handleWithoutQuorum *)

Receive(f) ==
    /\ pc = "idle"
    /\ f \in inbox
    /\ inbox' = inbox \ {f}
    /\ cur' = f
    /\ pc' = "setNX"
    /\ UNCHANGED <<dedup, msg, deliveries, history, trouble>>

\* The key was there already: the copy is taken for a duplicate and dropped.
SetNX ==
    /\ pc = "setNX"
    /\ \/ cur \notin dedup /\ dedup' = dedup \cup {cur} /\ NoFault
          /\ pc' = "send" /\ UNCHANGED msg
       \/ cur \in dedup /\ UNCHANGED dedup /\ NoFault /\ Ack /\ pc' = "idle"
       \/ RedisError /\ Nak /\ pc' = "idle"
    /\ UNCHANGED <<deliveries, inbox, cur, history>>

Posted  == sent' = [sent EXCEPT ![cur] = @ + 1] /\ UNCHANGED failed
Refused == failed' = [failed EXCEPT ![cur] = @ + 1] /\ UNCHANGED sent

\* Mutant: the channel's error is not looked at.
SendFinding_IgnoresError ==
    /\ pc = "send"
    /\ (NoFault /\ Posted) \/ (Fault("sendError") /\ Refused)
    /\ pc' = "ack"
    /\ UNCHANGED <<dedup, nats, cur>>

SendFinding ==
    /\ pc = "send"
    /\ \/ NoFault /\ Posted /\ pc' = "ack"
       \/ Fault("sendError") /\ Refused /\ pc' = "undo"
       \/ Fault("sendLost") /\ Posted /\ pc' = "undo"
    /\ UNCHANGED <<dedup, nats, cur>>

\* Mutant: the dedup key is deleted whatever the outcome.
AckSent_DropsKey ==
    /\ pc = "ack"
    /\ Ack
    /\ pc' = "idle"
    /\ dedup' = dedup \ {cur}
    /\ UNCHANGED <<deliveries, inbox, cur, history, trouble>>

AckSent ==
    /\ pc = "ack"
    /\ Ack
    /\ pc' = "idle"
    /\ UNCHANGED <<dedup, deliveries, inbox, cur, history, trouble>>

\* Mutant: a failed send leaves the dedup key behind.
UndoDedup_KeepsKey ==
    /\ pc = "undo"
    /\ Nak
    /\ pc' = "idle"
    /\ UNCHANGED <<dedup, deliveries, inbox, cur, history, trouble>>

\* A failed send: the key is deleted (an error of DEL is not looked at) and the
\* message goes back, at once or after the channel's rate limit.
UndoDedup ==
    /\ pc = "undo"
    /\ (dedup' = dedup \ {cur} /\ NoFault) \/ RedisError
    /\ Nak
    /\ pc' = "idle"
    /\ UNCHANGED <<deliveries, inbox, cur, history>>

Handle == SetNX \/ SendFinding \/ AckSent \/ UndoDedup

-----------------------------------------------------------------------------
(* Faults *)

\* Redis ran the command, its reply was lost and the client runs it again.
LostReply ==
    /\ Fault("lostReply")
    /\ \/ pc = "setNX" /\ dedup' = dedup \cup {cur}
       \/ pc = "undo" /\ dedup' = dedup \ {cur}
    /\ UNCHANGED <<nats, pc, cur, history>>

AckLost(f) ==
    /\ Fault("ackLost")
    /\ msg[f] = "settled"
    /\ msg' = [msg EXCEPT ![f] = "outstanding"]
    /\ UNCHANGED <<dedup, deliveries, inbox, pc, cur, history>>

\* The stream drops a message after ten minutes. That is a fault here: a message gets
\* that old behind a queue or a rate limit, never by the handler's own doing.
MaxAge(f) ==
    /\ Fault("maxAge")
    /\ msg[f] \in {"ready", "outstanding"}
    /\ msg' = [msg EXCEPT ![f] = "expired"]
    /\ UNCHANGED <<dedup, deliveries, inbox, pc, cur, history>>

\* Copies that a broken connection loses on their way count as a crash.
Crash ==
    /\ Fault("crash")
    /\ pc' = "idle"
    /\ inbox' = {}
    /\ UNCHANGED <<dedup, msg, deliveries, cur, history>>

Next ==
    \/ Handle \/ LostReply \/ Crash
    \/ \E f \in Findings :
          Publish(f) \/ Deliver(f) \/ AckTimeout(f) \/ Receive(f) \/ AckLost(f) \/ MaxAge(f)

Spec == Init /\ [][Next]_vars

\* As for the quorum path: redelivery (as often as MaxDeliver allows), hand-over and
\* the handler go on. Messages wait for their turn in the order of the stream, so each
\* gets one.
Fairness ==
    /\ WF_vars(Handle)
    /\ \A f \in Findings :
          SF_vars(Deliver(f)) /\ SF_vars(Receive(f)) /\ WF_vars(AckTimeout(f))

FairSpec == Spec /\ Fairness

-----------------------------------------------------------------------------
(* Properties *)

\* The faults that lose a finding: with the dedup key set and the notification not
\* sent, the next copy is dropped as a duplicate. A delivery may also end in them
\* before its send.
Lossy == {"crash", "redisError", "lostReply"}

\* A message is settled only when its finding has been posted: failed or unanswered
\* sends, redelivery and lost acknowledgements never make the handler
\* drop a copy of something unposted.
SettledMeansPosted ==
    kinds \cap Lossy = {} => \A f \in Findings : msg[f] = "settled" => sent[f] > 0

\* Repeated deliveries do not repeat the notification, whatever fails: only a
\* notification whose answer was lost is posted again.
PostedAtMostOnce ==
    "sendLost" \notin kinds => \A f \in Findings : sent[f] <= 1

\* A copy of f is in hand or buffered whose send has not been tried.
Untried(f) == f \in inbox \/ (f = cur /\ pc \in {"setNX", "send"})

\* The stream gives a finding up only for what the channel did: once its deliveries
\* are used up and every copy is done with, it has been posted, or as many sends of it
\* have failed. No delivery is spent otherwise, not by an ack timeout while its copy
\* is buffered or sent, nor on a copy dropped as a duplicate. The lossy faults aside.
GivenUpMeansFailed ==
    kinds \cap Lossy = {} =>
        \A f \in Findings :
            deliveries[f] = MaxDeliver /\ ~Untried(f) => sent[f] > 0 \/ failed[f] = MaxDeliver

\* Every published finding is posted in the end, unless one of the lossy faults
\* strikes, the stream drops it for its age, or all MaxDeliver deliveries of it end in a
\* failed send.
PublishedIsPosted ==
    \A f \in Findings :
        msg[f] = "ready" ~>
            \/ sent[f] > 0 \/ failed[f] = MaxDeliver
            \/ msg[f] = "expired" \/ kinds \cap Lossy # {}
=============================================================================
